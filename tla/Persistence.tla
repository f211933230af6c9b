---------------------------- MODULE Persistence -----------------------------
(***************************************************************************)
(* Presets and the last state on disk: the preset and set_* handlers of    *)
(* crates/daemon/src/main.rs, its saver task, and config::load and save of *)
(* config.rs.                                                              *)
(*                                                                         *)
(* A preset edit writes the file at once, with the presets mutex held.  A  *)
(* set_* handler hands a whole Config to the saver task through a channel  *)
(* of capacity one, and the task writes the latest it got at every tick.   *)
(* config::save is create, write and rename of one temporary file, which   *)
(* the two writers share.  Each of the three may fail, and so may the read *)
(* of config::load; every failure is ignored, and the save goes on.  The   *)
(* daemon may be killed at any point and is then started again; what the   *)
(* kernel was given survives.  The order of the presets, their names and   *)
(* colours, and the device and color_order settings are left out.          *)
(***************************************************************************)
EXTENDS Naturals, FiniteSets, FiniteSetsExt

CONSTANTS
  Editor,     \* clients that call save_preset and delete_preset
  Setter,     \* clients that call set_power, set_brightness, set_color, ...
  Saver,      \* the saver task
  State,      \* device states
  Default,    \* DeviceState::default()
  MaxId,      \* bound: no more preset ids than these are given out
  None        \* an absent file, an empty channel, a free mutex

Client == Editor \cup Setter
Writer == Client \cup {Saver}
Id     == 1..MaxId
Config == [presets : SUBSET Id, last_state : State]

Empty == [file |-> "empty"]    \* created or truncated, and not yet written
Torn  == [file |-> "torn"]     \* pieces of two configs

ASSUME PersistenceAssumption ==
  /\ Editor \cap Setter = {} /\ Saver \notin Client
  /\ Default \in State
  /\ MaxId \in Nat
  /\ None \notin Config \cup Client \cup {Empty, Torn}

VARIABLES
  presets,          \* Daemon::presets, as the set of their ids
  next_preset_id,
  current,          \* Daemon::current
  holder,           \* the client that holds the mutex of presets, or None
  save_chan,        \* the Config in the save channel, or None
  pending,          \* the Config the saver task has yet to write, or None
  cpc,              \* where each handler is
  cid,              \* the preset it saves or deletes
  snap,             \* the device state it saves
  cfg,              \* per writer: the Config it writes, or is about to send
  wpc,              \* per writer: where it is in config::save
  fd,               \* per writer: the file its descriptor now refers to
  tmp, disk,        \* config.tmp and config.toml
  acked,            \* history: presets saved, with the id returned
  gone,             \* history: presets deleted, with ok returned
  failed,           \* history: a file operation failed since the last start
  crossed           \* history: the saver task has met an edit since then

memory  == <<presets, next_preset_id, current, holder>>
saving  == <<save_chan, pending>>
handler == <<cpc, cid, snap>>
writing == <<cfg, wpc, fd>>
files   == <<tmp, disk>>
history == <<acked, gone>>
harm    == <<failed, crossed>>
vars    == <<memory, saving, handler, writing, files, history, harm>>

\* config::load: an empty file parses, as a Config of defaults.
Load(file) ==
  IF file \in {None, Empty, Torn} THEN [presets |-> {}, last_state |-> Default] ELSE file

-----------------------------------------------------------------------------
(***************************************************************************)
(* Daemon::save_preset and delete_preset.                                  *)
(***************************************************************************)

TakeId(c) ==
  /\ c \in Editor /\ cpc[c] = "idle" /\ next_preset_id \in Id
  /\ cid' = [cid EXCEPT ![c] = next_preset_id]
  /\ next_preset_id' = next_preset_id + 1
  /\ cpc' = [cpc EXCEPT ![c] = "push"]
  /\ gone' = gone \ {next_preset_id}
  /\ UNCHANGED <<presets, current, holder, saving, snap, writing, files, acked, harm>>

\* Mutant: the mutex is not held across the save.
SavePresetsConfigUnlocked(c, ps) ==
  /\ UNCHANGED holder
  /\ presets' = ps
  /\ cfg' = [cfg EXCEPT ![c] = [presets |-> ps, last_state |-> current]]
  /\ wpc' = [wpc EXCEPT ![c] = "open"]
  /\ crossed' = (crossed \/ wpc[Saver] # "idle")

\* save_presets_config(ps), under the mutex of presets, up to config::save.
SavePresetsConfig(c, ps) ==
  /\ holder = None
  /\ holder' = c
  /\ presets' = ps
  /\ cfg' = [cfg EXCEPT ![c] = [presets |-> ps, last_state |-> current]]
  /\ wpc' = [wpc EXCEPT ![c] = "open"]
  /\ crossed' = (crossed \/ wpc[Saver] # "idle")

Push(c) ==
  /\ cpc[c] = "push"
  /\ SavePresetsConfig(c, presets \cup {cid[c]})
  /\ cpc' = [cpc EXCEPT ![c] = "saving"]
  /\ UNCHANGED <<next_preset_id, current, saving, cid, snap, fd, files, history, failed>>

\* A request to delete a preset that does not exist changes nothing.
Delete(c, id) ==
  /\ c \in Editor /\ cpc[c] = "idle" /\ id \in presets
  /\ SavePresetsConfig(c, presets \ {id})
  /\ cid' = [cid EXCEPT ![c] = id]
  /\ cpc' = [cpc EXCEPT ![c] = "deleting"]
  /\ acked' = acked \ {id}
  /\ UNCHANGED <<next_preset_id, current, saving, snap, fd, files, gone, failed>>

\* config::save has returned: the mutex is released and the client answered.
Answer(c) ==
  /\ cpc[c] \in {"saving", "deleting"} /\ wpc[c] = "saved"
  /\ holder' = None
  /\ wpc' = [wpc EXCEPT ![c] = "idle"]
  /\ cpc' = [cpc EXCEPT ![c] = "idle"]
  /\ IF cpc[c] = "saving"
       THEN acked' = acked \cup {cid[c]} /\ UNCHANGED gone
       ELSE gone' = gone \cup {cid[c]} /\ UNCHANGED acked
  /\ cid' = [cid EXCEPT ![c] = 0]
  /\ cfg' = [cfg EXCEPT ![c] = Load(None)]
  /\ UNCHANGED <<presets, next_preset_id, current, saving, snap, fd, files, harm>>

-----------------------------------------------------------------------------
(***************************************************************************)
(* The set_* handlers, as far as they save, and the saver task.            *)
(***************************************************************************)

SetCurrent(c, s) ==
  /\ c \in Setter /\ cpc[c] = "idle"
  /\ current' = s
  /\ snap' = [snap EXCEPT ![c] = s]
  /\ cpc' = [cpc EXCEPT ![c] = "apply"]
  /\ UNCHANGED <<presets, next_preset_id, holder, saving, cid, writing, files, history, harm>>

\* save_current_config, after the apply: the presets are cloned ...
ClonePresets(c) ==
  /\ cpc[c] = "apply" /\ holder = None
  /\ cfg' = [cfg EXCEPT ![c] = [presets |-> presets, last_state |-> snap[c]]]
  /\ cpc' = [cpc EXCEPT ![c] = "send"]
  /\ UNCHANGED <<memory, saving, cid, snap, wpc, fd, files, history, harm>>

\* ... and the Config is sent, or dropped when the channel is full.
TrySend(c) ==
  /\ cpc[c] = "send"
  /\ save_chan' = IF save_chan = None THEN cfg[c] ELSE save_chan
  /\ cpc' = [cpc EXCEPT ![c] = "idle"]
  /\ snap' = [snap EXCEPT ![c] = Default]
  /\ cfg' = [cfg EXCEPT ![c] = Load(None)]
  /\ UNCHANGED <<memory, pending, cid, wpc, fd, files, history, harm>>

SaverRecv ==
  /\ save_chan # None /\ wpc[Saver] = "idle"
  /\ pending' = save_chan /\ save_chan' = None
  /\ UNCHANGED <<memory, handler, writing, files, history, harm>>

SaverTick ==
  /\ pending # None /\ wpc[Saver] = "idle"
  /\ cfg' = [cfg EXCEPT ![Saver] = pending]
  /\ wpc' = [wpc EXCEPT ![Saver] = "open"]
  /\ crossed' = (crossed \/ holder # None \/ pending.presets # presets)
  /\ UNCHANGED <<memory, saving, handler, fd, files, history, failed>>

SaverSaved ==
  /\ wpc[Saver] = "saved"
  /\ pending' = None
  /\ wpc' = [wpc EXCEPT ![Saver] = "idle"]
  /\ cfg' = [cfg EXCEPT ![Saver] = Load(None)]
  /\ UNCHANGED <<memory, save_chan, handler, fd, files, history, harm>>

-----------------------------------------------------------------------------
(***************************************************************************)
(* config::save.  The operating system is external.  What an operation     *)
(* returns is discarded: the next one follows in any case.                 *)
(***************************************************************************)

\* Writer w goes on to the next operation, after one that has done its work, or
\* has failed.
Done(w, next) ==
  /\ wpc' = [wpc EXCEPT ![w] = next]
  /\ UNCHANGED <<memory, saving, handler, cfg, history, failed, crossed>>

Failed(w, next) ==
  /\ wpc' = [wpc EXCEPT ![w] = next] /\ failed' = TRUE
  /\ UNCHANGED <<memory, saving, handler, cfg, history, crossed>>

\* Mutant: the file is written in place.
CreateInPlace(w) ==
  /\ wpc[w] = "open"
  /\ disk' = Empty
  /\ fd' = [fd EXCEPT ![w] = "disk"]
  /\ UNCHANGED tmp
  /\ Done(w, "write")

\* fs::write creates or truncates the temporary file.  Where that fails the file
\* is as it was: the one that a killed save has left, or none ...
Create(w) ==
  /\ wpc[w] = "open"
  /\ \/ /\ tmp' = Empty /\ UNCHANGED disk
        /\ fd' = [fd EXCEPT ![w] = "tmp"]
        /\ Done(w, "write")
     \/ /\ UNCHANGED <<files, fd>>
        /\ Failed(w, "rename")

\* What a write of c leaves in a file that may have been written before, and what
\* one leaves that fails or is cut short: some of the presets, where the text ends
\* between two of them, or a text that does not parse.
Written(file, c) == IF file = Empty THEN {c} ELSE {c, Torn}
Cut(file, c) ==
  {file, Torn} \cup
    {x \in [presets : SUBSET c.presets, last_state : {Default}] : file = Empty /\ x # c}

\* ... and writes the file it has opened, which a rename may have moved ...
WriteAll(w) ==
  /\ wpc[w] = "write"
  /\ \E ok \in BOOLEAN :
       LET Left(file) == IF ok THEN Written(file, cfg[w]) ELSE Cut(file, cfg[w])
       IN  /\ CASE fd[w] = "tmp"  -> tmp' \in Left(tmp) /\ UNCHANGED disk
                [] fd[w] = "disk" -> disk' \in Left(disk) /\ UNCHANGED tmp
                [] OTHER          -> UNCHANGED files
           /\ IF ok THEN Done(w, "rename") ELSE Failed(w, "rename")
  /\ fd' = [fd EXCEPT ![w] = "none"]

\* ... and the file is renamed, whatever is in it, if there is one.
Rename(w) ==
  /\ wpc[w] = "rename"
  /\ \/ /\ tmp # None
        /\ disk' = tmp /\ tmp' = None
        /\ fd' = [v \in Writer |-> CASE fd[v] = "tmp"  -> "disk"
                                     [] fd[v] = "disk" -> "none"
                                     [] OTHER          -> fd[v]]
        /\ Done(w, "saved")
     \/ UNCHANGED <<files, fd>> /\ Failed(w, "saved")

-----------------------------------------------------------------------------
(***************************************************************************)
(* The daemon starts, or is killed and started again.                      *)
(***************************************************************************)

\* Mutants: the number of presets, and an increment too many.
NextIdCount(ids) == Cardinality(ids) + 1
NextIdSkips(ids) == IF ids = {} THEN 1 ELSE Max(ids) + 2

\* Daemon::new.
NextId(ids) == IF ids = {} THEN 1 ELSE Max(ids) + 1

\* Edits that were confirmed may be missing in config.toml.
Harmed == failed \/ crossed

\* Daemon::new, after config::load has found that file: no file at all, where the
\* read failed.  What the file lacks after harm is lost for good.
Restart(found) ==
  /\ presets' = Load(found).presets
  /\ next_preset_id' = NextId(Load(found).presets)
  /\ current' = Load(found).last_state
  /\ disk' = IF found = Torn THEN None ELSE disk
  /\ holder' = None /\ save_chan' = None /\ pending' = None
  /\ cpc' = [c \in Client |-> "idle"]
  /\ cid' = [c \in Client |-> 0] /\ snap' = [c \in Client |-> Default]
  /\ cfg' = [w \in Writer |-> Load(None)]
  /\ wpc' = [w \in Writer |-> "idle"] /\ fd' = [w \in Writer |-> "none"]
  /\ failed' = (found # disk) /\ crossed' = FALSE
  /\ IF found = disk /\ Harmed
       THEN acked' = acked \cap presets' /\ gone' = gone \ presets'
       ELSE UNCHANGED history
  /\ UNCHANGED tmp

Init ==
  /\ presets = {} /\ next_preset_id = 1 /\ current = Default /\ holder = None
  /\ save_chan = None /\ pending = None
  /\ cpc = [c \in Client |-> "idle"]
  /\ cid = [c \in Client |-> 0] /\ snap = [c \in Client |-> Default]
  /\ cfg = [w \in Writer |-> Load(None)]
  /\ wpc = [w \in Writer |-> "idle"] /\ fd = [w \in Writer |-> "none"]
  /\ tmp = None /\ disk = None
  /\ acked = {} /\ gone = {} /\ failed = FALSE /\ crossed = FALSE

Edit(c) == TakeId(c) \/ Push(c) \/ Answer(c) \/ \E id \in Id : Delete(c, id)

Save(c) == ClonePresets(c) \/ TrySend(c) \/ \E s \in State : SetCurrent(c, s)

Write(w) == Create(w) \/ WriteAll(w) \/ Rename(w)

Next ==
  \/ \E c \in Client : Edit(c) \/ Save(c)
  \/ SaverRecv \/ SaverTick \/ SaverSaved
  \/ \E w \in Writer : Write(w)
  \/ \E found \in {disk, None} : Restart(found)

Spec == Init /\ [][Next]_vars

-----------------------------------------------------------------------------
(***************************************************************************)
(* Properties.                                                             *)
(***************************************************************************)

\* Every variable keeps its type.
TypeOK ==
  /\ presets \subseteq Id /\ next_preset_id \in 1..MaxId + 1 /\ current \in State
  /\ holder \in Client \cup {None}
  /\ save_chan \in Config \cup {None} /\ pending \in Config \cup {None}
  /\ cpc \in [Client -> {"idle", "push", "saving", "deleting", "apply", "send"}]
  /\ cid \in [Client -> Id \cup {0}] /\ snap \in [Client -> State]
  /\ cfg \in [Writer -> Config]
  /\ wpc \in [Writer -> {"idle", "open", "write", "rename", "saved"}]
  /\ fd \in [Writer -> {"none", "tmp", "disk"}]
  /\ tmp \in Config \cup {None, Empty, Torn} /\ disk \in Config \cup {None, Empty, Torn}
  /\ acked \subseteq Id /\ gone \subseteq Id
  /\ failed \in BOOLEAN /\ crossed \in BOOLEAN

\* The configs that may yet come to be in config.toml.
InUse ==
  {x \in {save_chan, pending} : x \in Config}
  \cup {cfg[w] : w \in {v \in Writer : wpc[v] \in {"open", "write", "rename"}}}
  \cup {cfg[c] : c \in {d \in Client : cpc[d] = "send"}}

\* The id given out next is above that of every preset in memory or in a config on
\* its way to the file, and of those in the file unless a failure has left there
\* what a killed save had written, however edits, saves and restarts interleave:
\* no two presets have one id.  Only that of a preset deleted before a restart, or
\* lost, may be given out again.
IdsFresh ==
  /\ \A id \in presets : id < next_preset_id
  /\ \A x \in InUse : \A id \in x.presets : id < next_preset_id
  /\ Harmed \/ \A id \in Load(disk).presets : id < next_preset_id

\* A restart finds every preset whose id was returned, and none whose deletion
\* was confirmed.
Durable ==
  acked \subseteq Load(disk).presets /\ gone \cap Load(disk).presets = {}

\* Edits are durable from a start of the daemon until a file operation of
\* config::save or load fails, or the saver task's write meets an edit: it carries
\* presets cloned before the edit, or the edit is made while it runs.
EditsDurable == Harmed \/ Durable

\* The document's promise of a config.toml owned by one daemon, with the presets:
\* edits are durable where no file operation fails.
WrittenEditsDurable == failed \/ Durable

\* The document's promise of the presets in config.toml, for which config::save
\* writes another file first: a save that fails leaves in config.toml the presets
\* that were confirmed and are there.
StoredKept ==
  [][acked \cap acked' \cap Load(disk).presets \subseteq Load(disk').presets]_vars

\* The presets that clients wait to have saved, or deleted.
AskedFor(stages) == {cid[c] : c \in {d \in Client : cpc[d] \in stages}}

Abstract ==
  INSTANCE PresetStore WITH
    broken <- Harmed,
    stored <- Load(disk).presets,
    saves <- AskedFor({"push", "saving"}),
    deletes <- AskedFor({"deleting"})

\* Every edit takes effect at one instant, the rename, and is confirmed after it;
\* a kill at any other instant loses the edit as a whole and nothing besides.  A
\* failed file operation, or a write of the saver task that meets an edit, breaks
\* this until the daemon is started again, with what the file then has.
EditsAtomic == Abstract!Spec
=============================================================================
