------------------------- MODULE PersistenceProofs --------------------------
(***************************************************************************)
(* Preset ids stay fresh, for any clients and states and any bound on the  *)
(* ids, through concurrent edits and saves, failing file operations and    *)
(* restarts.  Sources adds to IdsFresh what every config that may reach    *)
(* the file carries, the temporary file included once a writer has         *)
(* truncated it.                                                           *)
(*                                                                         *)
(* Edits are atomic and durable until a file operation fails or the saver  *)
(* task's write meets an edit: the presets implement PresetStore.          *)
(***************************************************************************)
EXTENDS Persistence, WellFoundedInduction, NaturalsInduction, TLAPS

Fresh(x) == x \in Config => \A id \in x.presets : id < next_preset_id

Sources ==
  /\ \A id \in presets : id < next_preset_id
  /\ Fresh(save_chan) /\ Fresh(pending)
  /\ \A w \in Writer : Fresh(cfg[w])
  /\ Harmed \/ Fresh(disk)
  /\ Harmed \/ ((\E w \in Writer : wpc[w] \in {"write", "rename"}) => Fresh(tmp))
  /\ \A c \in Client : /\ cpc[c] \in {"push", "saving", "deleting"} => cid[c] \in Id
                       /\ cpc[c] = "push" => cid[c] < next_preset_id

IInv == TypeOK /\ Sources

-----------------------------------------------------------------------------
(***************************************************************************)
(* What a restart computes.                                                *)
(***************************************************************************)

\* A set of ids that is not empty has a largest one.
LEMMA MaxOfIds ==
  ASSUME NEW S \in SUBSET Id, S # {}
  PROVE  Max(S) \in S /\ \A id \in S : id <= Max(S)
<1> DEFINE R == {p \in Nat \X Nat : p[1] < p[2]}
           U == {n \in Nat : \A id \in S : id <= n}
<1>1. IsWellFoundedOn(R, Nat)
  BY NatLessThanWellFounded DEF OpToRel
<1>2. MaxId \in U
  BY PersistenceAssumption DEF Id
<1>3. PICK m \in U : \A n \in U : ~(<<n, m>> \in R)
  <2> HIDE DEF R
  <2>1. U \subseteq Nat /\ U # {}
    BY <1>2
  <2> HIDE DEF U
  <2>2. QED
    BY <1>1, <2>1, WFMin
<1>4. m \in S
  <2>1. m \in Nat /\ \A id \in S : id \in Nat /\ id >= 1 /\ id <= m
    BY PersistenceAssumption DEF Id
  <2>2. ASSUME m \notin S PROVE FALSE
    <3>1. m - 1 \in Nat /\ \A id \in S : id <= m - 1
      BY <2>1, <2>2
    <3>2. m - 1 \in U /\ <<m - 1, m>> \in R
      BY <2>1, <3>1
    <3>3. QED
      BY <1>3, <3>2
  <2>3. QED
    BY <2>2
<1>5. \A id \in S : m >= id
  BY PersistenceAssumption DEF Id
<1>6. QED
  BY <1>4, <1>5, PersistenceAssumption DEF Max, Id

\* Daemon::new gives out ids above those it has loaded.
LEMMA NextIdIsFresh ==
  ASSUME NEW S \in SUBSET Id
  PROVE  NextId(S) \in 1..MaxId + 1 /\ \A id \in S : id < NextId(S)
<1>1. CASE S = {}
  BY <1>1, PersistenceAssumption DEF NextId
<1>2. CASE S # {}
  <2>1. Max(S) \in Id /\ \A id \in S : id <= Max(S)
    BY <1>2, MaxOfIds
  <2>2. QED
    BY <1>2, <2>1, PersistenceAssumption DEF NextId, Id
<1>3. QED
  BY <1>1, <1>2

\* config::load returns a config, one of the file's if there is one in it.
LEMMA LoadIsConfig ==
  ASSUME TypeOK
  PROVE  /\ Load(disk) \in Config /\ Load(None) \in Config
         /\ Load(None).presets = {}
         /\ Load(disk).presets \subseteq Id /\ Load(disk).last_state \in State
BY PersistenceAssumption DEF TypeOK, Load, Config

\* Neither an empty nor a torn file is a config, nor is there one in no file.
LEMMA NoConfig ==
  Empty \notin Config /\ Torn \notin Config /\ None \notin Config
BY PersistenceAssumption DEF Empty, Torn, Config

\* What a write leaves in the file, whole or not, has no presets but those written.
LEMMA LeftInFile ==
  ASSUME NEW file, NEW c \in Config, NEW x \in Written(file, c) \cup Cut(file, c)
  PROVE  x \in {file, Torn} \/ (x \in Config /\ x.presets \subseteq c.presets)
BY PersistenceAssumption DEF Written, Cut, Config

\* The write and what it does to the two files.
LEMMA Writes ==
  ASSUME TypeOK, NEW w \in Writer, WriteAll(w)
  PROVE  /\ UNCHANGED <<memory, saving, handler, cfg, history, crossed>>
         /\ wpc[w] = "write" /\ wpc' = [wpc EXCEPT ![w] = "rename"]
         /\ fd' = [fd EXCEPT ![w] = "none"]
         /\ failed' \in {failed, TRUE}
         /\ fd[w] # "tmp" => UNCHANGED tmp
         /\ fd[w] # "disk" => UNCHANGED disk
         /\ fd[w] = "tmp" /\ ~failed' => tmp' \in Written(tmp, cfg[w])
         /\ tmp' \in {tmp, Torn} \/ (tmp' \in Config /\ tmp'.presets \subseteq cfg[w].presets)
         /\ disk' \in {disk, Torn} \/ (disk' \in Config /\ disk'.presets \subseteq cfg[w].presets)
<1> DEFINE Left(ok, file) == IF ok THEN Written(file, cfg[w]) ELSE Cut(file, cfg[w])
<1>1. cfg[w] \in Config /\ fd[w] \in {"none", "tmp", "disk"}
  BY DEF TypeOK
<1>2. PICK ok \in BOOLEAN :
        /\ CASE fd[w] = "tmp"  -> tmp' \in Left(ok, tmp) /\ UNCHANGED disk
             [] fd[w] = "disk" -> disk' \in Left(ok, disk) /\ UNCHANGED tmp
             [] OTHER          -> UNCHANGED files
        /\ IF ok THEN Done(w, "rename") ELSE Failed(w, "rename")
  BY DEF WriteAll
<1>3. \A file : Left(ok, file) \subseteq Written(file, cfg[w]) \cup Cut(file, cfg[w])
  OBVIOUS
<1>4. /\ UNCHANGED <<memory, saving, handler, cfg, history, crossed>>
      /\ wpc' = [wpc EXCEPT ![w] = "rename"] /\ failed' \in {failed, TRUE}
      /\ ~failed' => ok
  BY <1>2 DEF Done, Failed
<1>5. wpc[w] = "write" /\ fd' = [fd EXCEPT ![w] = "none"]
  BY DEF WriteAll
<1>6. fd[w] = "tmp" /\ ~failed' => tmp' \in Written(tmp, cfg[w])
  BY <1>2, <1>4
<1>7. /\ fd[w] # "tmp" => UNCHANGED tmp
      /\ fd[w] # "disk" => UNCHANGED disk
      /\ fd[w] = "tmp" => tmp' \in Left(ok, tmp)
      /\ fd[w] = "disk" => disk' \in Left(ok, disk)
  <2> HIDE DEF Left
  <2>1. QED
    BY <1>1, <1>2 DEF files
<1>8. /\ tmp' \in {tmp, Torn} \/ (tmp' \in Config /\ tmp'.presets \subseteq cfg[w].presets)
      /\ disk' \in {disk, Torn} \/ (disk' \in Config /\ disk'.presets \subseteq cfg[w].presets)
  <2> HIDE DEF Left
  <2>1. QED
    BY <1>1, <1>3, <1>7, LeftInFile
<1>9. QED
  BY <1>4, <1>5, <1>6, <1>7, <1>8

\* The rename, and what it does to the two files.
LEMMA Renames ==
  ASSUME TypeOK, NEW w \in Writer, Rename(w)
  PROVE  /\ UNCHANGED <<memory, saving, handler, cfg, history, crossed>>
         /\ wpc[w] = "rename" /\ wpc' = [wpc EXCEPT ![w] = "saved"]
         /\ fd' \in [Writer -> {"none", "tmp", "disk"}]
         /\ \A v \in Writer : fd[v] = "none" => fd'[v] = "none"
         /\ \/ /\ tmp # None /\ disk' = tmp /\ tmp' = None
               /\ UNCHANGED failed
            \/ /\ UNCHANGED <<tmp, disk, fd>>
               /\ failed' = TRUE
BY DEF Rename, Done, Failed, files, TypeOK

-----------------------------------------------------------------------------

\* Every step keeps the types.
LEMMA TypeStep ==
  ASSUME IInv, [Next]_vars
  PROVE  TypeOK'
<1> USE PersistenceAssumption DEF IInv, TypeOK, Client, Writer
<1>1. ASSUME NEW c \in Client, TakeId(c)
      PROVE  TypeOK'
  BY <1>1 DEF TakeId, saving, writing, files, Id, harm
<1>2. ASSUME NEW c \in Client, Push(c)
      PROVE  TypeOK'
  BY <1>2 DEF Push, saving, files, history, SavePresetsConfig, Config, Sources, harm
<1>3. ASSUME NEW c \in Client, NEW id \in Id, Delete(c, id)
      PROVE  TypeOK'
  BY <1>3 DEF Delete, saving, files, SavePresetsConfig, Config, harm
<1>4. ASSUME NEW c \in Client, Answer(c)
      PROVE  TypeOK'
  BY <1>4, LoadIsConfig DEF Answer, saving, files, Sources, harm
<1>5. ASSUME NEW c \in Client, NEW s \in State, SetCurrent(c, s)
      PROVE  TypeOK'
  BY <1>5 DEF SetCurrent, saving, writing, files, history, harm
<1>6. ASSUME NEW c \in Client, ClonePresets(c)
      PROVE  TypeOK'
  BY <1>6 DEF ClonePresets, memory, saving, files, history, Config, harm
<1>7. ASSUME NEW c \in Client, TrySend(c)
      PROVE  TypeOK'
  BY <1>7, LoadIsConfig DEF TrySend, memory, files, history, harm
<1>8. CASE SaverRecv
  BY <1>8 DEF SaverRecv, memory, handler, writing, files, history, harm
<1>9. CASE SaverTick
  BY <1>9 DEF SaverTick, memory, saving, handler, files, history, harm
<1>10. CASE SaverSaved
  BY <1>10, LoadIsConfig DEF SaverSaved, memory, handler, files, history, harm
<1>11. ASSUME NEW w \in Writer, Create(w)
      PROVE  TypeOK'
  BY <1>11 DEF Create, Done, Failed, memory, saving, handler, files, history
<1>12. ASSUME NEW w \in Writer, WriteAll(w)
      PROVE  TypeOK'
  <2>1. tmp' \in Config \cup {None, Empty, Torn} /\ disk' \in Config \cup {None, Empty, Torn}
    BY <1>12, Writes
  <2>2. QED
    BY <1>12, <2>1, Writes DEF memory, saving, handler, history
<1>13. ASSUME NEW w \in Writer, Rename(w)
      PROVE  TypeOK'
  BY <1>13, Renames DEF memory, saving, handler, history
<1>14. ASSUME NEW found \in {disk, None}, Restart(found)
      PROVE  TypeOK'
  <2>1. /\ Load(found) \in Config /\ Load(None) \in Config
        /\ Load(found).presets \in SUBSET Id /\ Load(found).last_state \in State
    BY <1>14, LoadIsConfig DEF Config
  <2>2. /\ presets' \subseteq Id /\ next_preset_id' \in 1..MaxId + 1 /\ current' \in State
    BY <1>14, <2>1, NextIdIsFresh DEF Restart
  <2>3. failed' \in BOOLEAN /\ crossed' \in BOOLEAN /\ acked' \subseteq Id /\ gone' \subseteq Id
    BY <1>14 DEF Restart, history
  <2>4. disk' \in Config \cup {None, Empty, Torn} /\ tmp' = tmp
    BY <1>14 DEF Restart
  <2>5. QED
    BY <1>14, <2>1, <2>2, <2>3, <2>4 DEF Restart
<1>15. CASE UNCHANGED vars
  BY <1>15 DEF vars, memory, saving, handler, writing, files, history, harm
<1>16. QED
  BY <1>1, <1>2, <1>3, <1>4, <1>5, <1>6, <1>7, <1>8, <1>9, <1>10, <1>11,
     <1>12, <1>13, <1>14, <1>15
  DEF Next, Edit, Save, Write

\* Every step keeps what may reach the file below the next id.
LEMMA SourcesStep ==
  ASSUME IInv, TypeOK', [Next]_vars
  PROVE  Sources'
<1> USE PersistenceAssumption, NoConfig, LoadIsConfig DEF IInv, TypeOK, Sources, Fresh,
   Client, Writer, Harmed
<1>1. ASSUME NEW c \in Client, TakeId(c)
      PROVE  Sources'
  <2>1. next_preset_id \in Nat /\ next_preset_id' = next_preset_id + 1
    BY <1>1 DEF TakeId, Id
  <2>2. \A x \in Config : \A id \in x.presets :
           id < next_preset_id => id < next_preset_id'
    BY <2>1 DEF Config, Id
  <2>3. UNCHANGED <<presets, disk, save_chan, pending, cfg, wpc, tmp, failed, crossed>>
    BY <1>1 DEF TakeId, saving, writing, files, harm
  <2>4. \A id \in presets' : id < next_preset_id'
    BY <2>1, <2>3 DEF Id
  <2>5. \A d \in Client : /\ cpc'[d] \in {"push", "saving", "deleting"} => cid'[d] \in Id
                          /\ cpc'[d] = "push" => cid'[d] < next_preset_id'
    BY <1>1, <2>1 DEF TakeId, Id
  <2>6. (Harmed \/ Fresh(disk))' /\ Fresh(save_chan)' /\ Fresh(pending)'
    BY <2>2, <2>3
  <2>7. \A w \in Writer : Fresh(cfg[w])'
    BY <2>2, <2>3
  <2>8. Harmed' \/ ((\E w \in Writer : wpc'[w] \in {"write", "rename"}) => Fresh(tmp)')
    BY <2>2, <2>3
  <2> HIDE DEF Fresh, Client, Writer, TypeOK, Harmed
  <2>9. QED
    BY <2>4, <2>5, <2>6, <2>7, <2>8
<1>2. ASSUME NEW c \in Client, Push(c)
      PROVE  Sources'
  BY <1>2 DEF Push, saving, files, history, SavePresetsConfig, Config, Id, harm
<1>3. ASSUME NEW c \in Client, NEW id \in Id, Delete(c, id)
      PROVE  Sources'
  BY <1>3 DEF Delete, saving, files, SavePresetsConfig, Config, Id, harm
<1>4. ASSUME NEW c \in Client, Answer(c)
      PROVE  Sources'
  BY <1>4 DEF Answer, saving, files, harm
<1>5. ASSUME NEW c \in Client, NEW s \in State, SetCurrent(c, s)
      PROVE  Sources'
  BY <1>5 DEF SetCurrent, saving, writing, files, history, harm
<1>6. ASSUME NEW c \in Client, ClonePresets(c)
      PROVE  Sources'
  BY <1>6 DEF ClonePresets, memory, saving, files, history, Config, Id, harm
<1>7. ASSUME NEW c \in Client, TrySend(c)
      PROVE  Sources'
  BY <1>7 DEF TrySend, memory, files, history, harm
<1>8. CASE SaverRecv
  BY <1>8 DEF SaverRecv, memory, handler, writing, files, history, harm
<1>9. CASE SaverTick
  BY <1>9 DEF SaverTick, memory, saving, handler, files, history, harm
<1>10. CASE SaverSaved
  BY <1>10 DEF SaverSaved, memory, handler, files, history, harm
<1>11. ASSUME NEW w \in Writer, Create(w)
      PROVE  Sources'
  BY <1>11 DEF Create, Done, Failed, memory, saving, handler, files, history
<1>12. ASSUME NEW w \in Writer, WriteAll(w)
      PROVE  Sources'
  <2>1. Fresh(cfg[w]) /\ cfg[w] \in Config
    OBVIOUS
  <2>2. /\ UNCHANGED <<presets, next_preset_id, save_chan, pending, cpc, cid, cfg, crossed>>
        /\ wpc[w] = "write"
        /\ ~failed' => ~failed
    BY <1>12, Writes DEF memory, saving, handler
  <2>3. \A x, y : /\ Fresh(x)
                 /\ \/ y \in {x, Torn}
                    \/ y \in Config /\ y.presets \subseteq cfg[w].presets
                 => Fresh(y)
    BY <2>1
  <2>4. Harmed' \/ (Fresh(disk) /\ Fresh(tmp))
    BY <2>2
  <2>5. Harmed' \/ (Fresh(disk') /\ Fresh(tmp'))
    <3> HIDE DEF Fresh, TypeOK
    <3>1. TypeOK
      BY DEF IInv
    <3>2. QED
      BY <1>12, <2>3, <2>4, <3>1, Writes
  <2>6. QED
    BY <2>2, <2>5
<1>13. ASSUME NEW w \in Writer, Rename(w)
      PROVE  Sources'
  <2>1. /\ UNCHANGED <<presets, next_preset_id, save_chan, pending, cpc, cid, cfg, crossed>>
        /\ wpc[w] = "rename" /\ wpc' = [wpc EXCEPT ![w] = "saved"]
        /\ \/ disk' = tmp /\ tmp' = None /\ UNCHANGED failed
           \/ failed' = TRUE
    BY <1>13, Renames DEF memory, saving, handler
  <2>2. QED
    BY <2>1
<1>14. ASSUME NEW found \in {disk, None}, Restart(found)
      PROVE  Sources'
  <2>1. Load(found).presets \in SUBSET Id
    BY <1>14
  <2>2. \A id \in presets' : id < next_preset_id'
    BY <1>14, <2>1, NextIdIsFresh DEF Restart
  <2>3. Harmed' \/ Fresh(disk)'
    <3>1. CASE found = disk
      BY <1>14, <2>2, <3>1 DEF Restart, Load
    <3>2. CASE found # disk
      BY <1>14, <3>2 DEF Restart
    <3>3. QED
      BY <3>1, <3>2
  <2>4. \A w \in Writer : Fresh(cfg[w])'
    BY <1>14 DEF Restart
  <2>5. QED
    BY <1>14, <2>2, <2>3, <2>4 DEF Restart
<1>15. CASE UNCHANGED vars
  BY <1>15 DEF vars, memory, saving, handler, writing, files, history, harm
<1>16. QED
  BY <1>1, <1>2, <1>3, <1>4, <1>5, <1>6, <1>7, <1>8, <1>9, <1>10, <1>11,
     <1>12, <1>13, <1>14, <1>15
  DEF Next, Edit, Save, Write

-----------------------------------------------------------------------------

\* A first start satisfies the invariant.
LEMMA InitIInv ==
  ASSUME Init
  PROVE  IInv
<1>1. Load(None) \in Config /\ Load(None).presets = {}
  BY PersistenceAssumption DEF Load, Config
<1>2. TypeOK
  <2>1. /\ failed \in BOOLEAN /\ crossed \in BOOLEAN
        /\ presets \subseteq Id /\ acked \subseteq Id /\ gone \subseteq Id
    BY DEF Init
  <2>2. QED
    BY <1>1, <2>1, PersistenceAssumption DEF Init, TypeOK, Client, Writer
<1>3. Sources
  BY <1>1, NoConfig DEF Init, Sources, Fresh, Client, Writer
<1>4. QED
  BY <1>2, <1>3 DEF IInv

\* The types and what may reach the file, through every interleaving of the
\* handlers, the saver task, the file operations and the restarts.
THEOREM Inductive == Spec => []IInv
<1>1. Init => IInv
  BY InitIInv
<1>2. IInv /\ [Next]_vars => IInv'
  BY TypeStep, SourcesStep DEF IInv
<1>3. QED
  BY <1>1, <1>2, PTL DEF Spec

\* TypeOK: every variable of Persistence keeps its type.
THEOREM TypeCorrect == Spec => []TypeOK
<1>1. IInv => TypeOK
  BY DEF IInv
<1>2. QED
  BY <1>1, Inductive, PTL

\* IdsFresh: no preset in memory, in config.toml, or in a config on its way
\* there has an id that Daemon::save_preset has yet to give out.
THEOREM IdsAlwaysFresh == Spec => []IdsFresh
<1>1. IInv => IdsFresh
  <2> SUFFICES ASSUME IInv
               PROVE  IdsFresh
    OBVIOUS
  <2>1. \A x \in InUse : Fresh(x)
    BY DEF IInv, Sources, InUse, Writer, Client
  <2>2. InUse \subseteq Config
    BY DEF IInv, TypeOK, InUse, Writer, Client
  <2>3. Harmed \/ \A id \in Load(disk).presets : id < next_preset_id
    BY DEF IInv, TypeOK, Sources, Fresh, Load
  <2>4. QED
    BY <2>1, <2>2, <2>3 DEF IInv, Sources, IdsFresh, Fresh
<1>2. QED
  BY <1>1, Inductive, PTL

-----------------------------------------------------------------------------
(***************************************************************************)
(* Edits are durable while nothing fails and the saver task meets no edit: *)
(* it then writes the presets that are there, and config::save is one      *)
(* writer's at a time, by the mutex of presets.  That both conditions are  *)
(* needed is what the runs MCLostEdit and MCLostPreset show.               *)
(***************************************************************************)

\* How far the save of the saver task has come.
SaverStage ==
  /\ fd[Saver] = IF wpc[Saver] = "write" THEN "tmp" ELSE "none"
  /\ wpc[Saver] # "idle" => holder = None /\ cfg[Saver].presets = presets
  /\ wpc[Saver] = "write" => tmp = Empty
  /\ wpc[Saver] = "rename" => tmp = cfg[Saver]

\* How far the save of the client that holds the mutex has come.
Stage(c) ==
  /\ wpc[c] # "idle"
  /\ fd[c] = IF wpc[c] = "write" THEN "tmp" ELSE "none"
  /\ wpc[c] = "write" => tmp = Empty
  /\ wpc[c] = "rename" => tmp = cfg[c]
  /\ wpc[c] = "saved" => disk = cfg[c]
  /\ IF cpc[c] = "saving" THEN cid[c] \in presets ELSE cid[c] \notin presets
  /\ wpc[c] # "saved" =>
       presets = IF cpc[c] = "saving" THEN Load(disk).presets \cup {cid[c]}
                                      ELSE Load(disk).presets \ {cid[c]}

Locked ==
  \A c \in Client :
    IF holder = c
      THEN cpc[c] \in {"saving", "deleting"} /\ cfg[c].presets = presets /\ Stage(c)
      ELSE cpc[c] \notin {"saving", "deleting"} /\ wpc[c] = "idle" /\ fd[c] = "none"

Unlocked == holder = None => presets = Load(disk).presets

Edits(c) == cpc[c] \in {"push", "saving", "deleting"}

\* An id that is being saved is new, one that is being deleted is not confirmed.
Editing ==
  \A c \in Client :
    /\ Edits(c) => cid[c] < next_preset_id
    /\ cpc[c] = "push" => /\ cid[c] \notin presets
                          /\ \A d \in Client : Edits(d) /\ d # c => cid[d] # cid[c]
    /\ cpc[c] \in {"push", "saving"} => cid[c] \notin gone
    /\ cpc[c] = "deleting" => cid[c] \notin acked

EInv == SaverStage /\ Locked /\ Unlocked /\ Editing /\ disk # Torn /\ Durable

\* A restart alone mends the harm.
Restarts == \E found \in {disk, None} : Restart(found)

LEMMA HarmStays ==
  ASSUME [Next]_vars, ~Restarts, Harmed
  PROVE  Harmed'
<1> USE DEF Harmed
<1>1. ASSUME NEW c \in Client, Edit(c) \/ Save(c)
      PROVE  Harmed'
  BY <1>1 DEF Edit, Save, TakeId, Push, Delete, SavePresetsConfig, Answer, SetCurrent,
     ClonePresets, TrySend, harm
<1>2. CASE SaverRecv \/ SaverTick \/ SaverSaved
  BY <1>2 DEF SaverRecv, SaverTick, SaverSaved, harm
<1>3. ASSUME NEW w \in Writer, Write(w)
      PROVE  Harmed'
  BY <1>3 DEF Write, Create, WriteAll, Rename, Done, Failed
<1>4. CASE UNCHANGED vars
  BY <1>4 DEF vars, harm
<1>5. QED
  BY <1>1, <1>2, <1>3, <1>4 DEF Next, Restarts

\* Every other step that does no harm keeps them.
LEMMA EditStep ==
  ASSUME IInv, IInv', EInv, ~Harmed, ~Harmed', [Next]_vars, ~Restarts
  PROVE  EInv'
<1> USE PersistenceAssumption, NoConfig DEF EInv, IInv, TypeOK, Client, Writer, Harmed
<1>1. ASSUME NEW c \in Client, TakeId(c)
      PROVE  EInv'
  <2>1. SaverStage'
    BY <1>1 DEF TakeId, saving, writing, files, SaverStage
  <2>2. Locked'
    BY <1>1 DEF TakeId, writing, files, Locked, Stage
  <2>3. Unlocked'
    BY <1>1 DEF TakeId, files, Unlocked
  <2>4. Editing'
    <3>1. /\ next_preset_id \in Nat /\ next_preset_id' = next_preset_id + 1
          /\ next_preset_id \notin presets
      BY <1>1 DEF TakeId, Sources
    <3>2. /\ UNCHANGED <<presets, acked>> /\ gone' = gone \ {next_preset_id}
          /\ cid' = [cid EXCEPT ![c] = next_preset_id] /\ cpc' = [cpc EXCEPT ![c] = "push"]
      BY <1>1 DEF TakeId
    <3>3. \A d \in Client : Edits(d) => cid[d] \in Nat /\ cid[d] < next_preset_id
      BY DEF Editing, Id
    <3>4. \A d \in Client : Edits(d) => cid[d] # next_preset_id /\ cid[d] < next_preset_id'
      BY <3>1, <3>3
    <3>5. QED
      BY <3>1, <3>2, <3>4 DEF Editing, Edits
  <2>5. disk' # Torn
    BY <1>1 DEF TakeId, files
  <2>6. Durable'
    BY <1>1 DEF TakeId, files, Durable
  <2>7. QED
    BY <2>1, <2>2, <2>3, <2>4, <2>5, <2>6
<1>2. ASSUME NEW c \in Client, Push(c)
      PROVE  EInv'
  <2>1. SaverStage'
    BY <1>2 DEF Push, SavePresetsConfig, saving, SaverStage
  <2>2. Locked'
    BY <1>2 DEF Push, SavePresetsConfig, files, Locked, Stage, Unlocked
  <2>3. Unlocked'
    BY <1>2 DEF Push, SavePresetsConfig, Unlocked
  <2>4. Editing'
    BY <1>2 DEF Push, SavePresetsConfig, history, Editing, Edits
  <2>5. disk' # Torn
    BY <1>2 DEF Push, files
  <2>6. Durable'
    BY <1>2 DEF Push, files, history, Durable
  <2>7. QED
    BY <2>1, <2>2, <2>3, <2>4, <2>5, <2>6
<1>3. ASSUME NEW c \in Client, NEW id \in Id, Delete(c, id)
      PROVE  EInv'
  <2>1. SaverStage'
    BY <1>3 DEF Delete, SavePresetsConfig, saving, SaverStage
  <2>2. Locked'
    BY <1>3 DEF Delete, SavePresetsConfig, files, Locked, Stage, Unlocked
  <2>3. Unlocked'
    BY <1>3 DEF Delete, SavePresetsConfig, Unlocked
  <2>4. Editing'
    BY <1>3 DEF Delete, SavePresetsConfig, Editing, Edits, Sources
  <2>5. disk' # Torn
    BY <1>3 DEF Delete, files
  <2>6. Durable'
    BY <1>3 DEF Delete, files, Durable
  <2>7. QED
    BY <2>1, <2>2, <2>3, <2>4, <2>5, <2>6
<1>4. ASSUME NEW c \in Client, Answer(c)
      PROVE  EInv'
  <2>1. SaverStage'
    BY <1>4 DEF Answer, SaverStage, Locked
  <2>2. Locked'
    BY <1>4 DEF Answer, Locked, Stage
  <2>3. Unlocked'
    <3>1. holder = c /\ Load(disk).presets = presets /\ UNCHANGED <<disk, presets>>
      BY <1>4 DEF Answer, files, Locked, Stage, Load
    <3>2. QED
      BY <3>1 DEF Unlocked
  <2>4. Editing'
    BY <1>4 DEF Answer, Editing, Edits, Locked
  <2>5. disk' # Torn
    BY <1>4 DEF Answer, files
  <2>6. Durable'
    <3>1. holder = c /\ Load(disk).presets = presets /\ UNCHANGED <<disk, presets>>
      BY <1>4 DEF Answer, files, Locked, Stage, Load
    <3>2. QED
      BY <1>4, <3>1 DEF Answer, Locked, Stage, Durable
  <2>7. QED
    BY <2>1, <2>2, <2>3, <2>4, <2>5, <2>6
<1>5. ASSUME NEW c \in Client, NEW s \in State, SetCurrent(c, s)
      PROVE  EInv'
  <2>1. SaverStage'
    BY <1>5 DEF SetCurrent, saving, writing, files, SaverStage
  <2>2. Locked'
    BY <1>5 DEF SetCurrent, writing, files, Locked, Stage
  <2>3. Unlocked'
    BY <1>5 DEF SetCurrent, files, Unlocked
  <2>4. Editing'
    BY <1>5 DEF SetCurrent, history, Editing, Edits
  <2>5. disk' # Torn
    BY <1>5 DEF SetCurrent, files
  <2>6. Durable'
    BY <1>5 DEF SetCurrent, files, history, Durable
  <2>7. QED
    BY <2>1, <2>2, <2>3, <2>4, <2>5, <2>6
<1>6. ASSUME NEW c \in Client, ClonePresets(c)
      PROVE  EInv'
  <2>1. SaverStage'
    BY <1>6 DEF ClonePresets, memory, saving, files, SaverStage
  <2>2. Locked'
    BY <1>6 DEF ClonePresets, memory, files, Locked, Stage
  <2>3. Unlocked'
    BY <1>6 DEF ClonePresets, memory, files, Unlocked
  <2>4. Editing'
    BY <1>6 DEF ClonePresets, memory, history, Editing, Edits
  <2>5. disk' # Torn
    BY <1>6 DEF ClonePresets, files
  <2>6. Durable'
    BY <1>6 DEF ClonePresets, files, history, Durable
  <2>7. QED
    BY <2>1, <2>2, <2>3, <2>4, <2>5, <2>6
<1>7. ASSUME NEW c \in Client, TrySend(c)
      PROVE  EInv'
  <2>1. SaverStage'
    BY <1>7 DEF TrySend, memory, files, SaverStage
  <2>2. Locked'
    BY <1>7 DEF TrySend, memory, files, Locked, Stage
  <2>3. Unlocked'
    BY <1>7 DEF TrySend, memory, files, Unlocked
  <2>4. Editing'
    BY <1>7 DEF TrySend, memory, history, Editing, Edits
  <2>5. disk' # Torn
    BY <1>7 DEF TrySend, files
  <2>6. Durable'
    BY <1>7 DEF TrySend, files, history, Durable
  <2>7. QED
    BY <2>1, <2>2, <2>3, <2>4, <2>5, <2>6
<1>8. CASE SaverRecv
  <2>1. SaverStage'
    BY <1>8 DEF SaverRecv, writing, SaverStage
  <2>2. Locked'
    BY <1>8 DEF SaverRecv, memory, handler, writing, files, Locked, Stage
  <2>3. Unlocked'
    BY <1>8 DEF SaverRecv, memory, files, Unlocked
  <2>4. Editing'
    BY <1>8 DEF SaverRecv, memory, handler, history, Editing, Edits
  <2>5. disk' # Torn
    BY <1>8 DEF SaverRecv, files
  <2>6. Durable'
    BY <1>8 DEF SaverRecv, files, history, Durable
  <2>7. QED
    BY <2>1, <2>2, <2>3, <2>4, <2>5, <2>6
<1>9. CASE SaverTick
  <2>1. SaverStage'
    BY <1>9 DEF SaverTick, memory, saving, SaverStage
  <2>2. Locked'
    BY <1>9 DEF SaverTick, memory, handler, files, Locked, Stage
  <2>3. Unlocked'
    BY <1>9 DEF SaverTick, memory, files, Unlocked
  <2>4. Editing'
    BY <1>9 DEF SaverTick, memory, handler, history, Editing, Edits
  <2>5. disk' # Torn
    BY <1>9 DEF SaverTick, files
  <2>6. Durable'
    BY <1>9 DEF SaverTick, files, history, Durable
  <2>7. QED
    BY <2>1, <2>2, <2>3, <2>4, <2>5, <2>6
<1>10. CASE SaverSaved
  <2>1. SaverStage'
    BY <1>10 DEF SaverSaved, SaverStage
  <2>2. Locked'
    BY <1>10 DEF SaverSaved, memory, handler, Locked, SaverStage
  <2>3. Unlocked'
    BY <1>10 DEF SaverSaved, memory, files, Unlocked
  <2>4. Editing'
    BY <1>10 DEF SaverSaved, memory, handler, history, Editing, Edits
  <2>5. disk' # Torn
    BY <1>10 DEF SaverSaved, files
  <2>6. Durable'
    BY <1>10 DEF SaverSaved, files, history, Durable
  <2>7. QED
    BY <2>1, <2>2, <2>3, <2>4, <2>5, <2>6
<1>11. ASSUME NEW w \in Writer, Create(w)
      PROVE  EInv'
  <2>1. SaverStage'
    BY <1>11 DEF Create, Done, Failed, files, memory, saving, SaverStage, Locked
  <2>2. Locked'
    BY <1>11 DEF Create, Done, Failed, files, memory, handler, Locked, Stage, SaverStage
  <2>3. Unlocked'
    BY <1>11 DEF Create, Done, Failed, files, memory, Unlocked
  <2>4. Editing'
    BY <1>11 DEF Create, Done, Failed, files, memory, handler, history, Editing, Edits
  <2>5. disk' # Torn
    BY <1>11 DEF Create, Done, Failed, files
  <2>6. Durable'
    BY <1>11 DEF Create, Done, Failed, files, history, Durable
  <2>7. QED
    BY <2>1, <2>2, <2>3, <2>4, <2>5, <2>6
<1>12. ASSUME NEW w \in Writer, WriteAll(w)
      PROVE  EInv'
  <2>1. SaverStage'
    BY <1>12 DEF WriteAll, Done, Failed, files, Cut, memory, saving, Written, SaverStage, Locked
  <2>2. Locked'
    BY <1>12 DEF WriteAll, Done, Failed, files, Cut, memory, handler, Written, Locked, Stage,
       SaverStage
  <2>3. Unlocked'
    BY <1>12 DEF WriteAll, Done, Failed, files, Cut, memory, Unlocked, Locked, SaverStage
  <2>4. Editing'
    BY <1>12 DEF WriteAll, Done, Failed, files, Cut, memory, handler, history, Editing, Edits
  <2>5. disk' # Torn
    BY <1>12 DEF WriteAll, Done, Failed, files, Cut, Locked, Stage, SaverStage
  <2>6. Durable'
    BY <1>12 DEF WriteAll, Done, Failed, files, Cut, history, Durable, Locked, Stage, SaverStage
  <2>7. QED
    BY <2>1, <2>2, <2>3, <2>4, <2>5, <2>6
<1>13. ASSUME NEW w \in Writer, Rename(w)
      PROVE  EInv'
  <2>0. /\ Load(disk)'.presets = presets
        /\ UNCHANGED <<presets, holder, acked, gone, cpc, cid>>
    BY <1>13 DEF Rename, Done, Failed, files, memory, handler, history, Load, Locked, Stage,
       SaverStage
  <2>1. SaverStage'
    BY <1>13 DEF Rename, Done, Failed, files, memory, saving, SaverStage, Locked
  <2>2. Locked'
    BY <1>13 DEF Rename, Done, Failed, files, memory, handler, Locked, Stage, SaverStage
  <2>3. Unlocked'
    BY <2>0 DEF Unlocked
  <2>4. Editing'
    BY <1>13 DEF Rename, Done, Failed, files, memory, handler, history, Editing, Edits
  <2>5. disk' # Torn
    BY <1>13 DEF Rename, Done, Failed, files, Locked, Stage, SaverStage
  <2>6. Durable'
    <3>1. CASE w = Saver
      <4>1. holder = None
        BY <1>13, <3>1 DEF Rename, Done, Failed, files, SaverStage
      <4>2. QED
        BY <2>0, <4>1 DEF Unlocked, Durable
    <3>2. CASE w # Saver
      <4>1. w \in Client /\ holder = w /\ cpc[w] \in {"saving", "deleting"}
        BY <1>13, <3>2 DEF Rename, Done, Failed, files, Locked
      <4>2. presets = IF cpc[w] = "saving" THEN Load(disk).presets \cup {cid[w]}
                                           ELSE Load(disk).presets \ {cid[w]}
        BY <1>13, <4>1 DEF Rename, Done, Failed, files, Locked, Stage
      <4>3. QED
        BY <2>0, <4>1, <4>2 DEF Editing, Durable
    <3>3. QED
      BY <3>1, <3>2
  <2>7. QED
    BY <2>1, <2>2, <2>3, <2>4, <2>5, <2>6
<1>14. CASE UNCHANGED vars
  <2>1. SaverStage'
    BY <1>14 DEF vars, memory, saving, writing, files, SaverStage
  <2>2. Locked'
    BY <1>14 DEF vars, memory, handler, writing, files, Locked, Stage
  <2>3. Unlocked'
    BY <1>14 DEF vars, memory, files, Unlocked
  <2>4. Editing'
    BY <1>14 DEF vars, memory, handler, history, Editing, Edits
  <2>5. disk' # Torn
    BY <1>14 DEF vars, files
  <2>6. Durable'
    BY <1>14 DEF vars, files, history, Durable
  <2>7. QED
    BY <2>1, <2>2, <2>3, <2>4, <2>5, <2>6
<1>15. QED
  BY <1>1, <1>2, <1>3, <1>4, <1>5, <1>6, <1>7, <1>8, <1>9, <1>10, <1>11, <1>12, <1>13,
     <1>14 DEF Next, Edit, Save, Write, Restarts

\* A restart that reads the file establishes them, whatever has come before.
LEMMA RestartStep ==
  ASSUME IInv, Harmed \/ EInv, ~Harmed', Restarts
  PROVE  EInv'
<1> USE PersistenceAssumption, NoConfig DEF IInv, TypeOK, Client, Writer
<1>1. Restart(disk) /\ UNCHANGED tmp
  BY DEF Restarts, Restart, Harmed
<1>2. Load(disk)' = Load(disk) /\ presets' = Load(disk).presets /\ disk' # Torn
  BY <1>1 DEF Restart, Load, Torn, Empty
<1>3. SaverStage' /\ Locked' /\ Unlocked' /\ Editing'
  BY <1>1, <1>2 DEF Restart, SaverStage, Locked, Unlocked, Editing, Edits
<1>4. Durable'
  BY <1>1, <1>2 DEF Restart, EInv, Durable, history
<1>5. QED
  BY <1>2, <1>3, <1>4 DEF EInv

\* Until there is harm: what the edits find in the file and in the memory.
LEMMA EditsInductive == Spec => [](Harmed \/ EInv)
<1>1. Init => EInv
  BY PersistenceAssumption DEF Init, EInv, SaverStage, Locked, Unlocked, Editing,
     Edits, Durable, Load, Client, Writer, Torn
<1>2. IInv /\ IInv' /\ (Harmed \/ EInv) /\ [Next]_vars => (Harmed \/ EInv)'
  BY EditStep, RestartStep, HarmStays
<1>3. QED
  BY <1>1, <1>2, Inductive, PTL DEF Spec

\* config.toml parses, a kill between any two system calls of config::save
\* included, until a file operation fails or the saver task's write meets an edit.
FileParses == Harmed \/ disk # Torn

\* FileParses: load finds no file that it cannot parse, through every interleaving
\* of editors, setters, the saver task and the kills.
THEOREM FileKeepsParsing == Spec => []FileParses
<1>1. Harmed \/ EInv => FileParses
  BY DEF EInv, FileParses
<1>2. QED
  BY <1>1, EditsInductive, PTL

\* EditsDurable: for any number of clients and through any kills, a restart finds
\* every preset saved and none deleted, as the clients were told, until a file
\* operation fails or the saver task's write meets an edit, and again from the
\* restart on that follows.
THEOREM EditsStayDurable == Spec => []EditsDurable
<1>1. Harmed \/ EInv => EditsDurable
  BY DEF EInv, EditsDurable
<1>2. QED
  BY <1>1, EditsInductive, PTL

-----------------------------------------------------------------------------
(***************************************************************************)
(* The presets implement PresetStore.                                      *)
(***************************************************************************)

Saves   == AskedFor({"push", "saving"})
Deletes == AskedFor({"deleting"})

\* A step of a client that keeps its id, and asks for the same, asks for nothing new.
LEMMA SameAsked ==
  ASSUME NEW stages, UNCHANGED cid,
         \A c \in Client : cpc'[c] \in stages <=> cpc[c] \in stages
  PROVE  UNCHANGED AskedFor(stages)
BY DEF AskedFor

\* A step that does no harm, other than a restart, is an edit or no step of
\* PresetStore.
LEMMA SoundStep ==
  ASSUME IInv, EInv, ~Harmed, ~Harmed', [Next]_vars, ~Restarts
  PROVE  [Abstract!Next]_(Abstract!vars)
<1> DEFINE stored == Load(disk).presets
<1> USE PersistenceAssumption, NoConfig DEF IInv, TypeOK, EInv, Client, Writer
<1>0. ASSUME UNCHANGED <<stored, Saves, Deletes, acked, gone>>
      PROVE  UNCHANGED Abstract!vars
  <2>1. UNCHANGED Harmed
    <3>1. failed = FALSE /\ crossed = FALSE /\ failed' = FALSE /\ crossed' = FALSE
      BY DEF Harmed
    <3>2. QED
      BY <3>1 DEF Harmed
  <2>2. QED
    BY <1>0, <2>1 DEF Abstract!vars, Saves, Deletes
<1>1. ASSUME NEW c \in Client, TakeId(c)
      PROVE  Abstract!Next
  <2> DEFINE id == next_preset_id
  <2>1. id \in Id /\ UNCHANGED <<disk, acked>> /\ gone' = gone \ {id}
    BY <1>1 DEF TakeId, files
  <2>2. id \notin stored
    BY <2>1 DEF Sources, Fresh, Load, Id, Config
  <2>3. id \notin Saves \cup Deletes
    <3>1. \A d \in Client : Edits(d) => cid[d] < id /\ cid[d] \in Nat
      BY DEF Editing, Edits, Id
    <3>2. QED
      BY <3>1, <2>1 DEF Saves, Deletes, AskedFor, Edits, Id
  <2>4. Saves' = Saves \cup {id} /\ Deletes' = Deletes
    BY <1>1 DEF TakeId, Saves, Deletes, AskedFor
  <2>5. Abstract!AskSave(id)
    BY <2>1, <2>2, <2>3, <2>4 DEF Abstract!AskSave, Saves, Deletes
  <2>6. QED
    BY <2>1, <2>5 DEF Abstract!Next, Abstract!Edit
<1>2. ASSUME NEW c \in Client, Push(c)
      PROVE  UNCHANGED Abstract!vars
  <2>1. /\ UNCHANGED <<cid, disk, acked, gone>>
        /\ cpc[c] = "push" /\ cpc' = [cpc EXCEPT ![c] = "saving"]
    BY <1>2 DEF Push, files, history
  <2>2. UNCHANGED <<Saves, Deletes>>
    BY <2>1, SameAsked DEF Saves, Deletes
  <2>3. QED
    BY <1>0, <2>1, <2>2
<1>3. ASSUME NEW c \in Client, NEW id \in Id, Delete(c, id)
      PROVE  Abstract!Next
  <2>1. /\ holder = None /\ cpc[c] = "idle" /\ id \in presets
        /\ cid' = [cid EXCEPT ![c] = id] /\ cpc' = [cpc EXCEPT ![c] = "deleting"]
        /\ UNCHANGED <<disk, gone>> /\ acked' = acked \ {id}
    BY <1>3 DEF Delete, SavePresetsConfig, files
  <2>2. id \in stored
    BY <2>1 DEF Unlocked
  <2>3. \A d \in Client : cpc[d] \notin {"saving", "deleting"}
    BY <2>1 DEF Locked
  <2>4. id \notin Saves \cup Deletes
    BY <2>1, <2>3 DEF Editing, Saves, Deletes, AskedFor
  <2>5. Saves' = Saves /\ Deletes' = Deletes \cup {id}
    BY <2>1 DEF Saves, Deletes, AskedFor
  <2>6. Abstract!AskDelete(id)
    BY <2>1, <2>2, <2>4, <2>5 DEF Abstract!AskDelete, Saves, Deletes
  <2>7. QED
    BY <2>6 DEF Abstract!Next, Abstract!Edit
<1>4. ASSUME NEW c \in Client, Answer(c)
      PROVE  Abstract!Next
  <2> DEFINE id == cid[c]
  <2>1. /\ holder = c /\ stored = presets /\ UNCHANGED disk
        /\ cid' = [cid EXCEPT ![c] = 0] /\ cpc' = [cpc EXCEPT ![c] = "idle"]
        /\ cpc[c] \in {"saving", "deleting"} /\ id \in Id
    BY <1>4 DEF Answer, files, Locked, Stage, Load, Sources
  <2>2. \A d \in Client : d # c =>
          /\ cpc[d] \notin {"saving", "deleting"}
          /\ cpc[d] = "push" => cid[d] # id
    BY <2>1 DEF Locked, Editing, Edits
  <2>3. CASE cpc[c] = "saving"
    <3>1. id \in Saves /\ Saves' = Saves \ {id} /\ Deletes' = Deletes
      BY <2>1, <2>2, <2>3 DEF Saves, Deletes, AskedFor
    <3>2. id \in stored /\ acked' = acked \cup {id} /\ gone' = gone
      BY <1>4, <2>1, <2>3 DEF Answer, Locked, Stage
    <3>3. Abstract!ConfirmSave(id)
      BY <2>1, <3>1, <3>2 DEF Abstract!ConfirmSave, Saves, Deletes
    <3>4. QED
      BY <2>1, <3>3 DEF Abstract!Next, Abstract!Edit
  <2>4. CASE cpc[c] = "deleting"
    <3>1. id \in Deletes /\ Deletes' = Deletes \ {id} /\ Saves' = Saves
      BY <2>1, <2>2, <2>4 DEF Saves, Deletes, AskedFor
    <3>2. id \notin stored /\ gone' = gone \cup {id} /\ acked' = acked
      BY <1>4, <2>1, <2>4 DEF Answer, Locked, Stage
    <3>3. Abstract!ConfirmDelete(id)
      BY <2>1, <3>1, <3>2 DEF Abstract!ConfirmDelete, Saves, Deletes
    <3>4. QED
      BY <2>1, <3>3 DEF Abstract!Next, Abstract!Edit
  <2>5. QED
    BY <2>1, <2>3, <2>4
<1>5. ASSUME NEW w \in Writer, Create(w) \/ WriteAll(w)
      PROVE  UNCHANGED Abstract!vars
  <2>1. UNCHANGED <<cid, cpc, disk, acked, gone>>
    BY <1>5 DEF Create, WriteAll, Done, Failed, handler, history, files, Locked, Stage, SaverStage
  <2>2. UNCHANGED <<Saves, Deletes>>
    BY <2>1 DEF Saves, Deletes, AskedFor
  <2>3. QED
    BY <1>0, <2>1, <2>2
<1>6. ASSUME NEW w \in Client, Rename(w)
      PROVE  Abstract!Next
  <2>1. holder = w /\ tmp = cfg[w] /\ tmp # None
    BY <1>6 DEF Rename, Done, Failed, files, Locked, Stage, SaverStage
  <2>2. /\ stored' = presets /\ UNCHANGED <<cid, cpc, acked, gone>>
        /\ cpc[w] \in {"saving", "deleting"} /\ cid[w] \in Id
    <3>1. disk' = tmp
      BY <1>6, Renames DEF Harmed
    <3>2. Load(disk)' = cfg[w] /\ cfg[w].presets = presets
      BY <2>1, <3>1 DEF Load, Locked
    <3>3. UNCHANGED <<presets, cid, cpc, acked, gone>>
      BY <1>6, Renames DEF memory, handler, history
    <3>4. QED
      BY <2>1, <3>2, <3>3 DEF Locked, Sources
  <2>3. stored' = IF cpc[w] = "saving" THEN stored \cup {cid[w]} ELSE stored \ {cid[w]}
    BY <1>6, <2>1, <2>2 DEF Rename, Done, Failed, files, Locked, Stage
  <2>4. UNCHANGED <<Saves, Deletes>>
    BY <2>2 DEF Saves, Deletes, AskedFor
  <2>5. CASE cpc[w] = "saving"
    <3>1. cid[w] \in Saves
      BY <2>1, <2>5 DEF Saves, AskedFor
    <3>2. Abstract!Save(cid[w])
      BY <2>2, <2>3, <2>4, <2>5, <3>1 DEF Abstract!Save, Saves, Deletes
    <3>3. QED
      BY <2>2, <3>2 DEF Abstract!Next, Abstract!Edit
  <2>6. CASE cpc[w] = "deleting"
    <3>1. cid[w] \in Deletes
      BY <2>1, <2>6 DEF Deletes, AskedFor
    <3>2. Abstract!Delete(cid[w])
      BY <2>2, <2>3, <2>4, <2>6, <3>1 DEF Abstract!Delete, Saves, Deletes
    <3>3. QED
      BY <2>2, <3>2 DEF Abstract!Next, Abstract!Edit
  <2>7. QED
    BY <2>2, <2>5, <2>6
<1>7. CASE Rename(Saver)
  <2>1. tmp = cfg[Saver] /\ holder = None /\ cfg[Saver].presets = presets
    BY <1>7 DEF Rename, Done, Failed, files, SaverStage
  <2>2. stored' = presets /\ UNCHANGED <<cid, cpc, acked, gone>>
    <3>1. disk' = tmp
      BY <1>7, Renames DEF Harmed
    <3>2. Load(disk)' = cfg[Saver]
      BY <2>1, <3>1 DEF Load
    <3>3. UNCHANGED <<cid, cpc, acked, gone>>
      BY <1>7, Renames DEF handler, history
    <3>4. QED
      BY <2>1, <3>2, <3>3
  <2>3. stored = presets
    BY <2>1 DEF Unlocked
  <2>4. UNCHANGED <<Saves, Deletes>>
    BY <2>2 DEF Saves, Deletes, AskedFor
  <2>5. QED
    BY <1>0, <2>2, <2>3, <2>4
<1>8. ASSUME NEW c \in Client, Save(c)
      PROVE  UNCHANGED Abstract!vars
  <2>1. UNCHANGED <<cid, disk, acked, gone>>
    BY <1>8 DEF Save, SetCurrent, ClonePresets, TrySend, history, files
  <2>2. \A d \in Client :
          cpc'[d] # cpc[d] => {cpc'[d], cpc[d]} \subseteq {"idle", "apply", "send"}
    BY <1>8 DEF Save, SetCurrent, ClonePresets, TrySend
  <2>3. UNCHANGED <<Saves, Deletes>>
    BY <2>1, <2>2, SameAsked DEF Saves, Deletes
  <2>4. QED
    BY <1>0, <2>1, <2>3
<1>9. CASE SaverRecv \/ SaverTick \/ SaverSaved \/ UNCHANGED vars
  <2>1. UNCHANGED <<cid, cpc, disk, acked, gone>>
    BY <1>9 DEF SaverRecv, SaverTick, SaverSaved, vars, handler, history, files
  <2>2. UNCHANGED <<Saves, Deletes>>
    BY <2>1 DEF Saves, Deletes, AskedFor
  <2>3. QED
    BY <1>0, <2>1, <2>2
<1>10. QED
  BY <1>1, <1>2, <1>3, <1>4, <1>5, <1>6, <1>7, <1>8, <1>9 DEF Next, Edit, Write, Restarts

\* Every step is an edit, a crash, a recovery, or no step of PresetStore.
LEMMA AbstractStep ==
  ASSUME IInv, IInv', Harmed \/ EInv, [Next]_vars
  PROVE  [Abstract!Next]_(Abstract!vars)
<1> USE DEF Abstract!Next
<1>1. CASE Harmed'
  BY <1>1
<1>2. CASE ~Harmed' /\ Restarts
  <2>1. Restart(disk)
    BY <1>2 DEF Restarts, Restart, Harmed
  <2>2. Load(disk)'.presets = Load(disk).presets /\ presets' = Load(disk).presets
    BY <2>1 DEF Restart, Load, Torn, Empty
  <2>3. Saves' = {} /\ Deletes' = {}
    BY <2>1 DEF Restart, Saves, Deletes, AskedFor
  <2>4. CASE Harmed
    BY <1>2, <2>1, <2>2, <2>3, <2>4 DEF Restart, Abstract!Recover, Saves, Deletes
  <2>5. CASE ~Harmed
    BY <1>2, <2>1, <2>2, <2>3, <2>5 DEF Restart, Abstract!Crash, Saves, Deletes, history
  <2>6. QED
    BY <2>4, <2>5
<1>3. CASE ~Harmed' /\ ~Restarts
  BY <1>3, HarmStays, SoundStep
<1>4. QED
  BY <1>1, <1>2, <1>3

\* EditsAtomic: every save_preset and delete_preset, of any number of clients,
\* takes effect in config.toml at one instant and is confirmed after it, and a kill
\* loses an edit as a whole, or nothing; from a failed file operation, or a write of
\* the saver task that meets an edit, until the restart that follows there is no
\* such promise.
THEOREM EditsAreAtomic == Spec => EditsAtomic
<1>1. Init => Abstract!Init
  BY PersistenceAssumption DEF Init, Abstract!Init, Harmed, Load, AskedFor
<1>2. IInv /\ IInv' /\ (Harmed \/ EInv) /\ [Next]_vars => [Abstract!Next]_(Abstract!vars)
  BY AbstractStep
<1>3. QED
  BY <1>1, <1>2, Inductive, EditsInductive, PTL DEF Spec, EditsAtomic, Abstract!Spec

\* WrittenEditsDurable: where no client changes the light, the saver task has
\* nothing to write and only a failed file operation can lose a confirmed edit, of
\* any number of editors and through any kills.
THEOREM EditorsAlone ==
  ASSUME Setter = {}
  PROVE  Spec => []WrittenEditsDurable
<1> DEFINE Unsent == /\ save_chan = None /\ pending = None /\ ~crossed
                     /\ wpc[Saver] = "idle"
                     /\ \A c \in Client : cpc[c] \notin {"apply", "send"}
<1>1. Init => Unsent
  BY DEF Init, Client, Writer
<1>2. IInv /\ Unsent /\ [Next]_vars => Unsent'
  <2> SUFFICES ASSUME IInv, Unsent, [Next]_vars
               PROVE  Unsent'
    OBVIOUS
  <2> USE PersistenceAssumption DEF IInv, Client, Writer
  <2>1. ASSUME NEW c \in Client, Edit(c)
        PROVE  Unsent'
    BY <2>1 DEF Edit, TakeId, Push, Delete, SavePresetsConfig, Answer, saving, writing,
       harm, TypeOK
  <2>2. ASSUME NEW w \in Writer, Write(w)
        PROVE  Unsent'
    BY <2>2 DEF Write, Create, WriteAll, Rename, Done, Failed, saving, handler, TypeOK
  <2>3. CASE Restarts
    BY <2>3 DEF Restarts, Restart
  <2>4. ~SaverRecv /\ ~SaverTick /\ ~SaverSaved /\ \A c \in Client : ~Save(c)
    BY DEF SaverRecv, SaverTick, SaverSaved, Save, SetCurrent, ClonePresets, TrySend
  <2>5. CASE UNCHANGED vars
    BY <2>5 DEF vars, saving, handler, writing, harm
  <2>6. QED
    BY <2>1, <2>2, <2>3, <2>4, <2>5 DEF Next, Restarts
<1>3. Unsent /\ (Harmed \/ EInv) => WrittenEditsDurable
  BY DEF Harmed, EInv, WrittenEditsDurable
<1>4. QED
  BY <1>1, <1>2, <1>3, Inductive, EditsInductive, PTL DEF Spec
=============================================================================
