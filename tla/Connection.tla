----------------------------- MODULE Connection -----------------------------
(***************************************************************************)
(* The connection state machine of crates/core/src/connection.rs: the task *)
(* Fsm::run, the handles that feed it through a bounded channel, and the   *)
(* LED strip at the far end of the Bluetooth link.                         *)
(*                                                                         *)
(* An action is what Fsm::run does between two of its awaits, so a handle  *)
(* may queue a command, and the link may drop, between any two of them.    *)
(* The strip, the link and the adapter are external: they are modelled     *)
(* from the calls the code makes on them.  A write that fails or times out *)
(* may have reached the strip all the same, and while no link is open the  *)
(* strip may be power-cycled, so nothing is known of its light then.       *)
(***************************************************************************)
EXTENDS Naturals, Sequences

CONSTANTS
  Level,         \* brightness values; 0 is dark
  Color,         \* colours, an r-g-b triple each
  NoColor,       \* the colour of DeviceState::default(), (0, 0, 0)
  QueueCap,      \* capacity of the command channel: 8
  ScanRounds,    \* polls of one scan, SCAN_TIMEOUT_SECS / 2: 30
  GattAttempts   \* connect attempts of establish_gatt: 4

ASSUME ConnectionAssumption ==
  /\ Level \subseteq Nat /\ 0 \in Level
  /\ NoColor \in Color
  /\ QueueCap \in Nat \ {0}
  /\ ScanRounds \in Nat \ {0}
  /\ GattAttempts \in Nat \ {0}

VARIABLES
  conn,         \* the ConnState published on the watch channel
  cmds,         \* the command channel, oldest first
  open,         \* some Connection handle, hence a sender, is alive
  last_state,   \* the state the task believes the strip shows
  peripheral,   \* Fsm::peripheral is Some
  write_char,   \* Fsm::write_char and Fsm::write_type are Some
  pc,           \* where Fsm::run is suspended
  rounds,       \* polls of this scan, or connect attempts, made so far
  job,          \* the state write_delta or replay_state is writing
  todo,         \* the fields of job it has still to write
  linked,       \* external: the Bluetooth link to the strip is up
  strip,        \* external: what the strip shows
  doubt         \* history: fields not known to show what last_state records

fsm  == <<conn, last_state, peripheral, write_char, pc, rounds, job, todo>>
light == <<linked, strip>>
vars == <<fsm, light, cmds, open, doubt>>

Field == {"power", "brightness", "color"}

DeviceState == [power : BOOLEAN, brightness : Level, color : Color]

DefaultState == [power |-> FALSE, brightness |-> 0, color |-> NoColor]

Apply(s) == [op |-> "apply", state |-> s]
Stop     == [op |-> "stop"]
Cmd      == [op : {"apply"}, state : DeviceState] \cup [op : {"stop"}]

-----------------------------------------------------------------------------
(***************************************************************************)
(* What is written, and in which order.                                    *)
(***************************************************************************)

Differ(s, t) == {f \in Field : s[f] # t[f]}

\* write_delta: switching off is the only write, whatever else differs.
Delta(old, new) ==
  IF old.power /\ ~new.power THEN {"power"} ELSE Differ(old, new)

\* Mutant: only what differs from DeviceState::default() is replayed.
ReplayDelta(s) == IF s.power /\ s.brightness > 0 THEN Differ(DefaultState, s) ELSE {}

\* replay_state: nothing at all for a state that shows no light.
Replay(s) == IF s.power /\ s.brightness > 0 THEN Field ELSE {}

Order == [power |-> 1, brightness |-> 2, color |-> 3]

\* f is the field written next: power, then brightness, then colour.
IsNext(f) == f \in todo /\ \A g \in todo : Order[f] <= Order[g]

\* A write of f reaches the strip.
Landed(f) == [strip EXCEPT ![f] = job[f]]

-----------------------------------------------------------------------------
(***************************************************************************)
(* The handles.                                                            *)
(***************************************************************************)

\* Mutant: off by one.
OfferPastCapacity(c) ==
  cmds' = IF Len(cmds) <= QueueCap /\ pc # "stopped" THEN Append(cmds, c) ELSE cmds

\* try_send: a full channel, or one nobody reads any more, drops the command.
Offer(c) ==
  cmds' = IF Len(cmds) < QueueCap /\ pc # "stopped" THEN Append(cmds, c) ELSE cmds

Set(s) ==
  /\ open
  /\ Offer(Apply(s))
  /\ UNCHANGED <<fsm, light, open, doubt>>

Shutdown ==
  /\ open
  /\ Offer(Stop)
  /\ UNCHANGED <<fsm, light, open, doubt>>

DropHandles ==
  /\ open
  /\ open' = FALSE
  /\ UNCHANGED <<fsm, light, cmds, doubt>>

-----------------------------------------------------------------------------
(***************************************************************************)
(* The strip and the radio, external to the program.                       *)
(***************************************************************************)

LinkLost ==
  /\ linked
  /\ linked' = FALSE
  /\ UNCHANGED <<fsm, strip, cmds, open, doubt>>

PowerCycled ==
  /\ ~linked
  /\ strip' \in DeviceState
  /\ UNCHANGED <<fsm, linked, cmds, open, doubt>>

-----------------------------------------------------------------------------
(***************************************************************************)
(* Fsm::run.  pc = "loop" is the head of the loop, where the branch taken  *)
(* depends on conn alone.                                                  *)
(***************************************************************************)

At(state) == pc = "loop" /\ conn = state

\* The state machine gives up what it was doing and waits for a command.
ToIdle == conn' = "Idle" /\ pc' = "loop"

\* The job is over, whatever became of it.
JobOver == job' = DefaultState /\ todo' = {}

\* Mutant: the handles dropped are not noticed.
EndedByStopOnly == cmds # <<>> /\ Head(cmds).op = "stop"

\* recv() returns None, or the command received is Stop.
Ended == (cmds # <<>> /\ Head(cmds).op = "stop") \/ (cmds = <<>> /\ ~open)

TakeEnd == cmds' = IF cmds = <<>> THEN cmds ELSE Tail(cmds)

\* Mutant: the command that wakes the task up is not kept for the replay.
IdleApplyForgets ==
  /\ At("Idle")
  /\ cmds # <<>> /\ Head(cmds).op = "apply"
  /\ cmds' = Tail(cmds)
  /\ conn' = "Scanning"
  /\ UNCHANGED <<last_state, peripheral, write_char, pc, rounds, job, todo,
                 light, open, doubt>>

IdleApply ==
  /\ At("Idle")
  /\ cmds # <<>> /\ Head(cmds).op = "apply"
  /\ cmds' = Tail(cmds)
  /\ last_state' = Head(cmds).state
  /\ conn' = "Scanning"
  /\ UNCHANGED <<peripheral, write_char, pc, rounds, job, todo,
                 light, open, doubt>>

IdleEnd ==
  /\ At("Idle")
  /\ Ended
  /\ TakeEnd
  /\ pc' = "stopped"
  /\ UNCHANGED <<conn, last_state, peripheral, write_char, rounds, job, todo,
                 light, open, doubt>>

\* start_scan succeeds.  When it fails with a transient error the task sleeps
\* and is back where it was.
ScanBegin ==
  /\ At("Scanning")
  /\ pc' = "scan" /\ rounds' = 0
  /\ UNCHANGED <<conn, last_state, peripheral, write_char, job, todo,
                 light, cmds, open, doubt>>

ScanNothing ==
  /\ pc = "scan" /\ rounds < ScanRounds /\ open
  /\ rounds' = rounds + 1
  /\ UNCHANGED <<conn, last_state, peripheral, write_char, pc, job, todo,
                 light, cmds, open, doubt>>

ScanFound ==
  /\ pc = "scan" /\ rounds < ScanRounds /\ open
  /\ peripheral' = TRUE
  /\ conn' = "Connecting" /\ pc' = "loop"
  /\ UNCHANGED <<last_state, write_char, rounds, job, todo,
                 light, cmds, open, doubt>>

\* Mutant: a scan that found nothing starts over.
ScanGiveUpStays ==
  /\ pc = "scan" /\ (rounds = ScanRounds \/ ~open)
  /\ pc' = "loop"
  /\ UNCHANGED <<conn, last_state, peripheral, write_char, rounds, job, todo,
                 light, cmds, open, doubt>>

\* The rounds are used up, or a poll finds every handle gone.
ScanGiveUp ==
  /\ pc = "scan" /\ (rounds = ScanRounds \/ ~open)
  /\ ToIdle
  /\ UNCHANGED <<last_state, peripheral, write_char, rounds, job, todo,
                 light, cmds, open, doubt>>

\* A transient error of find_elk: the scan starts over.
ScanRetry ==
  /\ pc = "scan" /\ rounds < ScanRounds /\ open
  /\ pc' = "loop"
  /\ UNCHANGED <<conn, last_state, peripheral, write_char, rounds, job, todo,
                 light, cmds, open, doubt>>

\* Any other error, of start_scan or of find_elk.
ScanError ==
  /\ \/ At("Scanning")
     \/ pc = "scan" /\ rounds < ScanRounds /\ open
  /\ ToIdle
  /\ UNCHANGED <<last_state, peripheral, write_char, rounds, job, todo,
                 light, cmds, open, doubt>>

GattBegin ==
  /\ At("Connecting")
  /\ pc' = "gatt" /\ rounds' = 0
  /\ UNCHANGED <<conn, last_state, peripheral, write_char, job, todo,
                 light, cmds, open, doubt>>

\* connect() returns or times out; establish_gatt looks at the link anyway.
GattConnect ==
  /\ pc = "gatt" /\ rounds < GattAttempts
  /\ linked' \in BOOLEAN
  /\ pc' = "poll"
  /\ UNCHANGED <<conn, last_state, peripheral, write_char, rounds, job, todo,
                 strip, cmds, open, doubt>>

GattReady ==
  /\ pc = "poll" /\ linked
  /\ pc' = "finish"
  /\ UNCHANGED <<conn, last_state, peripheral, write_char, rounds, job, todo,
                 light, cmds, open, doubt>>

GattReset ==
  /\ pc = "poll"
  /\ linked' = FALSE
  /\ rounds' = rounds + 1
  /\ pc' = "gatt"
  /\ UNCHANGED <<conn, last_state, peripheral, write_char, job, todo,
                 strip, cmds, open, doubt>>

\* The error establish_gatt returns is never a transient one, so the branch
\* that rescans is not taken.
GattGiveUp ==
  /\ pc = "gatt" /\ rounds = GattAttempts
  /\ peripheral' = FALSE
  /\ ToIdle
  /\ UNCHANGED <<last_state, write_char, rounds, job, todo,
                 light, cmds, open, doubt>>

FinishNoChar ==
  /\ pc = "finish"
  /\ linked' = FALSE /\ peripheral' = FALSE
  /\ ToIdle
  /\ UNCHANGED <<last_state, write_char, rounds, job, todo,
                 strip, cmds, open, doubt>>

FinishReplay ==
  /\ pc = "finish"
  /\ write_char' = TRUE
  /\ job' = last_state /\ todo' = Replay(last_state)
  /\ pc' = "replay"
  /\ doubt' = Field
  /\ UNCHANGED <<conn, last_state, peripheral, rounds,
                 light, cmds, open>>

\* One write of replay_state or of write_delta returns Ok.  Most are writes
\* without response, so Ok does not say that the link was still up.
WriteAcked ==
  /\ pc \in {"replay", "write"}
  /\ \E f \in todo :
       /\ IsNext(f)
       /\ strip' = IF linked THEN Landed(f) ELSE strip
       /\ todo' = todo \ {f}
       /\ doubt' = doubt \ {f}
  /\ UNCHANGED <<conn, last_state, peripheral, write_char, pc, rounds, job,
                 linked, cmds, open>>

\* One write fails or times out, before or after it reached the strip.
WriteUnsure ==
  \E f \in todo : IsNext(f) /\ (strip' = strip \/ (linked /\ strip' = Landed(f)))

\* Mutant: the disconnect of a failed replay is left out.
ReplayFailedKeepsLink ==
  /\ pc = "replay" /\ WriteUnsure
  /\ peripheral' = FALSE
  /\ ToIdle
  /\ JobOver
  /\ UNCHANGED <<last_state, write_char, rounds, linked, cmds, open, doubt>>

ReplayFailed ==
  /\ pc = "replay" /\ WriteUnsure
  /\ linked' = FALSE /\ peripheral' = FALSE
  /\ ToIdle
  /\ JobOver
  /\ UNCHANGED <<last_state, write_char, rounds, cmds, open, doubt>>

ReplayDone ==
  /\ pc = "replay" /\ todo = {}
  /\ conn' = "Connected" /\ pc' = "loop"
  /\ JobOver
  /\ UNCHANGED <<last_state, peripheral, write_char, rounds,
                 light, cmds, open, doubt>>

ConnectedApply ==
  /\ At("Connected")
  /\ cmds # <<>> /\ Head(cmds).op = "apply"
  /\ cmds' = Tail(cmds)
  /\ job' = Head(cmds).state
  /\ todo' = Delta(last_state, Head(cmds).state)
  /\ pc' = "write"
  /\ UNCHANGED <<conn, last_state, peripheral, write_char, rounds,
                 light, open, doubt>>

\* last_state takes the whole command, the fields not written included.
WriteDone ==
  /\ pc = "write" /\ todo = {}
  /\ last_state' = job
  /\ pc' = "loop"
  /\ JobOver
  /\ doubt' = doubt \cup (Differ(last_state, job) \ Delta(last_state, job))
  /\ UNCHANGED <<conn, peripheral, write_char, rounds,
                 light, cmds, open>>

\* The fields of the command attempted so far: last_state keeps their old value.
Attempted == {f \in Delta(last_state, job) : f \notin todo \/ IsNext(f)}

\* Mutant: last_state takes the command whether or not the writes succeeded.
WriteTransientRecords ==
  /\ pc = "write" /\ WriteUnsure
  /\ pc' = "loop"
  /\ JobOver
  /\ last_state' = job
  /\ doubt' = doubt \cup Attempted
  /\ UNCHANGED <<conn, peripheral, write_char, rounds, linked, cmds, open>>

\* A transient error keeps the link, and the command is over.
WriteTransient ==
  /\ pc = "write" /\ WriteUnsure
  /\ pc' = "loop"
  /\ JobOver
  /\ doubt' = doubt \cup Attempted
  /\ UNCHANGED <<conn, last_state, peripheral, write_char, rounds,
                 linked, cmds, open>>

\* Any other error, a timeout included, leads to a disconnect.
WriteFatal ==
  /\ pc = "write" /\ WriteUnsure
  /\ pc' = "failed"
  /\ JobOver
  /\ doubt' = doubt \cup Attempted
  /\ UNCHANGED <<conn, last_state, peripheral, write_char, rounds,
                 linked, cmds, open>>

\* select! may prefer the idle timer to a command that arrives with it.
IdleTimeout ==
  /\ At("Connected")
  /\ pc' = "idling"
  /\ UNCHANGED <<conn, last_state, peripheral, write_char, rounds, job, todo,
                 light, cmds, open, doubt>>

ConnectedEnd ==
  /\ At("Connected")
  /\ Ended
  /\ TakeEnd
  /\ pc' = "stopping"
  /\ UNCHANGED <<conn, last_state, peripheral, write_char, rounds, job, todo,
                 light, open, doubt>>

\* Fsm::disconnect: the link is closed and the handles of it cleared.
Disconnect == linked' = FALSE /\ peripheral' = FALSE /\ write_char' = FALSE

DisconnectToIdle ==
  /\ pc \in {"failed", "idling"}
  /\ Disconnect
  /\ ToIdle
  /\ UNCHANGED <<last_state, rounds, job, todo, strip, cmds, open, doubt>>

\* On the way out nothing is published: watchers keep reading Connected.
DisconnectToStop ==
  /\ pc = "stopping"
  /\ Disconnect
  /\ pc' = "stopped"
  /\ UNCHANGED <<conn, last_state, rounds, job, todo, strip, cmds, open, doubt>>

-----------------------------------------------------------------------------

Init ==
  /\ conn = "Idle" /\ pc = "loop"
  /\ cmds = <<>> /\ open = TRUE
  /\ last_state = DefaultState
  /\ peripheral = FALSE /\ write_char = FALSE
  /\ rounds = 0
  /\ job = DefaultState /\ todo = {}
  /\ linked = FALSE
  /\ strip \in DeviceState
  /\ doubt = Field

Handles == (\E s \in DeviceState : Set(s)) \/ Shutdown \/ DropHandles

World == LinkLost \/ PowerCycled

Scan == ScanBegin \/ ScanNothing \/ ScanFound \/ ScanGiveUp \/ ScanRetry \/ ScanError

Connect ==
  \/ GattBegin \/ GattConnect \/ GattReady \/ GattReset \/ GattGiveUp
  \/ FinishNoChar \/ FinishReplay \/ ReplayFailed \/ ReplayDone

Write == ConnectedApply \/ WriteAcked \/ WriteDone \/ WriteTransient \/ WriteFatal

Run ==
  \/ IdleApply \/ IdleEnd \/ Scan \/ Connect \/ Write
  \/ IdleTimeout \/ ConnectedEnd \/ DisconnectToIdle \/ DisconnectToStop

Next == Handles \/ World \/ Run

Spec == Init /\ [][Next]_vars

\* The runtime keeps polling the task.  The second conjunct is an assumption on
\* the adapter: not every scan ends in a transient error, which starts it over.
Fairness == WF_vars(Run) /\ SF_vars(ScanFound \/ ScanGiveUp \/ ScanError)

FairSpec == Spec /\ Fairness

-----------------------------------------------------------------------------
(***************************************************************************)
(* Properties.                                                             *)
(***************************************************************************)

\* Every variable keeps its type, and the command channel its capacity.
TypeOK ==
  /\ conn \in {"Idle", "Scanning", "Connecting", "Connected"}
  /\ cmds \in Seq(Cmd) /\ Len(cmds) <= QueueCap
  /\ open \in BOOLEAN
  /\ last_state \in DeviceState /\ job \in DeviceState /\ todo \subseteq Field
  /\ peripheral \in BOOLEAN /\ write_char \in BOOLEAN
  /\ pc \in {"loop", "scan", "gatt", "poll", "finish", "replay", "write",
             "failed", "idling", "stopping", "stopped"}
  /\ rounds \in Nat
  /\ linked \in BOOLEAN /\ strip \in DeviceState
  /\ doubt \subseteq Field

\* The task never writes without the peripheral and the characteristic, so the
\* "no peripheral" errors of write_delta and replay_state, and the branch of
\* Connecting that finds no peripheral, are not taken; and no way out of a
\* connection forgets the peripheral while it leaves the link open, where
\* nothing would ever close it.
HandlesHeld ==
  /\ conn = "Connecting" => peripheral
  /\ At("Connected") \/ pc \in {"replay", "write"} => peripheral /\ write_char
  /\ linked => peripheral

\* While Connected over a live link, every field that was written and
\* acknowledged since the link came up, and not put in doubt by a failed or a
\* skipped write, shows on the strip as last_state records it.  write_delta
\* computes the next writes from last_state, so it relies on this.
StripFollowsLastState ==
  At("Connected") /\ linked => \A f \in Field \ doubt : strip[f] = last_state[f]

\* A channel that is full, and so drops the commands offered to it, gets room
\* again: the task never stops taking commands while it is alive.
ChannelDrains ==
  Len(cmds) = QueueCap ~> Len(cmds) < QueueCap \/ pc = "stopped"

\* Once Stop is in the channel, or every handle is dropped, the task ends,
\* whatever it was doing.
EndHonoured ==
  (\E i \in DOMAIN cmds : cmds[i].op = "stop") \/ ~open ~> pc = "stopped"

\* A connect that ends in Connected over a live link has put the whole of
\* last_state on the strip, whatever the strip showed and however often the
\* link was lost and the replay interrupted before, if last_state shows a light.
ConnectShows ==
  [][conn # "Connected" /\ conn' = "Connected" /\ linked
       /\ last_state.power /\ last_state.brightness > 0
     => strip' = last_state]_vars

Applies(q) == {i \in DOMAIN q : q[i].op = "apply"}

\* The state of the last command in q to apply one, s if q has none.
LastOf(q, s) ==
  IF Applies(q) = {} THEN s
  ELSE q[CHOOSE i \in Applies(q) : \A j \in Applies(q) : j <= i].state

\* The state asked for last, of those that set() has not dropped.
Wanted == LastOf(cmds, IF pc = "write" THEN job ELSE last_state)

\* What is wanted is never forgotten nor overtaken by an older command: it waits
\* through scans, connects, replays and disconnects, until another is asked for
\* or a write of it fails, when the state before it is what is left.
WantedKept ==
  [][\/ Wanted' = Wanted
     \/ \E s \in DeviceState : Set(s) /\ Wanted' = s
     \/ pc = "write" /\ todo # {} /\ Wanted' = last_state]_vars
=============================================================================
