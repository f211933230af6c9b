---------------------------- MODULE CommandLayer ----------------------------
(***************************************************************************)
(* The command layer of crates/core/src/command.rs: callers of apply() on  *)
(* any number of tasks, and the flush task spawned by new(), which hands a *)
(* deferred state to Connection::set once the minimum gap has passed.      *)
(*                                                                         *)
(* Time is counted in ticks.  An instant is modelled by its age, the ticks *)
(* since it was taken.  The mutex around `pending' is tokio's, which is    *)
(* first come first served: a task that asks for it waits for those that   *)
(* asked before.  The mutexes around min_gap and last_sent are held for no *)
(* longer than one read or write.  Connection::set is external here: it    *)
(* takes the state handed to it (Connection.tla says what becomes of it).  *)
(***************************************************************************)
EXTENDS Integers

CONSTANTS
  Caller,      \* the tasks that call apply()
  Abortable,   \* those of them that are effect tasks, aborted at any await
  Flusher,     \* the flush task
  State,       \* device states
  Wants,       \* the states each caller applies
  None,        \* Option::None
  Gap,         \* the minimum gaps set_gap() is called with, in ticks
  InitGap,     \* the gap of new(), 1100 ms
  MaxGap,      \* no gap is longer
  Delay,       \* ticks after which a task that can run has run
  Horizon      \* ages are counted up to this many ticks

ASSUME CommandLayerAssumption ==
  /\ Abortable \subseteq Caller /\ Flusher \notin Caller
  /\ None \notin State /\ Wants \in [Caller -> SUBSET State]
  /\ InitGap \in Gap /\ MaxGap \in Nat /\ Gap \subseteq 0..MaxGap
  /\ Delay \in Nat
  /\ Horizon \in Nat /\ Delay + 2 * MaxGap <= Horizon

VARIABLES
  min_gap,     \* the gap in force
  pending,     \* the deferred state, or None
  last_age,    \* age of last_sent
  shutdown_flag,
  waiting,     \* tasks that have asked for the mutex of pending, or hold it
  ahead,       \* the tasks that asked for it before each of them
  fpc,         \* where the flush task is
  fgap,        \* the gap it has read
  fwait,       \* the ticks it has still to sleep
  cpc,         \* where each caller is
  want,        \* the state it applies
  now_age,     \* age of the `now' it took on entry
  cgap,        \* the gap it has read
  handed,      \* external: the state last handed to Connection::set
  latest,      \* history: the state last stored by apply()
  quiet,       \* history: ticks since the last hand-over
  owed         \* history: the gap the flush task owes since its last hand-over

shared == <<min_gap, pending, last_age, shutdown_flag>>
mutex  == <<waiting, ahead>>
flush  == <<fpc, fgap, fwait>>
caller == <<cpc, want, now_age, cgap>>
ghost  == <<latest, quiet, owed>>
vars   == <<shared, mutex, flush, caller, handed, ghost>>

Task == Caller \cup {Flusher}

-----------------------------------------------------------------------------
(***************************************************************************)
(* The mutex of pending.                                                   *)
(***************************************************************************)

Enqueue(t) ==
  /\ waiting' = waiting \cup {t}
  /\ ahead' = [ahead EXCEPT ![t] = waiting]

Holds(t) == t \in waiting /\ ahead[t] = {}

\* t releases the mutex, or is aborted while it waits for it.
Leave(t) ==
  /\ waiting' = waiting \ {t}
  /\ ahead' = [u \in Task |-> IF u = t THEN {} ELSE ahead[u] \ {t}]

-----------------------------------------------------------------------------
(***************************************************************************)
(* apply(), set_gap() and shutdown().                                      *)
(***************************************************************************)

Call(c, s) ==
  /\ cpc[c] = "idle"
  /\ cpc' = [cpc EXCEPT ![c] = "called"]
  /\ want' = [want EXCEPT ![c] = s]
  /\ now_age' = [now_age EXCEPT ![c] = 0]
  /\ UNCHANGED <<shared, mutex, flush, cgap, handed, ghost>>

ReadGap(c) ==
  /\ cpc[c] = "called"
  /\ cgap' = [cgap EXCEPT ![c] = min_gap]
  /\ Enqueue(c)
  /\ cpc' = [cpc EXCEPT ![c] = "queued"]
  /\ UNCHANGED <<shared, flush, want, now_age, handed, ghost>>

\* Mutant: a state that is already pending is not replaced.
StoreIfEmpty(c) ==
  /\ cpc[c] = "queued" /\ Holds(c)
  /\ pending' = IF pending = None THEN want[c] ELSE pending
  /\ latest' = want[c]
  /\ cpc' = [cpc EXCEPT ![c] = "stored"]
  /\ UNCHANGED <<min_gap, last_age, shutdown_flag, mutex, flush,
                 want, now_age, cgap, handed, quiet, owed>>

Store(c) ==
  /\ cpc[c] = "queued" /\ Holds(c)
  /\ pending' = want[c]
  /\ latest' = want[c]
  /\ cpc' = [cpc EXCEPT ![c] = "stored"]
  /\ UNCHANGED <<min_gap, last_age, shutdown_flag, mutex, flush,
                 want, now_age, cgap, handed, quiet, owed>>

\* duration_since: from last_sent to the caller's `now', zero when negative.
Elapsed(c) == IF last_age > now_age[c] THEN last_age - now_age[c] ELSE 0

\* What the call took with it is dropped, and so is the mutex if it had it.
Return(c) ==
  /\ cpc' = [cpc EXCEPT ![c] = "idle"]
  /\ want' = [want EXCEPT ![c] = None]
  /\ now_age' = [now_age EXCEPT ![c] = 0]
  /\ cgap' = [cgap EXCEPT ![c] = 0]
  /\ Leave(c)

\* take() and Connection::set.
HandOver == handed' = pending /\ pending' = None /\ quiet' = 0

\* last_sent becomes the caller's `now', which is older than the hand-over.
Send(c) ==
  /\ cpc[c] = "stored"
  /\ Elapsed(c) >= cgap[c]
  /\ HandOver
  /\ last_age' = now_age[c]
  /\ owed' = 0
  /\ Return(c)
  /\ UNCHANGED <<min_gap, shutdown_flag, flush, latest>>

\* Mutant: a state that comes too early is dropped.
DeferDrops(c) ==
  /\ cpc[c] = "stored"
  /\ Elapsed(c) < cgap[c]
  /\ Return(c)
  /\ pending' = None
  /\ UNCHANGED <<min_gap, last_age, shutdown_flag, flush, handed, ghost>>

Defer(c) ==
  /\ cpc[c] = "stored"
  /\ Elapsed(c) < cgap[c]
  /\ Return(c)
  /\ UNCHANGED <<shared, flush, handed, ghost>>

\* An effect is stopped: its task is dropped at the await it is suspended in.
Abort(c) ==
  /\ c \in Abortable /\ cpc[c] # "idle"
  /\ Return(c)
  /\ UNCHANGED <<shared, flush, handed, ghost>>

SetGap(g) ==
  /\ min_gap' = g
  /\ UNCHANGED <<pending, last_age, shutdown_flag, mutex, flush, caller, handed, ghost>>

Shutdown ==
  /\ shutdown_flag' = TRUE
  /\ UNCHANGED <<min_gap, pending, last_age, mutex, flush, caller, handed, ghost>>

-----------------------------------------------------------------------------
(***************************************************************************)
(* The flush task.                                                         *)
(***************************************************************************)

\* Mutant: the shutdown flag is not looked at.
FlushReadGapAlways ==
  /\ fpc = "top"
  /\ fgap' = min_gap
  /\ fpc' = "gap"
  /\ UNCHANGED <<shared, mutex, fwait, caller, handed, ghost>>

FlushReadGap ==
  /\ fpc = "top" /\ ~shutdown_flag
  /\ fgap' = min_gap
  /\ fpc' = "gap"
  /\ UNCHANGED <<shared, mutex, fwait, caller, handed, ghost>>

FlushTooEarly ==
  /\ fpc = "gap" /\ last_age < fgap
  /\ fwait' = fgap - last_age
  /\ fpc' = "nap"
  /\ UNCHANGED <<shared, mutex, fgap, caller, handed, ghost>>

FlushDue ==
  /\ fpc = "gap" /\ last_age >= fgap
  /\ Enqueue(Flusher)
  /\ fpc' = "lock"
  /\ UNCHANGED <<shared, fgap, fwait, caller, handed, ghost>>

\* Mutant: the mutex is released before the sleep.
FlushTakeReleases ==
  /\ fpc = "lock" /\ Holds(Flusher) /\ pending # None
  /\ HandOver
  /\ last_age' = 0
  /\ owed' = fgap
  /\ fwait' = fgap
  /\ fpc' = "nap"
  /\ Leave(Flusher)
  /\ UNCHANGED <<min_gap, shutdown_flag, fgap, caller, latest>>

\* The mutex of pending stays locked while the task sleeps for the gap.
FlushTake ==
  /\ fpc = "lock" /\ Holds(Flusher) /\ pending # None
  /\ HandOver
  /\ last_age' = 0
  /\ owed' = fgap
  /\ fwait' = fgap
  /\ fpc' = "hold"
  /\ UNCHANGED <<min_gap, shutdown_flag, mutex, fgap, caller, latest>>

\* Mutant: the subtraction does not saturate.
FlushNothingWraps ==
  /\ fpc = "lock" /\ Holds(Flusher) /\ pending = None
  /\ Leave(Flusher)
  /\ fwait' = fgap - last_age
  /\ fpc' = "nap"
  /\ UNCHANGED <<shared, fgap, caller, handed, ghost>>

\* Mutant: the task breaks out of its loop when nothing is pending.
FlushNothingBreaks ==
  /\ fpc = "lock" /\ Holds(Flusher) /\ pending = None
  /\ Leave(Flusher)
  /\ fpc' = "done"
  /\ UNCHANGED <<shared, fgap, fwait, caller, handed, ghost>>

\* Nothing is pending: gap.saturating_sub(elapsed) is zero.
FlushNothing ==
  /\ fpc = "lock" /\ Holds(Flusher) /\ pending = None
  /\ Leave(Flusher)
  /\ fwait' = 0
  /\ fpc' = "nap"
  /\ UNCHANGED <<shared, fgap, caller, handed, ghost>>

\* Mutant: the mutex guard outlives the loop iteration.
FlushWakeHolding ==
  /\ fpc \in {"nap", "hold"} /\ fwait = 0
  /\ fpc' = "top"
  /\ UNCHANGED <<shared, mutex, fgap, fwait, caller, handed, ghost>>

FlushWake ==
  /\ fpc \in {"nap", "hold"} /\ fwait = 0
  /\ Leave(Flusher)
  /\ fpc' = "top"
  /\ UNCHANGED <<shared, fgap, fwait, caller, handed, ghost>>

FlushLast ==
  /\ fpc = "top" /\ shutdown_flag
  /\ Enqueue(Flusher)
  /\ fpc' = "last"
  /\ UNCHANGED <<shared, fgap, fwait, caller, handed, ghost>>

FlushEnd ==
  /\ fpc = "last" /\ Holds(Flusher)
  /\ IF pending # None
       THEN HandOver /\ owed' = 0
       ELSE UNCHANGED <<pending, handed, quiet, owed>>
  /\ Leave(Flusher)
  /\ fpc' = "done"
  /\ UNCHANGED <<min_gap, last_age, shutdown_flag, fgap, fwait, caller, latest>>

-----------------------------------------------------------------------------
(***************************************************************************)
(* Time.                                                                   *)
(***************************************************************************)

\* A caller that is not held up by the sleeping flush task gets on in time.
Patient(c) ==
  cpc[c] = "idle" \/ now_age[c] < Delay \/ (cpc[c] = "queued" /\ fpc = "hold" /\ fwait > 0)

Older(a) == IF a < Horizon THEN a + 1 ELSE Horizon

Tick ==
  /\ \A c \in Caller : Patient(c)
  /\ last_age' = Older(last_age)
  /\ quiet' = Older(quiet)
  /\ now_age' = [c \in Caller |-> IF cpc[c] = "idle" THEN 0 ELSE Older(now_age[c])]
  /\ fwait' = IF fwait > 0 THEN fwait - 1 ELSE 0
  /\ UNCHANGED <<min_gap, pending, shutdown_flag, mutex, fpc, fgap,
                 cpc, want, cgap, handed, latest, owed>>

-----------------------------------------------------------------------------

Init ==
  /\ min_gap = InitGap /\ pending = None /\ last_age = InitGap
  /\ shutdown_flag = FALSE
  /\ waiting = {} /\ ahead = [t \in Task |-> {}]
  /\ fpc = "top" /\ fgap = 0 /\ fwait = 0
  /\ cpc = [c \in Caller |-> "idle"] /\ want = [c \in Caller |-> None]
  /\ now_age = [c \in Caller |-> 0] /\ cgap = [c \in Caller |-> 0]
  /\ handed = None /\ latest = None /\ quiet = InitGap /\ owed = 0

Apply(c) == ReadGap(c) \/ Store(c) \/ Send(c) \/ Defer(c)

Flush ==
  \/ FlushReadGap \/ FlushTooEarly \/ FlushDue \/ FlushTake \/ FlushNothing
  \/ FlushWake \/ FlushLast \/ FlushEnd

Next ==
  \/ \E c \in Caller : Apply(c) \/ Abort(c) \/ \E s \in Wants[c] : Call(c, s)
  \/ \E g \in Gap : SetGap(g)
  \/ Shutdown
  \/ Flush
  \/ Tick

Spec == Init /\ [][Next]_vars

\* The runtime polls every task that is ready, and time passes.
FairSpec ==
  /\ Spec
  /\ WF_vars(Flush) /\ WF_vars(Tick)
  /\ \A c \in Caller : WF_vars(Apply(c))

-----------------------------------------------------------------------------
(***************************************************************************)
(* Properties.                                                             *)
(***************************************************************************)

\* Every variable keeps its type; no sleep is longer than the longest gap.
TypeOK ==
  /\ min_gap \in Gap /\ pending \in State \cup {None} /\ last_age \in 0..Horizon
  /\ shutdown_flag \in BOOLEAN
  /\ waiting \subseteq Task /\ ahead \in [Task -> SUBSET Task]
  /\ fpc \in {"top", "gap", "nap", "lock", "hold", "last", "done"}
  /\ fgap \in 0..MaxGap /\ fwait \in 0..MaxGap
  /\ cpc \in [Caller -> {"idle", "called", "queued", "stored"}]
  /\ want \in [Caller -> State \cup {None}]
  /\ now_age \in [Caller -> 0..Horizon] /\ cgap \in [Caller -> 0..MaxGap]
  /\ handed \in State \cup {None} /\ latest \in State \cup {None}
  /\ quiet \in 0..Horizon /\ owed \in 0..MaxGap

\* The state stored last is never lost: it has been handed over, or it is the
\* one that is pending.  Callers, the flush task, an abort between the store
\* and the hand-over, and a shutdown may all interleave.
NothingLost ==
  IF pending = None THEN handed = latest ELSE pending = latest

\* After a hand-over by the flush task there is none, by anybody, before the
\* gap the flush task went by has passed, a shorter gap set meanwhile included.
HandsOver == (\E c \in Caller : Send(c)) \/ FlushTake \/ (FlushEnd /\ pending # None)

FlushKeepsGap == [][HandsOver => quiet >= owed]_vars

\* The layer implements LatestWins.
Abstract == INSTANCE LatestWins WITH newest <- latest, delivered <- handed

DeliversLatest == Abstract!Spec

\* A state that is deferred is handed over or superseded by one that is, unless
\* the layer is shut down.
PendingFlushed == pending # None ~> pending = None \/ shutdown_flag

\* Every call of apply() returns, though the flush task sleeps with the mutex.
AppliesReturn == \A c \in Caller : cpc[c] # "idle" ~> cpc[c] = "idle"

\* shutdown() gets past the join of the flush task, whatever gap it sleeps for.
ShutdownJoins == shutdown_flag ~> fpc = "done"
=============================================================================
