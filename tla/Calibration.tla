---------------------------- MODULE Calibration ----------------------------
(***************************************************************************)
(* discover_min_gap() of crates/core/src/command.rs and the task in which  *)
(* the `calibrate' request of crates/daemon/src/main.rs runs it.           *)
(*                                                                         *)
(* Nothing keeps a second calibration from being started: the tasks share  *)
(* the gap in force and the light with each other and with the clients.    *)
(* Sleeps are left out.  The connection is seen through state() alone and  *)
(* may be in any state at any time (Connection.tla).                       *)
(***************************************************************************)
EXTENDS Naturals, Sequences, FiniteSets

CONSTANTS
  Calibration,   \* the tasks of `calibrate' requests, each runs once
  Candidates,    \* the gaps tried, in order; the first is the gap of new()
  Tests,         \* test states: 3
  Attempts       \* attempts to find the link up: 3

ASSUME CalibrationAssumption ==
  /\ Candidates \in Seq(Nat) /\ Candidates # <<>>
  /\ \A i, j \in 1..Len(Candidates) : i < j => Candidates[i] > Candidates[j]
  /\ Tests \in Nat \ {0} /\ Attempts \in Nat

VARIABLES
  min_gap,       \* the gap in force
  conn,          \* external: ConnState, "Other" for those in between
  newest,        \* who put the newest state into the command layer
  pc,            \* per task: where it is
  attempts,      \* per task: attempts made
  k,             \* per task: the candidate it is at
  test,          \* per task: test states applied at this candidate
  last_good,     \* per task: the gap it will settle for
  paced,         \* history, per task: its candidate was in force at each test
  found,         \* history: candidates a check found the link up after
  measured,      \* history: those that were in force throughout their test
  failed,        \* history: the candidates that failed since the last request
  overlapped     \* history: a calibration was requested while one was running

local == <<pc, attempts, k, test, last_good, paced>>
ghost == <<found, measured, failed, overlapped>>
vars  == <<min_gap, conn, newest, local, ghost>>

First == Candidates[1]

Running == {t \in Calibration : pc[t] \notin {"none", "done"}}

-----------------------------------------------------------------------------
\* The request: its answer does not wait for the task.
Request(t) ==
  /\ pc[t] = "none"
  /\ pc' = [pc EXCEPT ![t] = "reach"]
  /\ overlapped' = (overlapped \/ Running # {})
  /\ failed' = {}
  /\ UNCHANGED <<min_gap, conn, newest, attempts, k, test, last_good, paced, found, measured>>

GiveUp(t) ==
  /\ pc[t] = "reach" /\ attempts[t] >= Attempts
  /\ pc' = [pc EXCEPT ![t] = "settle"]
  /\ UNCHANGED <<min_gap, conn, newest, attempts, k, test, last_good, paced, ghost>>

Reached(t) ==
  /\ pc[t] = "reach" /\ attempts[t] < Attempts /\ conn = "Connected"
  /\ pc' = [pc EXCEPT ![t] = "set"]
  /\ UNCHANGED <<min_gap, conn, newest, attempts, k, test, last_good, paced, ghost>>

\* Mutant: waking the connection is not counted as an attempt.
WakeUncounted(t) ==
  /\ pc[t] = "reach" /\ attempts[t] < Attempts /\ conn # "Connected"
  /\ newest' = IF conn = "Idle" THEN "test" ELSE newest
  /\ attempts' = [attempts EXCEPT ![t] = IF conn = "Idle" THEN @ ELSE @ + 1]
  /\ UNCHANGED <<min_gap, conn, pc, k, test, last_good, paced, ghost>>

\* An idle connection is woken by a test state, another is waited for.
Wake(t) ==
  /\ pc[t] = "reach" /\ attempts[t] < Attempts /\ conn # "Connected"
  /\ newest' = IF conn = "Idle" THEN "test" ELSE newest
  /\ attempts' = [attempts EXCEPT ![t] = @ + 1]
  /\ UNCHANGED <<min_gap, conn, pc, k, test, last_good, paced, ghost>>

\* Mutant: the candidate is not put in force before it is tested.
TryNothing(t) ==
  /\ pc[t] = "set"
  /\ pc' = [pc EXCEPT ![t] = "test"]
  /\ test' = [test EXCEPT ![t] = 0]
  /\ paced' = [paced EXCEPT ![t] = TRUE]
  /\ UNCHANGED <<min_gap, conn, newest, attempts, k, last_good, ghost>>

Try(t) ==
  /\ pc[t] = "set"
  /\ min_gap' = Candidates[k[t]]
  /\ pc' = [pc EXCEPT ![t] = "test"]
  /\ test' = [test EXCEPT ![t] = 0]
  /\ paced' = [paced EXCEPT ![t] = TRUE]
  /\ UNCHANGED <<conn, newest, attempts, k, last_good, ghost>>

\* One test state, applied at the gap in force, which may be another task's.
ApplyTest(t) ==
  /\ pc[t] = "test"
  /\ newest' = "test"
  /\ paced' = [paced EXCEPT ![t] = @ /\ min_gap = Candidates[k[t]]]
  /\ test' = [test EXCEPT ![t] = @ + 1]
  /\ pc' = [pc EXCEPT ![t] = IF test[t] + 1 = Tests THEN "check" ELSE "test"]
  /\ UNCHANGED <<min_gap, conn, attempts, k, last_good, ghost>>

\* Mutant: the loop runs past the last candidate.
PassedLast(t) ==
  /\ pc[t] = "check" /\ conn = "Connected"
  /\ last_good' = [last_good EXCEPT ![t] = Candidates[k[t]]]
  /\ k' = [k EXCEPT ![t] = @ + 1] /\ pc' = [pc EXCEPT ![t] = "set"]
  /\ found' = found \cup {Candidates[k[t]]}
  /\ measured' = IF paced[t] THEN measured \cup {Candidates[k[t]]} ELSE measured
  /\ UNCHANGED <<min_gap, conn, newest, attempts, test, paced, failed, overlapped>>

\* The link is up: the candidate is good, and the next one, if any, is tried.
Passed(t) ==
  /\ pc[t] = "check" /\ conn = "Connected"
  /\ last_good' = [last_good EXCEPT ![t] = Candidates[k[t]]]
  /\ IF k[t] < Len(Candidates)
     THEN k' = [k EXCEPT ![t] = @ + 1] /\ pc' = [pc EXCEPT ![t] = "set"]
     ELSE k' = k /\ pc' = [pc EXCEPT ![t] = "settle"]
  /\ found' = found \cup {Candidates[k[t]]}
  /\ measured' = IF paced[t] THEN measured \cup {Candidates[k[t]]} ELSE measured
  /\ UNCHANGED <<min_gap, conn, newest, attempts, test, paced, failed, overlapped>>

Failed(t) ==
  /\ pc[t] = "check" /\ conn # "Connected"
  /\ pc' = [pc EXCEPT ![t] = "settle"]
  /\ failed' = failed \cup {Candidates[k[t]]}
  /\ UNCHANGED <<min_gap, conn, newest, attempts, k, test, last_good, paced,
                 found, measured, overlapped>>

\* Mutant: the candidate that was tried last stays in force.
SettleForLast(t) ==
  /\ pc[t] = "settle"
  /\ pc' = [pc EXCEPT ![t] = "done"]
  /\ UNCHANGED <<min_gap, conn, newest, attempts, k, test, last_good, paced, ghost>>

\* The daemon puts the gap that was found in force.
Settle(t) ==
  /\ pc[t] = "settle"
  /\ min_gap' = last_good[t]
  /\ pc' = [pc EXCEPT ![t] = "done"]
  /\ UNCHANGED <<conn, newest, attempts, k, test, last_good, paced, ghost>>

\* A handler or an effect applies a state, which takes no notice of any of this.
Apply ==
  /\ newest' = "client"
  /\ UNCHANGED <<min_gap, conn, local, ghost>>

Link ==
  /\ conn' \in {"Idle", "Connected", "Other"}
  /\ UNCHANGED <<min_gap, newest, local, ghost>>

-----------------------------------------------------------------------------
Init ==
  /\ min_gap = First /\ conn = "Idle" /\ newest = "client"
  /\ pc = [t \in Calibration |-> "none"]
  /\ attempts = [t \in Calibration |-> 0] /\ k = [t \in Calibration |-> 1]
  /\ test = [t \in Calibration |-> 0] /\ last_good = [t \in Calibration |-> First]
  /\ paced = [t \in Calibration |-> TRUE]
  /\ found = {} /\ measured = {} /\ failed = {} /\ overlapped = FALSE

Calibrate(t) ==
  GiveUp(t) \/ Reached(t) \/ Wake(t) \/ Try(t) \/ ApplyTest(t) \/ Passed(t) \/ Failed(t) \/ Settle(t)

Next == (\E t \in Calibration : Request(t) \/ Calibrate(t)) \/ Apply \/ Link

Spec == Init /\ [][Next]_vars

\* The runtime polls the tasks; the connection and the clients may do nothing.
FairSpec == Spec /\ \A t \in Calibration : WF_vars(Calibrate(t))

-----------------------------------------------------------------------------
(***************************************************************************)
(* Properties.                                                             *)
(***************************************************************************)

\* Every variable keeps its type; no task goes past the last candidate, the
\* last test state or the last attempt.
TypeOK ==
  /\ min_gap \in Nat /\ conn \in {"Idle", "Connected", "Other"}
  /\ newest \in {"client", "test"}
  /\ pc \in [Calibration -> {"none", "reach", "set", "test", "check", "settle", "done"}]
  /\ attempts \in [Calibration -> 0..Attempts]
  /\ k \in [Calibration -> 1..Len(Candidates)]
  /\ test \in [Calibration -> 0..Tests]
  /\ last_good \in [Calibration -> Nat] /\ paced \in [Calibration -> BOOLEAN]
  /\ found \subseteq Nat /\ measured \subseteq Nat /\ failed \subseteq Nat
  /\ overlapped \in BOOLEAN

\* When no calibration runs the gap in force is the one of new() or one that a
\* check has found the link up after, however many calibrations ran at once,
\* gave up or lost the link.
GapTested == Running = {} => min_gap \in found \cup {First}

\* As long as there was one calibration at a time a test says what it seems to:
\* the gap in force was in force for the whole of its test, and has not failed
\* in the last calibration.  The first candidate stays in force if it fails.
GapMeasured ==
  Running = {} /\ ~overlapped => min_gap \in (measured \ failed) \cup {First}

\* Every calibration ends and settles for a gap, whatever the link does.
CalibrationEnds == \A t \in Calibration : pc[t] = "reach" ~> pc[t] = "done"
=============================================================================
