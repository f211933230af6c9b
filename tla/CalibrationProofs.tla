------------------------- MODULE CalibrationProofs -------------------------
(***************************************************************************)
(* Proofs about Calibration, for any number of calibrations, candidates,   *)
(* test states and attempts.                                               *)
(***************************************************************************)
EXTENDS Calibration, TLAPS

USE CalibrationAssumption DEF First

\* A task that has not started is as new, and counts stay below their ends.
Counted ==
  /\ \A t \in Calibration : pc[t] = "test" => test[t] < Tests
  /\ \A t \in Calibration : pc[t] = "none" => k[t] = 1 /\ last_good[t] = First

\* What a task will settle for has passed a check.
Settling == \A t \in Calibration : last_good[t] \in found \cup {First}

\* A calibration that runs alone: its candidate is in force while it is tested,
\* all before it have been measured, and none has failed before it is over.
Alone(t) ==
  /\ pc[t] \in {"test", "check"} => min_gap = Candidates[k[t]] /\ paced[t]
  /\ pc[t] \notin {"settle", "done"} =>
       /\ failed = {}
       /\ last_good[t] = IF k[t] = 1 THEN First ELSE Candidates[k[t] - 1]
       /\ k[t] > 1 => last_good[t] \in measured
  /\ pc[t] = "settle" => last_good[t] \in (measured \ failed) \cup {First}

OneAtATime ==
  ~overlapped => /\ \A t, u \in Running : t = u
                 /\ \A t \in Running : Alone(t)

IInv == TypeOK /\ Counted /\ Settling /\ GapTested /\ OneAtATime /\ GapMeasured

-----------------------------------------------------------------------------
LEMMA CandidateNat ==
  /\ First \in Nat
  /\ Len(Candidates) \in Nat \ {0}
  /\ \A i \in 1..Len(Candidates) : Candidates[i] \in Nat
<1>1. Len(Candidates) \in Nat \ {0}
  OBVIOUS
<1>2. \A i \in 1..Len(Candidates) : Candidates[i] \in Nat
  OBVIOUS
<1>3. 1 \in 1..Len(Candidates)
  BY <1>1
<1> QED
  BY <1>1, <1>2, <1>3

LEMMA InitIInv == Init => IInv
<1> SUFFICES ASSUME Init PROVE IInv
  OBVIOUS
<1> USE DEF Init
<1>1. TypeOK
  <2>1. 1 \in 1..Len(Candidates) /\ 0 \in 0..Tests /\ 0 \in 0..Attempts
    BY CandidateNat
  <2> QED
    BY <2>1, CandidateNat DEF TypeOK
<1>2. Running = {}
  BY DEF Running
<1> QED
  BY <1>1, <1>2 DEF IInv, Counted, Settling, GapTested, GapMeasured, OneAtATime

LEMMA TypeStep == TypeOK /\ Counted /\ [Next]_vars => TypeOK'
<1> SUFFICES ASSUME TypeOK, Counted, [Next]_vars PROVE TypeOK'
  OBVIOUS
<1> USE CandidateNat DEF TypeOK, local, ghost
<1>1. ASSUME NEW t \in Calibration, Request(t) PROVE TypeOK'
  BY <1>1 DEF Request
<1>2. ASSUME NEW t \in Calibration, GiveUp(t) PROVE TypeOK'
  BY <1>2 DEF GiveUp
<1>3. ASSUME NEW t \in Calibration, Reached(t) PROVE TypeOK'
  BY <1>3 DEF Reached
<1>4. ASSUME NEW t \in Calibration, Wake(t) PROVE TypeOK'
  <2>1. attempts[t] \in 0..Attempts /\ attempts[t] < Attempts /\ Attempts \in Nat
    BY <1>4 DEF Wake
  <2>2. attempts[t] + 1 \in 0..Attempts
    BY ONLY <2>1
  <2>3. attempts' \in [Calibration -> 0..Attempts]
    BY ONLY <1>4, <2>2, attempts \in [Calibration -> 0..Attempts] DEF Wake
  <2>4. newest' \in {"client", "test"}
    BY <1>4 DEF Wake
  <2>5. UNCHANGED <<min_gap, conn, pc, k, test, last_good, paced, found, measured, failed,
                    overlapped>>
    BY <1>4 DEF Wake
  <2> QED
    BY ONLY TypeOK, <2>3, <2>4, <2>5 DEF TypeOK
<1>5. ASSUME NEW t \in Calibration, Try(t) PROVE TypeOK'
  <2>1. Candidates[k[t]] \in Nat
    BY CandidateNat
  <2>2. min_gap' \in Nat
    BY <1>5, <2>1 DEF Try
  <2>3. pc' = [pc EXCEPT ![t] = "test"] /\ test' = [test EXCEPT ![t] = 0]
    BY <1>5 DEF Try
  <2>4. paced' = [paced EXCEPT ![t] = TRUE]
    BY <1>5 DEF Try
  <2>5. UNCHANGED <<conn, newest, attempts, k, last_good, found, measured, failed, overlapped>>
    BY <1>5 DEF Try
  <2>6. 0 \in 0..Tests
    OBVIOUS
  <2> QED
    BY ONLY TypeOK, <2>2, <2>3, <2>4, <2>5, <2>6 DEF TypeOK
<1>6. ASSUME NEW t \in Calibration, ApplyTest(t) PROVE TypeOK'
  <2>1. test[t] + 1 \in 0..Tests
    BY <1>6 DEF ApplyTest, Counted
  <2>2. test' = [test EXCEPT ![t] = test[t] + 1]
    BY <1>6 DEF ApplyTest
  <2>3. \E l \in {"check", "test"} : pc' = [pc EXCEPT ![t] = l]
    BY <1>6 DEF ApplyTest
  <2>4. paced' \in [Calibration -> BOOLEAN]
    BY <1>6 DEF ApplyTest
  <2>5. newest' = "test"
    BY <1>6 DEF ApplyTest
  <2>6. UNCHANGED <<min_gap, conn, attempts, k, last_good, found, measured, failed, overlapped>>
    BY <1>6 DEF ApplyTest
  <2> QED
    BY ONLY TypeOK, <2>1, <2>2, <2>3, <2>4, <2>5, <2>6 DEF TypeOK
<1>7. ASSUME NEW t \in Calibration, Passed(t) PROVE TypeOK'
  <2>1. Candidates[k[t]] \in Nat
    BY CandidateNat
  <2>2. CASE k[t] < Len(Candidates)
    <3>1. k[t] + 1 \in 1..Len(Candidates)
      BY <2>2, CandidateNat
    <3>2. k' \in [Calibration -> 1..Len(Candidates)]
      BY <1>7, <2>2, <3>1 DEF Passed
    <3> QED
      BY <1>7, <2>1, <2>2, <3>2 DEF Passed
  <2>3. CASE ~(k[t] < Len(Candidates))
    BY <1>7, <2>1, <2>3 DEF Passed
  <2> QED
    BY <2>2, <2>3
<1>8. ASSUME NEW t \in Calibration, Failed(t) PROVE TypeOK'
  BY <1>8 DEF Failed
<1>9. ASSUME NEW t \in Calibration, Settle(t) PROVE TypeOK'
  BY <1>9 DEF Settle
<1>10. CASE Apply
  BY <1>10 DEF Apply
<1>11. CASE Link
  BY <1>11 DEF Link
<1>12. CASE UNCHANGED vars
  BY <1>12 DEF vars
<1> QED
  BY <1>1, <1>2, <1>3, <1>4, <1>5, <1>6, <1>7, <1>8, <1>9, <1>10, <1>11, <1>12 DEF Next,
     Calibrate

LEMMA CountedStep == TypeOK /\ Counted /\ [Next]_vars => Counted'
<1> SUFFICES ASSUME TypeOK, Counted, [Next]_vars PROVE Counted'
  OBVIOUS
<1> USE DEF TypeOK, Counted, local, ghost
<1>1. ASSUME NEW t \in Calibration, Request(t) PROVE Counted'
  BY <1>1 DEF Request
<1>2. ASSUME NEW t \in Calibration, GiveUp(t) PROVE Counted'
  BY <1>2 DEF GiveUp
<1>3. ASSUME NEW t \in Calibration, Reached(t) PROVE Counted'
  BY <1>3 DEF Reached
<1>4. ASSUME NEW t \in Calibration, Wake(t) PROVE Counted'
  BY <1>4 DEF Wake
<1>5. ASSUME NEW t \in Calibration, Try(t) PROVE Counted'
  BY <1>5 DEF Try
<1>6. ASSUME NEW t \in Calibration, ApplyTest(t) PROVE Counted'
  BY <1>6 DEF ApplyTest
<1>7. ASSUME NEW t \in Calibration, Passed(t) PROVE Counted'
  BY <1>7 DEF Passed
<1>8. ASSUME NEW t \in Calibration, Failed(t) PROVE Counted'
  BY <1>8 DEF Failed
<1>9. ASSUME NEW t \in Calibration, Settle(t) PROVE Counted'
  BY <1>9 DEF Settle
<1>10. CASE Apply
  BY <1>10 DEF Apply
<1>11. CASE Link
  BY <1>11 DEF Link
<1>12. CASE UNCHANGED vars
  BY <1>12 DEF vars
<1> QED
  BY <1>1, <1>2, <1>3, <1>4, <1>5, <1>6, <1>7, <1>8, <1>9, <1>10, <1>11, <1>12 DEF Next,
     Calibrate

LEMMA TestedStep == IInv /\ [Next]_vars => Settling' /\ GapTested'
<1> SUFFICES ASSUME IInv, [Next]_vars PROVE Settling' /\ GapTested'
  OBVIOUS
<1> USE DEF IInv, TypeOK, Settling, GapTested, Running, local, ghost
<1>1. ASSUME NEW t \in Calibration, Request(t) PROVE Settling' /\ GapTested'
  BY <1>1 DEF Request
<1>2. ASSUME NEW t \in Calibration, GiveUp(t) PROVE Settling' /\ GapTested'
  BY <1>2 DEF GiveUp
<1>3. ASSUME NEW t \in Calibration, Reached(t) PROVE Settling' /\ GapTested'
  BY <1>3 DEF Reached
<1>4. ASSUME NEW t \in Calibration, Wake(t) PROVE Settling' /\ GapTested'
  BY <1>4 DEF Wake
<1>5. ASSUME NEW t \in Calibration, Try(t) PROVE Settling' /\ GapTested'
  BY <1>5 DEF Try
<1>6. ASSUME NEW t \in Calibration, ApplyTest(t) PROVE Settling' /\ GapTested'
  BY <1>6 DEF ApplyTest
<1>7. ASSUME NEW t \in Calibration, Passed(t) PROVE Settling' /\ GapTested'
  BY <1>7 DEF Passed
<1>8. ASSUME NEW t \in Calibration, Failed(t) PROVE Settling' /\ GapTested'
  BY <1>8 DEF Failed
<1>9. ASSUME NEW t \in Calibration, Settle(t) PROVE Settling' /\ GapTested'
  BY <1>9 DEF Settle
<1>10. CASE Apply
  BY <1>10 DEF Apply
<1>11. CASE Link
  BY <1>11 DEF Link
<1>12. CASE UNCHANGED vars
  BY <1>12 DEF vars
<1> QED
  BY <1>1, <1>2, <1>3, <1>4, <1>5, <1>6, <1>7, <1>8, <1>9, <1>10, <1>11, <1>12 DEF Next,
     Calibrate

\* Without overlap a calibration that runs is the only one.
LEMMA Sole ==
  ASSUME NEW t \in Running, OneAtATime, ~overlapped
  PROVE  Running = {t} /\ Alone(t)
BY DEF OneAtATime

LEMMA AloneStep == IInv /\ [Next]_vars => OneAtATime'
<1> SUFFICES ASSUME IInv, [Next]_vars PROVE OneAtATime'
  OBVIOUS
<1> USE DEF IInv, TypeOK, local, ghost
<1>1. ASSUME NEW t \in Calibration, Request(t) PROVE OneAtATime'
  <2> SUFFICES ASSUME ~overlapped' PROVE Running' \subseteq {t} /\ Alone(t)'
    BY DEF OneAtATime
  <2>1. Running = {}
    BY <1>1 DEF Request, Running
  <2>2. Running' \subseteq {t}
    BY <1>1, <2>1 DEF Request, Running
  <2>3. Alone(t)'
    BY <1>1, <2>1, CandidateNat DEF Request, Alone, Counted
  <2> QED
    BY <2>2, <2>3
<1>2. ASSUME NEW t \in Calibration, GiveUp(t) PROVE OneAtATime'
  <2> SUFFICES ASSUME ~overlapped' PROVE Running' \subseteq {t} /\ Alone(t)'
    BY DEF OneAtATime
  <2>0. t \in Running /\ ~overlapped
    BY <1>2 DEF GiveUp, Running
  <2>1. Running = {t} /\ Alone(t)
    BY ONLY <2>0, Sole, IInv DEF IInv
  <2>2. Running' \subseteq {t}
    BY <1>2, <2>1 DEF GiveUp, Running
  <2>3. Alone(t)'
    BY <1>2, <2>1, CandidateNat DEF GiveUp, Alone
  <2> QED
    BY <2>2, <2>3
<1>3. ASSUME NEW t \in Calibration, Reached(t) PROVE OneAtATime'
  <2> SUFFICES ASSUME ~overlapped' PROVE Running' \subseteq {t} /\ Alone(t)'
    BY DEF OneAtATime
  <2>0. t \in Running /\ ~overlapped
    BY <1>3 DEF Reached, Running
  <2>1. Running = {t} /\ Alone(t)
    BY ONLY <2>0, Sole, IInv DEF IInv
  <2>2. Running' \subseteq {t}
    BY <1>3, <2>1 DEF Reached, Running
  <2>3. Alone(t)'
    BY <1>3, <2>1, CandidateNat DEF Reached, Alone
  <2> QED
    BY <2>2, <2>3
<1>4. ASSUME NEW t \in Calibration, Wake(t) PROVE OneAtATime'
  <2> SUFFICES ASSUME ~overlapped' PROVE Running' \subseteq {t} /\ Alone(t)'
    BY DEF OneAtATime
  <2>0. t \in Running /\ ~overlapped
    BY <1>4 DEF Wake, Running
  <2>1. Running = {t} /\ Alone(t)
    BY ONLY <2>0, Sole, IInv DEF IInv
  <2>2. Running' \subseteq {t}
    BY <1>4, <2>1 DEF Wake, Running
  <2>3. Alone(t)'
    BY <1>4, <2>1, CandidateNat DEF Wake, Alone
  <2> QED
    BY <2>2, <2>3
<1>5. ASSUME NEW t \in Calibration, Try(t) PROVE OneAtATime'
  <2> SUFFICES ASSUME ~overlapped' PROVE Running' \subseteq {t} /\ Alone(t)'
    BY DEF OneAtATime
  <2>0. t \in Running /\ ~overlapped
    BY <1>5 DEF Try, Running
  <2>1. Running = {t} /\ Alone(t)
    BY ONLY <2>0, Sole, IInv DEF IInv
  <2>2. Running' \subseteq {t}
    BY <1>5, <2>1 DEF Try, Running
  <2>3. Alone(t)'
    BY <1>5, <2>1, CandidateNat DEF Try, Alone
  <2> QED
    BY <2>2, <2>3
<1>6. ASSUME NEW t \in Calibration, ApplyTest(t) PROVE OneAtATime'
  <2> SUFFICES ASSUME ~overlapped' PROVE Running' \subseteq {t} /\ Alone(t)'
    BY DEF OneAtATime
  <2>0. t \in Running /\ ~overlapped
    BY <1>6 DEF ApplyTest, Running
  <2>1. Running = {t} /\ Alone(t)
    BY ONLY <2>0, Sole, IInv DEF IInv
  <2>2. Running' \subseteq {t}
    BY <1>6, <2>1 DEF ApplyTest, Running
  <2>3. Alone(t)'
    BY <1>6, <2>1, CandidateNat DEF ApplyTest, Alone
  <2> QED
    BY <2>2, <2>3
<1>7. ASSUME NEW t \in Calibration, Passed(t) PROVE OneAtATime'
  <2> SUFFICES ASSUME ~overlapped' PROVE Running' \subseteq {t} /\ Alone(t)'
    BY DEF OneAtATime
  <2>0. t \in Running /\ ~overlapped
    BY <1>7 DEF Passed, Running
  <2>1. Running = {t} /\ Alone(t)
    BY ONLY <2>0, Sole, IInv DEF IInv
  <2>2. Running' \subseteq {t}
    BY <1>7, <2>1 DEF Passed, Running
  <2>3. /\ k[t] \in 1..Len(Candidates) /\ min_gap = Candidates[k[t]] /\ paced[t] /\ failed = {}
        /\ last_good'[t] = Candidates[k[t]] /\ Candidates[k[t]] \in measured' /\ failed' = {}
    BY <1>7, <2>1 DEF Passed, Alone
  <2>4. CASE k[t] < Len(Candidates)
    <3>1. k'[t] = k[t] + 1 /\ pc'[t] = "set"
      BY <1>7, <2>4 DEF Passed
    <3>0. k[t] \in Nat \ {0}
      BY ONLY <2>3, CandidateNat
    <3>2. k'[t] # 1 /\ k'[t] - 1 = k[t] /\ k'[t] > 1
      BY ONLY <3>0, <3>1
    <3>3. Alone(t)'
      BY ONLY <2>3, <3>1, <3>2 DEF Alone
    <3> QED
      BY <2>2, <3>3
  <2>5. CASE ~(k[t] < Len(Candidates))
    <3>1. pc'[t] = "settle"
      BY <1>7, <2>5 DEF Passed
    <3>2. Alone(t)'
      BY ONLY <2>3, <3>1 DEF Alone
    <3> QED
      BY <2>2, <3>2
  <2> QED
    BY <2>4, <2>5
<1>8. ASSUME NEW t \in Calibration, Failed(t) PROVE OneAtATime'
  <2> SUFFICES ASSUME ~overlapped' PROVE Running' \subseteq {t} /\ Alone(t)'
    BY DEF OneAtATime
  <2>0. t \in Running /\ ~overlapped
    BY <1>8 DEF Failed, Running
  <2>1. Running = {t} /\ Alone(t)
    BY ONLY <2>0, Sole, IInv DEF IInv
  <2>2. Running' \subseteq {t}
    BY <1>8, <2>1 DEF Failed, Running
  <2>3. pc'[t] = "settle" /\ last_good' = last_good /\ measured' = measured /\ failed = {}
    BY <1>8, <2>1 DEF Failed, Alone
  <2>4. CASE k[t] = 1
    BY <1>8, <2>1, <2>2, <2>3, <2>4 DEF Failed, Alone
  <2>5. CASE k[t] > 1
    <3>1. k[t] - 1 \in 1..Len(Candidates) /\ k[t] \in 1..Len(Candidates) /\ k[t] - 1 < k[t]
      BY <2>5, CandidateNat
    <3>2. Candidates[k[t] - 1] > Candidates[k[t]]
      BY <3>1
    <3>3. Candidates[k[t] - 1] # Candidates[k[t]]
      BY <3>1, <3>2, CandidateNat
    <3> QED
      BY <1>8, <2>1, <2>2, <2>3, <2>5, <3>3 DEF Failed, Alone
  <2> QED
    BY <2>4, <2>5, CandidateNat
<1>9. ASSUME NEW t \in Calibration, Settle(t) PROVE OneAtATime'
  <2> SUFFICES ASSUME ~overlapped' PROVE Running' \subseteq {t} /\ Alone(t)'
    BY DEF OneAtATime
  <2>0. t \in Running /\ ~overlapped
    BY <1>9 DEF Settle, Running
  <2>1. Running = {t} /\ Alone(t)
    BY ONLY <2>0, Sole, IInv DEF IInv
  <2>2. Running' \subseteq {t}
    BY <1>9, <2>1 DEF Settle, Running
  <2>3. Alone(t)'
    BY <1>9, <2>1, CandidateNat DEF Settle, Alone
  <2> QED
    BY <2>2, <2>3
<1>10. CASE Apply
  BY <1>10 DEF Apply, Running, OneAtATime, Alone
<1>11. CASE Link
  BY <1>11 DEF Link, Running, OneAtATime, Alone
<1>12. CASE UNCHANGED vars
  BY <1>12 DEF vars, Running, OneAtATime, Alone
<1> QED
  BY <1>1, <1>2, <1>3, <1>4, <1>5, <1>6, <1>7, <1>8, <1>9, <1>10, <1>11, <1>12 DEF Next,
     Calibrate

LEMMA MeasuredStep == IInv /\ [Next]_vars => GapMeasured'
<1> SUFFICES ASSUME IInv, [Next]_vars PROVE GapMeasured'
  OBVIOUS
<1> USE CandidateNat DEF IInv, TypeOK, OneAtATime, Alone, GapMeasured, Running, local, ghost
<1>1. ASSUME NEW t \in Calibration, Request(t) PROVE GapMeasured'
  BY <1>1 DEF Request
<1>2. ASSUME NEW t \in Calibration, GiveUp(t) PROVE GapMeasured'
  BY <1>2 DEF GiveUp
<1>3. ASSUME NEW t \in Calibration, Reached(t) PROVE GapMeasured'
  BY <1>3 DEF Reached
<1>4. ASSUME NEW t \in Calibration, Wake(t) PROVE GapMeasured'
  BY <1>4 DEF Wake
<1>5. ASSUME NEW t \in Calibration, Try(t) PROVE GapMeasured'
  BY <1>5 DEF Try
<1>6. ASSUME NEW t \in Calibration, ApplyTest(t) PROVE GapMeasured'
  BY <1>6 DEF ApplyTest
<1>7. ASSUME NEW t \in Calibration, Passed(t) PROVE GapMeasured'
  BY <1>7 DEF Passed
<1>8. ASSUME NEW t \in Calibration, Failed(t) PROVE GapMeasured'
  BY <1>8 DEF Failed
<1>9. ASSUME NEW t \in Calibration, Settle(t) PROVE GapMeasured'
  BY <1>9 DEF Settle
<1>10. CASE Apply
  BY <1>10 DEF Apply
<1>11. CASE Link
  BY <1>11 DEF Link
<1>12. CASE UNCHANGED vars
  BY <1>12 DEF vars
<1> QED
  BY <1>1, <1>2, <1>3, <1>4, <1>5, <1>6, <1>7, <1>8, <1>9, <1>10, <1>11, <1>12 DEF Next,
     Calibrate

LEMMA Inductive == Spec => []IInv
<1>1. Init => IInv
  BY InitIInv
<1>2. IInv /\ [Next]_vars => IInv'
  BY TypeStep, CountedStep, TestedStep, AloneStep, MeasuredStep DEF IInv
<1> QED
  BY <1>1, <1>2, PTL DEF Spec

\* Every variable keeps its type, for any number of calibrations: the loops of
\* discover_min_gap stay within their candidates, test states and attempts.
THEOREM TypeCorrect == Spec => []TypeOK
  BY Inductive, PTL DEF IInv

\* When no calibration runs the gap in force is the one of new() or one that a
\* check has found the link up after, whatever calibrations overlapped.
THEOREM GapsTested == Spec => []GapTested
  BY Inductive, PTL DEF IInv

\* With one calibration at a time the gap in force has been measured for what it
\* is and has not failed in the last calibration, or is the first candidate.
THEOREM GapsMeasured == Spec => []GapMeasured
  BY Inductive, PTL DEF IInv
=============================================================================
