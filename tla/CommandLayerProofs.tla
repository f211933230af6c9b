------------------------- MODULE CommandLayerProofs -------------------------
(***************************************************************************)
(* The safety of the command layer for any callers, states, gaps and       *)
(* delays: no state is lost, what is handed over is always the newest      *)
(* state, and the flush task keeps its gap.  The last one needs the mutex  *)
(* of pending to exclude: Mutex says how the waiting tasks are ordered and *)
(* who can be in the middle of what, Owing what the flush task still owes. *)
(***************************************************************************)
EXTENDS CommandLayer, TLAPS

Mutex ==
  /\ \A t \in Task : t \notin waiting => ahead[t] = {}
  /\ \A t, u \in waiting : t = u \/ t \in ahead[u] \/ u \in ahead[t]
  /\ \A c \in Caller : cpc[c] \in {"queued", "stored"} <=> c \in waiting
  /\ \A c \in Caller : cpc[c] = "stored" => ahead[c] = {}
  /\ Flusher \in waiting <=> fpc \in {"lock", "hold", "last"}
  /\ fpc = "hold" => ahead[Flusher] = {}

\* A caller that holds the mutex after its store has a state to hand over.
Storing ==
  /\ \A c \in Caller : cpc[c] # "idle" => want[c] \in State
  /\ \A c \in Caller : cpc[c] = "stored" => pending # None

Owing == IF fpc = "hold" THEN quiet + fwait >= owed ELSE quiet >= owed

IInv == TypeOK /\ Storing /\ NothingLost /\ Mutex /\ Owing

-----------------------------------------------------------------------------

\* Every step keeps the types.
LEMMA TypeStep ==
  ASSUME TypeOK, [Next]_vars
  PROVE  TypeOK'
<1> USE CommandLayerAssumption DEF TypeOK, Task
<1>1. ASSUME NEW c \in Caller, NEW s \in Wants[c], Call(c, s)
      PROVE  TypeOK'
  BY <1>1 DEF Call, shared, mutex, flush, ghost
<1>2. ASSUME NEW c \in Caller, ReadGap(c)
      PROVE  TypeOK'
  BY <1>2 DEF ReadGap, shared, flush, ghost, Enqueue
<1>3. ASSUME NEW c \in Caller, Store(c)
      PROVE  TypeOK'
  BY <1>3 DEF Store, mutex, flush
<1>4. ASSUME NEW c \in Caller, Send(c)
      PROVE  TypeOK'
  BY <1>4 DEF Send, flush, HandOver, Return, Leave
<1>5. ASSUME NEW c \in Caller, Defer(c)
      PROVE  TypeOK'
  BY <1>5 DEF Defer, shared, flush, ghost, Return, Leave
<1>6. ASSUME NEW c \in Caller, Abort(c)
      PROVE  TypeOK'
  BY <1>6 DEF Abort, shared, flush, ghost, Return, Leave
<1>7. ASSUME NEW g \in Gap, SetGap(g)
      PROVE  TypeOK'
  BY <1>7 DEF SetGap, mutex, flush, caller, ghost
<1>8. CASE Shutdown
  BY <1>8 DEF Shutdown, mutex, flush, caller, ghost
<1>9. CASE FlushReadGap
  BY <1>9 DEF FlushReadGap, shared, mutex, caller, ghost
<1>10. CASE FlushTooEarly
  BY <1>10 DEF FlushTooEarly, shared, mutex, caller, ghost
<1>11. CASE FlushDue
  BY <1>11 DEF FlushDue, shared, caller, ghost, Enqueue
<1>12. CASE FlushTake
  BY <1>12 DEF FlushTake, mutex, caller, HandOver
<1>13. CASE FlushNothing
  BY <1>13 DEF FlushNothing, shared, caller, ghost, Leave
<1>14. CASE FlushWake
  BY <1>14 DEF FlushWake, shared, caller, ghost, Leave
<1>15. CASE FlushLast
  BY <1>15 DEF FlushLast, shared, caller, ghost, Enqueue
<1>16. CASE FlushEnd
  BY <1>16 DEF FlushEnd, caller, HandOver, Leave
<1>17. CASE Tick
  BY <1>17 DEF Tick, mutex, Older
<1>18. CASE UNCHANGED vars
  BY <1>18 DEF vars, shared, mutex, flush, caller, ghost
<1>19. QED
  BY <1>1, <1>2, <1>3, <1>4, <1>5, <1>6, <1>7, <1>8, <1>9, <1>10, <1>11,
     <1>12, <1>13, <1>14, <1>15, <1>16, <1>17, <1>18
  DEF Next, Apply, Flush

\* Every step keeps the newest state pending or handed over.
LEMMA NothingLostStep ==
  ASSUME TypeOK, Storing, NothingLost, [Next]_vars
  PROVE  NothingLost'
<1> USE CommandLayerAssumption DEF TypeOK, Storing, NothingLost
<1>1. ASSUME NEW c \in Caller, NEW s \in Wants[c], Call(c, s)
      PROVE  NothingLost'
  BY <1>1 DEF Call, shared, mutex, flush, ghost
<1>2. ASSUME NEW c \in Caller, ReadGap(c)
      PROVE  NothingLost'
  BY <1>2 DEF ReadGap, shared, flush, ghost, Enqueue
<1>3. ASSUME NEW c \in Caller, Store(c)
      PROVE  NothingLost'
  BY <1>3 DEF Store, mutex, flush
<1>4. ASSUME NEW c \in Caller, Send(c)
      PROVE  NothingLost'
  BY <1>4 DEF Send, flush, HandOver, Return, Leave
<1>5. ASSUME NEW c \in Caller, Defer(c)
      PROVE  NothingLost'
  BY <1>5 DEF Defer, shared, flush, ghost, Return, Leave
<1>6. ASSUME NEW c \in Caller, Abort(c)
      PROVE  NothingLost'
  BY <1>6 DEF Abort, shared, flush, ghost, Return, Leave
<1>7. ASSUME NEW g \in Gap, SetGap(g)
      PROVE  NothingLost'
  BY <1>7 DEF SetGap, mutex, flush, caller, ghost
<1>8. CASE Shutdown
  BY <1>8 DEF Shutdown, mutex, flush, caller, ghost
<1>9. CASE FlushReadGap
  BY <1>9 DEF FlushReadGap, shared, mutex, caller, ghost
<1>10. CASE FlushTooEarly
  BY <1>10 DEF FlushTooEarly, shared, mutex, caller, ghost
<1>11. CASE FlushDue
  BY <1>11 DEF FlushDue, shared, caller, ghost, Enqueue
<1>12. CASE FlushTake
  BY <1>12 DEF FlushTake, mutex, caller, HandOver
<1>13. CASE FlushNothing
  BY <1>13 DEF FlushNothing, shared, caller, ghost, Leave
<1>14. CASE FlushWake
  BY <1>14 DEF FlushWake, shared, caller, ghost, Leave
<1>15. CASE FlushLast
  BY <1>15 DEF FlushLast, shared, caller, ghost, Enqueue
<1>16. CASE FlushEnd
  BY <1>16 DEF FlushEnd, caller, HandOver, Leave
<1>17. CASE Tick
  BY <1>17 DEF Tick, mutex, Older
<1>18. CASE UNCHANGED vars
  BY <1>18 DEF vars, shared, mutex, flush, caller, ghost
<1>19. QED
  BY <1>1, <1>2, <1>3, <1>4, <1>5, <1>6, <1>7, <1>8, <1>9, <1>10, <1>11,
     <1>12, <1>13, <1>14, <1>15, <1>16, <1>17, <1>18
  DEF Next, Apply, Flush

\* At most one task holds the mutex.
LEMMA Exclusive ==
  ASSUME Mutex
  PROVE  /\ \A c, d \in Caller : cpc[c] = "stored" /\ cpc[d] = "stored" => c = d
         /\ \A c \in Caller : cpc[c] = "stored" => fpc # "hold" /\ ~Holds(Flusher)
BY CommandLayerAssumption DEF Mutex, Holds

\* Every step keeps a state for the caller that is about to hand it over.
LEMMA StoringStep ==
  ASSUME TypeOK, Mutex, Storing, [Next]_vars
  PROVE  Storing'
<1> USE CommandLayerAssumption DEF TypeOK, Storing
<1>1. ASSUME NEW c \in Caller, NEW s \in Wants[c], Call(c, s)
      PROVE  Storing'
  BY <1>1 DEF Call, shared, mutex, flush, ghost
<1>2. ASSUME NEW c \in Caller, ReadGap(c)
      PROVE  Storing'
  BY <1>2 DEF ReadGap, shared, flush, ghost, Enqueue
<1>3. ASSUME NEW c \in Caller, Store(c)
      PROVE  Storing'
  BY <1>3 DEF Store, mutex, flush
<1>4. ASSUME NEW c \in Caller, Send(c)
      PROVE  Storing'
  BY <1>4, Exclusive DEF Send, flush, HandOver, Return, Leave
<1>5. ASSUME NEW c \in Caller, Defer(c)
      PROVE  Storing'
  BY <1>5 DEF Defer, shared, flush, ghost, Return, Leave
<1>6. ASSUME NEW c \in Caller, Abort(c)
      PROVE  Storing'
  BY <1>6 DEF Abort, shared, flush, ghost, Return, Leave
<1>7. ASSUME NEW g \in Gap, SetGap(g)
      PROVE  Storing'
  BY <1>7 DEF SetGap, mutex, flush, caller, ghost
<1>8. CASE Shutdown
  BY <1>8 DEF Shutdown, mutex, flush, caller, ghost
<1>9. CASE FlushReadGap
  BY <1>9 DEF FlushReadGap, shared, mutex, caller, ghost
<1>10. CASE FlushTooEarly
  BY <1>10 DEF FlushTooEarly, shared, mutex, caller, ghost
<1>11. CASE FlushDue
  BY <1>11 DEF FlushDue, shared, caller, ghost, Enqueue
<1>12. CASE FlushTake
  BY <1>12, Exclusive DEF FlushTake, mutex, caller, HandOver
<1>13. CASE FlushNothing
  BY <1>13 DEF FlushNothing, shared, caller, ghost, Leave
<1>14. CASE FlushWake
  BY <1>14 DEF FlushWake, shared, caller, ghost, Leave
<1>15. CASE FlushLast
  BY <1>15 DEF FlushLast, shared, caller, ghost, Enqueue
<1>16. CASE FlushEnd
  BY <1>16, Exclusive DEF FlushEnd, caller, HandOver, Leave
<1>17. CASE Tick
  BY <1>17 DEF Tick, mutex, Older
<1>18. CASE UNCHANGED vars
  BY <1>18 DEF vars, shared, mutex, flush, caller, ghost
<1>19. QED
  BY <1>1, <1>2, <1>3, <1>4, <1>5, <1>6, <1>7, <1>8, <1>9, <1>10, <1>11,
     <1>12, <1>13, <1>14, <1>15, <1>16, <1>17, <1>18
  DEF Next, Apply, Flush

\* Every step keeps the order of the waiting tasks.
LEMMA MutexStep ==
  ASSUME TypeOK, Mutex, [Next]_vars
  PROVE  Mutex'
<1> USE CommandLayerAssumption DEF TypeOK, Mutex, Holds, Task
<1>1. ASSUME NEW c \in Caller, NEW s \in Wants[c], Call(c, s)
      PROVE  Mutex'
  BY <1>1 DEF Call, shared, mutex, flush, ghost
<1>2. ASSUME NEW c \in Caller, ReadGap(c)
      PROVE  Mutex'
  BY <1>2 DEF ReadGap, shared, flush, ghost, Enqueue
<1>3. ASSUME NEW c \in Caller, Store(c)
      PROVE  Mutex'
  BY <1>3 DEF Store, mutex, flush
<1>4. ASSUME NEW c \in Caller, Send(c)
      PROVE  Mutex'
  BY <1>4 DEF Send, flush, HandOver, Return, Leave
<1>5. ASSUME NEW c \in Caller, Defer(c)
      PROVE  Mutex'
  BY <1>5 DEF Defer, shared, flush, ghost, Return, Leave
<1>6. ASSUME NEW c \in Caller, Abort(c)
      PROVE  Mutex'
  BY <1>6 DEF Abort, shared, flush, ghost, Return, Leave
<1>7. ASSUME NEW g \in Gap, SetGap(g)
      PROVE  Mutex'
  BY <1>7 DEF SetGap, mutex, flush, caller, ghost
<1>8. CASE Shutdown
  BY <1>8 DEF Shutdown, mutex, flush, caller, ghost
<1>9. CASE FlushReadGap
  BY <1>9 DEF FlushReadGap, shared, mutex, caller, ghost
<1>10. CASE FlushTooEarly
  BY <1>10 DEF FlushTooEarly, shared, mutex, caller, ghost
<1>11. CASE FlushDue
  BY <1>11 DEF FlushDue, shared, caller, ghost, Enqueue
<1>12. CASE FlushTake
  BY <1>12 DEF FlushTake, mutex, caller, HandOver
<1>13. CASE FlushNothing
  BY <1>13 DEF FlushNothing, shared, caller, ghost, Leave
<1>14. CASE FlushWake
  BY <1>14 DEF FlushWake, shared, caller, ghost, Leave
<1>15. CASE FlushLast
  BY <1>15 DEF FlushLast, shared, caller, ghost, Enqueue
<1>16. CASE FlushEnd
  BY <1>16 DEF FlushEnd, caller, HandOver, Leave
<1>17. CASE Tick
  BY <1>17 DEF Tick, mutex, Older
<1>18. CASE UNCHANGED vars
  BY <1>18 DEF vars, shared, mutex, flush, caller, ghost
<1>19. QED
  BY <1>1, <1>2, <1>3, <1>4, <1>5, <1>6, <1>7, <1>8, <1>9, <1>10, <1>11,
     <1>12, <1>13, <1>14, <1>15, <1>16, <1>17, <1>18
  DEF Next, Apply, Flush

\* No caller hands over while the flush task sleeps with the mutex.
LEMMA SendKeepsGap ==
  ASSUME Mutex, Owing, NEW c \in Caller, Send(c)
  PROVE  fpc # "hold" /\ quiet >= owed
BY Exclusive DEF Send, Owing

\* Every step keeps the flush task to the gap it owes.
LEMMA OwingStep ==
  ASSUME TypeOK, Mutex, Owing, [Next]_vars
  PROVE  Owing'
<1> USE CommandLayerAssumption DEF TypeOK, Owing
<1>1. ASSUME NEW c \in Caller, NEW s \in Wants[c], Call(c, s)
      PROVE  Owing'
  BY <1>1 DEF Call, shared, mutex, flush, ghost
<1>2. ASSUME NEW c \in Caller, ReadGap(c)
      PROVE  Owing'
  BY <1>2 DEF ReadGap, shared, flush, ghost, Enqueue
<1>3. ASSUME NEW c \in Caller, Store(c)
      PROVE  Owing'
  BY <1>3 DEF Store, mutex, flush
<1>4. ASSUME NEW c \in Caller, Send(c)
      PROVE  Owing'
  BY <1>4, SendKeepsGap DEF Send, flush, HandOver, Return, Leave
<1>5. ASSUME NEW c \in Caller, Defer(c)
      PROVE  Owing'
  BY <1>5 DEF Defer, shared, flush, ghost, Return, Leave
<1>6. ASSUME NEW c \in Caller, Abort(c)
      PROVE  Owing'
  BY <1>6 DEF Abort, shared, flush, ghost, Return, Leave
<1>7. ASSUME NEW g \in Gap, SetGap(g)
      PROVE  Owing'
  BY <1>7 DEF SetGap, mutex, flush, caller, ghost
<1>8. CASE Shutdown
  BY <1>8 DEF Shutdown, mutex, flush, caller, ghost
<1>9. CASE FlushReadGap
  BY <1>9 DEF FlushReadGap, shared, mutex, caller, ghost
<1>10. CASE FlushTooEarly
  BY <1>10 DEF FlushTooEarly, shared, mutex, caller, ghost
<1>11. CASE FlushDue
  BY <1>11 DEF FlushDue, shared, caller, ghost, Enqueue
<1>12. CASE FlushTake
  BY <1>12 DEF FlushTake, mutex, caller, HandOver
<1>13. CASE FlushNothing
  BY <1>13 DEF FlushNothing, shared, caller, ghost, Leave
<1>14. CASE FlushWake
  BY <1>14 DEF FlushWake, shared, caller, ghost, Leave
<1>15. CASE FlushLast
  BY <1>15 DEF FlushLast, shared, caller, ghost, Enqueue
<1>16. CASE FlushEnd
  BY <1>16 DEF FlushEnd, caller, HandOver, Leave
<1>17. CASE Tick
  BY <1>17 DEF Tick, mutex, Older
<1>18. CASE UNCHANGED vars
  BY <1>18 DEF vars, shared, mutex, flush, caller, ghost
<1>19. QED
  BY <1>1, <1>2, <1>3, <1>4, <1>5, <1>6, <1>7, <1>8, <1>9, <1>10, <1>11,
     <1>12, <1>13, <1>14, <1>15, <1>16, <1>17, <1>18
  DEF Next, Apply, Flush

-----------------------------------------------------------------------------

LEMMA InitIInv == Init => IInv
<1> SUFFICES ASSUME Init PROVE IInv
  OBVIOUS
<1> USE CommandLayerAssumption DEF Init
<1>1. TypeOK
  <2>1. InitGap \in 0..Horizon /\ 0 \in 0..MaxGap /\ 0 \in 0..Horizon
    OBVIOUS
  <2>2. cpc \in [Caller -> {"idle", "called", "queued", "stored"}]
    OBVIOUS
  <2>3. QED
    BY <2>1, <2>2 DEF TypeOK, Task
<1>2. Storing /\ NothingLost /\ Owing
  BY DEF Storing, NothingLost, Owing
<1>3. Mutex
  BY DEF Mutex, Task
<1>4. QED
  BY <1>1, <1>2, <1>3 DEF IInv

LEMMA NextIInv == IInv /\ [Next]_vars => IInv'
BY TypeStep, StoringStep, NothingLostStep, MutexStep, OwingStep DEF IInv

\* Every reachable state satisfies the inductive invariant.
THEOREM Inductive == Spec => []IInv
BY InitIInv, NextIInv, PTL DEF Spec

\* Every variable keeps its type; no sleep is longer than the longest gap.
THEOREM TypeCorrect == Spec => []TypeOK
<1>1. IInv => TypeOK
  BY DEF IInv
<1>2. QED
  BY <1>1, Inductive, PTL

\* The newest state is pending or has been handed over, however callers, the
\* flush task, aborts and a shutdown interleave.
THEOREM NewestKept == Spec => []NothingLost
<1>1. IInv => NothingLost
  BY DEF IInv
<1>2. QED
  BY <1>1, Inductive, PTL

\* A hand-over by the flush task is followed by none within its gap.
THEOREM FlushGap == Spec => FlushKeepsGap
<1>1. ASSUME IInv, HandsOver PROVE quiet >= owed
  <2>1. ASSUME NEW c \in Caller, Send(c) PROVE quiet >= owed
    BY <1>1, <2>1, SendKeepsGap DEF IInv
  <2>2. CASE FlushTake
    BY <1>1, <2>2 DEF FlushTake, IInv, Owing
  <2>3. CASE FlushEnd
    BY <1>1, <2>3 DEF FlushEnd, IInv, Owing
  <2>4. QED
    BY <1>1, <2>1, <2>2, <2>3 DEF HandsOver
<1>2. IInv => [HandsOver => quiet >= owed]_vars
  BY <1>1
<1>3. QED
  BY <1>2, Inductive, PTL DEF FlushKeepsGap

\* A step of the layer is a Put, a Deliver or a stutter of LatestWins.
LEMMA AbstractStep ==
  ASSUME IInv, [Next]_vars
  PROVE  [Abstract!Next]_<<latest, handed>>
<1> USE DEF Abstract!Next, Abstract!Put, Abstract!Deliver
<1>1. ASSUME NEW c \in Caller, Store(c) PROVE Abstract!Put(want[c]) /\ want[c] \in State
  BY <1>1 DEF Store, IInv, Storing
<1>2. ASSUME HandOver, UNCHANGED latest, pending # None PROVE Abstract!Deliver
  BY <1>2 DEF HandOver, IInv, NothingLost
<1>3. ASSUME NEW c \in Caller, Send(c) PROVE Abstract!Deliver
  BY <1>2, <1>3 DEF Send, IInv, Storing
<1>4. CASE FlushTake
  BY <1>2, <1>4 DEF FlushTake
<1>5. CASE FlushEnd
  BY <1>2, <1>5 DEF FlushEnd
<1>6. CASE UNCHANGED <<latest, handed>>
  BY <1>6
<1>7. \/ \E c \in Caller : Store(c) \/ Send(c)
      \/ FlushTake \/ FlushEnd
      \/ UNCHANGED <<latest, handed>>
  BY DEF Next, Apply, Flush, Call, ReadGap, Defer, Abort, SetGap, Shutdown,
         FlushReadGap, FlushTooEarly, FlushDue, FlushNothing, FlushWake,
         FlushLast, Tick, vars, ghost
<1>8. QED
  BY <1>1, <1>3, <1>4, <1>5, <1>6, <1>7

\* The layer implements LatestWins: what Connection::set gets is always the
\* newest state, and never a state that another has superseded.
THEOREM Implements == Spec => DeliversLatest
<1>1. Init => Abstract!Init
  BY DEF Init, Abstract!Init
<1>2. IInv /\ [Next]_vars => [Abstract!Next]_<<latest, handed>>
  BY AbstractStep
<1>3. QED
  BY <1>1, <1>2, Inductive, PTL DEF Spec, DeliversLatest, Abstract!Spec

=============================================================================
