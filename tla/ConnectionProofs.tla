-------------------------- MODULE ConnectionProofs --------------------------
(***************************************************************************)
(* The safety of the connection state machine, for any levels, colours,    *)
(* channel capacity and numbers of rounds.  The inductive invariant is     *)
(* TypeOK with two parts: Phases says which phase of the loop may hold the *)
(* peripheral, the characteristic and the link, and StripTracks says what  *)
(* the strip shows while a job is being written.  What is wanted is        *)
(* followed from step to step: LastOfTail and LastAppended say what taking *)
(* and queueing a command do to it.                                        *)
(***************************************************************************)
EXTENDS Connection, QueueFacts

Phases ==
  /\ pc = "scan" => conn = "Scanning"
  /\ pc \in {"gatt", "poll", "finish", "replay"} => conn = "Connecting"
  /\ pc \in {"write", "failed", "idling", "stopping"} =>
       conn = "Connected" /\ peripheral
  /\ linked => \/ At("Connected")
               \/ pc \in {"poll", "finish", "replay", "write", "failed",
                          "idling", "stopping"}

StripTracks ==
  /\ pc = "replay" =>
       /\ job = last_state
       /\ last_state.power /\ last_state.brightness > 0 => doubt \subseteq todo
  /\ pc = "write" => todo \subseteq Delta(last_state, job)
  /\ pc = "replay" /\ linked =>
       \A f \in Field \ doubt : strip[f] = last_state[f]
  /\ pc = "write" /\ linked =>
       \A f \in Field \ doubt :
         strip[f] = IF f \in Delta(last_state, job) \ todo THEN job[f] ELSE last_state[f]

IInv == TypeOK /\ HandlesHeld /\ Phases /\ StripTracks /\ StripFollowsLastState

-----------------------------------------------------------------------------
(***************************************************************************)
(* The channel and the device states.                                      *)
(***************************************************************************)

\* DeviceState::default() is a state the strip can be asked for.
LEMMA DefaultIsState == DefaultState \in DeviceState
BY ConnectionAssumption DEF DefaultState, DeviceState

\* A write of one field leaves the strip in a possible state.
LEMMA LandedIsState ==
  ASSUME TypeOK, NEW f \in Field
  PROVE  Landed(f) \in DeviceState
BY DEF TypeOK, Landed, Field, DeviceState

\* A write that fails leaves the strip in a possible state too.
LEMMA UnsureIsState ==
  ASSUME TypeOK, WriteUnsure
  PROVE  strip' \in DeviceState
BY LandedIsState DEF TypeOK, WriteUnsure

\* A write changes the field it writes and no other.
LEMMA LandedFields ==
  ASSUME TypeOK, NEW f \in Field
  PROVE  /\ Landed(f)[f] = job[f]
         /\ \A g \in Field \ {f} : Landed(f)[g] = strip[g]
BY DEF TypeOK, Landed, Field, DeviceState

\* A write of write_delta that fails leaves the fields not attempted alone.
LEMMA UnsureFields ==
  ASSUME TypeOK, StripTracks, pc = "write", WriteUnsure
  PROVE  \A g \in Field : g \notin Attempted => strip'[g] = strip[g]
<1>1. PICK f \in todo : IsNext(f) /\ (strip' = strip \/ strip' = Landed(f))
  BY DEF WriteUnsure
<1>2. f \in Field /\ f \in Attempted
  BY <1>1 DEF TypeOK, StripTracks, Attempted
<1>3. QED
  BY <1>1, <1>2, LandedFields

\* write_delta writes fields of the state, and so does replay_state.
LEMMA DeltaIsFields ==
  /\ \A s, t : Delta(s, t) \subseteq Field
  /\ \A s : Replay(s) \subseteq Field
  /\ Attempted \subseteq Field
<1>1. \A s, t : Delta(s, t) \subseteq Field
  BY DEF Delta, Differ, Field
<1>2. QED
  BY <1>1 DEF Replay, Attempted

\* try_send keeps the channel within its capacity.
LEMMA Offered ==
  ASSUME TypeOK, NEW c \in Cmd, Offer(c)
  PROVE  cmds' \in Seq(Cmd) /\ Len(cmds') <= QueueCap
<1>1. CASE Len(cmds) < QueueCap /\ pc # "stopped"
  <2>1. cmds' = Append(cmds, c)
    BY <1>1 DEF Offer
  <2>2. Append(cmds, c) \in Seq(Cmd) /\ Len(Append(cmds, c)) = Len(cmds) + 1
    BY AppendProperties DEF TypeOK
  <2>3. QED
    BY <1>1, <2>1, <2>2, LenProperties, ConnectionAssumption DEF TypeOK
<1>2. CASE ~(Len(cmds) < QueueCap /\ pc # "stopped")
  BY <1>2 DEF Offer, TypeOK
<1>3. QED
  BY <1>1, <1>2

LEMMA StopOffered ==
  ASSUME TypeOK, Offer(Stop)
  PROVE  cmds' \in Seq(Cmd) /\ Len(cmds') <= QueueCap
BY Offered DEF Stop, Cmd

\* What recv() leaves in the channel.
LEMMA Received ==
  ASSUME TypeOK, cmds # <<>>
  PROVE  /\ Tail(cmds) \in Seq(Cmd) /\ Len(Tail(cmds)) <= QueueCap
         /\ Head(cmds).op = "apply" => Head(cmds).state \in DeviceState
<1>1. Head(cmds) \in Cmd /\ Tail(cmds) \in Seq(Cmd) /\ Len(Tail(cmds)) = Len(cmds) - 1
  BY HeadTailProperties DEF TypeOK
<1>2. Len(cmds) \in Nat
  BY LenProperties DEF TypeOK
<1>3. QED
  BY <1>1, <1>2, ConnectionAssumption DEF TypeOK, Cmd

LEMMA EndTaken ==
  ASSUME TypeOK, TakeEnd
  PROVE  cmds' \in Seq(Cmd) /\ Len(cmds') <= QueueCap
BY Received DEF TakeEnd, TypeOK

-----------------------------------------------------------------------------
(***************************************************************************)
(* The steps.                                                              *)
(***************************************************************************)

\* Every step keeps the types, the channel within its capacity.
LEMMA TypeStep ==
  ASSUME TypeOK, [Next]_vars
  PROVE  TypeOK'
<1> USE DEF TypeOK
<1>1. ASSUME NEW s \in DeviceState, Set(s) PROVE TypeOK'
  BY <1>1, Offered DEF Set, Apply, Cmd, fsm, light
<1>2. CASE Shutdown
  BY <1>2, StopOffered DEF Shutdown, fsm, light
<1>3. CASE DropHandles
  BY <1>3 DEF DropHandles, fsm, light
<1>4. CASE LinkLost
  BY <1>4 DEF LinkLost, fsm
<1>5. CASE PowerCycled
  BY <1>5 DEF PowerCycled, fsm
<1>6. CASE IdleApply
  <2>1. last_state' \in DeviceState /\ cmds' \in Seq(Cmd) /\ Len(cmds') <= QueueCap
    BY <1>6, Received DEF IdleApply
  <2>2. QED
    BY <1>6, <2>1 DEF IdleApply, light
<1>7. CASE IdleEnd
  BY <1>7, EndTaken DEF IdleEnd, light
<1>8. CASE ScanBegin
  BY <1>8 DEF ScanBegin, light, At
<1>9. CASE ScanNothing
  BY <1>9 DEF ScanNothing, light
<1>10. CASE ScanFound
  BY <1>10 DEF ScanFound, light
<1>11. CASE ScanGiveUp
  BY <1>11 DEF ScanGiveUp, light, ToIdle
<1>12. CASE ScanRetry
  BY <1>12 DEF ScanRetry, light
<1>13. CASE ScanError
  BY <1>13 DEF ScanError, light, ToIdle, At
<1>14. CASE GattBegin
  BY <1>14 DEF GattBegin, light, At
<1>15. CASE GattConnect
  BY <1>15 DEF GattConnect
<1>16. CASE GattReady
  BY <1>16 DEF GattReady, light
<1>17. CASE GattReset
  <2>1. rounds' \in Nat
    BY <1>17 DEF GattReset
  <2>2. QED
    BY <1>17, <2>1 DEF GattReset
<1>18. CASE GattGiveUp
  BY <1>18 DEF GattGiveUp, light, ToIdle
<1>19. CASE FinishNoChar
  BY <1>19 DEF FinishNoChar, ToIdle
<1>20. CASE FinishReplay
  BY <1>20, DeltaIsFields DEF FinishReplay, light
<1>21. CASE ReplayFailed
  BY <1>21, UnsureIsState, DefaultIsState DEF ReplayFailed, ToIdle, JobOver
<1>22. CASE ReplayDone
  BY <1>22, DefaultIsState DEF ReplayDone, light, JobOver
<1>23. CASE ConnectedApply
  BY <1>23, Received, DeltaIsFields DEF ConnectedApply, light
<1>24. CASE WriteAcked
  BY <1>24, LandedIsState DEF WriteAcked
<1>25. CASE WriteDone
  BY <1>25, DefaultIsState
  DEF WriteDone, light, JobOver, Differ
<1>26. CASE WriteTransient
  BY <1>26, UnsureIsState, DeltaIsFields, DefaultIsState DEF WriteTransient, JobOver
<1>27. CASE WriteFatal
  BY <1>27, UnsureIsState, DeltaIsFields, DefaultIsState DEF WriteFatal, JobOver
<1>28. CASE IdleTimeout
  BY <1>28 DEF IdleTimeout, light
<1>29. CASE ConnectedEnd
  BY <1>29, EndTaken DEF ConnectedEnd, light
<1>30. CASE DisconnectToIdle
  BY <1>30 DEF DisconnectToIdle, Disconnect, ToIdle
<1>31. CASE DisconnectToStop
  BY <1>31 DEF DisconnectToStop, Disconnect
<1>32. CASE UNCHANGED vars
  BY <1>32 DEF vars, fsm, light
<1>33. QED
  BY <1>1, <1>2, <1>3, <1>4, <1>5, <1>6, <1>7, <1>8, <1>9, <1>10, <1>11,
     <1>12, <1>13, <1>14, <1>15, <1>16, <1>17, <1>18, <1>19, <1>20, <1>21,
     <1>22, <1>23, <1>24, <1>25, <1>26, <1>27, <1>28, <1>29, <1>30, <1>31,
     <1>32
  DEF Next, Handles, World, Scan, Connect, Write, Run

\* Every step keeps the peripheral, the characteristic and the link to their phases.
LEMMA PhasesStep ==
  ASSUME HandlesHeld, Phases, [Next]_vars
  PROVE  (HandlesHeld /\ Phases)'
<1> USE DEF HandlesHeld, Phases, At
<1>1. ASSUME NEW s \in DeviceState, Set(s) PROVE (HandlesHeld /\ Phases)'
  BY <1>1 DEF Set, fsm, light
<1>2. CASE Shutdown
  BY <1>2 DEF Shutdown, fsm, light
<1>3. CASE DropHandles
  BY <1>3 DEF DropHandles, fsm, light
<1>4. CASE LinkLost
  BY <1>4 DEF LinkLost, fsm
<1>5. CASE PowerCycled
  BY <1>5 DEF PowerCycled, fsm
<1>6. CASE IdleApply
  BY <1>6 DEF IdleApply, light
<1>7. CASE IdleEnd
  BY <1>7 DEF IdleEnd, light
<1>8. CASE ScanBegin
  BY <1>8 DEF ScanBegin, light
<1>9. CASE ScanNothing
  BY <1>9 DEF ScanNothing, light
<1>10. CASE ScanFound
  BY <1>10 DEF ScanFound, light
<1>11. CASE ScanGiveUp
  BY <1>11 DEF ScanGiveUp, light, ToIdle
<1>12. CASE ScanRetry
  BY <1>12 DEF ScanRetry, light
<1>13. CASE ScanError
  BY <1>13 DEF ScanError, light, ToIdle
<1>14. CASE GattBegin
  BY <1>14 DEF GattBegin, light
<1>15. CASE GattConnect
  BY <1>15 DEF GattConnect
<1>16. CASE GattReady
  BY <1>16 DEF GattReady, light
<1>17. CASE GattReset
  BY <1>17 DEF GattReset
<1>18. CASE GattGiveUp
  BY <1>18 DEF GattGiveUp, light, ToIdle
<1>19. CASE FinishNoChar
  BY <1>19 DEF FinishNoChar, ToIdle
<1>20. CASE FinishReplay
  BY <1>20 DEF FinishReplay, light
<1>21. CASE ReplayFailed
  BY <1>21 DEF ReplayFailed, ToIdle
<1>22. CASE ReplayDone
  BY <1>22 DEF ReplayDone, light
<1>23. CASE ConnectedApply
  BY <1>23 DEF ConnectedApply, light
<1>24. CASE WriteAcked
  BY <1>24 DEF WriteAcked
<1>25. CASE WriteDone
  BY <1>25 DEF WriteDone, light
<1>26. CASE WriteTransient
  BY <1>26 DEF WriteTransient
<1>27. CASE WriteFatal
  BY <1>27 DEF WriteFatal
<1>28. CASE IdleTimeout
  BY <1>28 DEF IdleTimeout, light
<1>29. CASE ConnectedEnd
  BY <1>29 DEF ConnectedEnd, light
<1>30. CASE DisconnectToIdle
  BY <1>30 DEF DisconnectToIdle, Disconnect, ToIdle
<1>31. CASE DisconnectToStop
  BY <1>31 DEF DisconnectToStop, Disconnect
<1>32. CASE UNCHANGED vars
  BY <1>32 DEF vars, fsm, light
<1>33. QED
  BY <1>1, <1>2, <1>3, <1>4, <1>5, <1>6, <1>7, <1>8, <1>9, <1>10, <1>11,
     <1>12, <1>13, <1>14, <1>15, <1>16, <1>17, <1>18, <1>19, <1>20, <1>21,
     <1>22, <1>23, <1>24, <1>25, <1>26, <1>27, <1>28, <1>29, <1>30, <1>31,
     <1>32
  DEF Next, Handles, World, Scan, Connect, Write, Run

\* Every step keeps what is known of the strip.
LEMMA StripStep ==
  ASSUME TypeOK, Phases, StripTracks, StripFollowsLastState, [Next]_vars
  PROVE  (StripTracks /\ StripFollowsLastState)'
<1> USE DEF Phases, StripTracks, StripFollowsLastState, At
<1>1. ASSUME NEW s \in DeviceState, Set(s) PROVE (StripTracks /\ StripFollowsLastState)'
  BY <1>1 DEF Set, fsm, light
<1>2. CASE Shutdown
  BY <1>2 DEF Shutdown, fsm, light
<1>3. CASE DropHandles
  BY <1>3 DEF DropHandles, fsm, light
<1>4. CASE LinkLost
  BY <1>4 DEF LinkLost, fsm
<1>5. CASE PowerCycled
  BY <1>5 DEF PowerCycled, fsm
<1>6. CASE IdleApply
  BY <1>6 DEF IdleApply, light
<1>7. CASE IdleEnd
  BY <1>7 DEF IdleEnd, light
<1>8. CASE ScanBegin
  BY <1>8 DEF ScanBegin, light
<1>9. CASE ScanNothing
  BY <1>9 DEF ScanNothing, light
<1>10. CASE ScanFound
  BY <1>10 DEF ScanFound, light
<1>11. CASE ScanGiveUp
  BY <1>11 DEF ScanGiveUp, light, ToIdle
<1>12. CASE ScanRetry
  BY <1>12 DEF ScanRetry, light
<1>13. CASE ScanError
  BY <1>13 DEF ScanError, light, ToIdle
<1>14. CASE GattBegin
  BY <1>14 DEF GattBegin, light
<1>15. CASE GattConnect
  BY <1>15 DEF GattConnect
<1>16. CASE GattReady
  BY <1>16 DEF GattReady, light
<1>17. CASE GattReset
  BY <1>17 DEF GattReset
<1>18. CASE GattGiveUp
  BY <1>18 DEF GattGiveUp, light, ToIdle
<1>19. CASE FinishNoChar
  BY <1>19 DEF FinishNoChar, ToIdle
<1>20. CASE FinishReplay
  BY <1>20 DEF FinishReplay, Replay, light
<1>21. CASE ReplayFailed
  BY <1>21 DEF ReplayFailed, ToIdle
<1>22. CASE ReplayDone
  BY <1>22 DEF ReplayDone, light
<1>23. CASE ConnectedApply
  <2>1. /\ pc' = "write" /\ UNCHANGED <<last_state, linked, strip, doubt>>
        /\ todo' = Delta(last_state, job')
    BY <1>23 DEF ConnectedApply, light
  <2>2. Delta(last_state', job') = Delta(last_state, job')
    BY <2>1
  <2>3. At("Connected")
    BY <1>23 DEF ConnectedApply
  <2>4. QED
    BY <2>1, <2>2, <2>3
<1>24. CASE WriteAcked
  <2>1. PICK f \in todo : /\ strip' = IF linked THEN Landed(f) ELSE strip
                          /\ todo' = todo \ {f}
                          /\ doubt' = doubt \ {f}
    BY <1>24 DEF WriteAcked
  <2>2. f \in Field
    BY DEF TypeOK
  <2>3. linked => strip'[f] = job[f] /\ \A g \in Field \ {f} : strip'[g] = strip[g]
    BY <2>1, <2>2, LandedFields
  <2>4. UNCHANGED <<conn, last_state, pc, job, linked>> /\ pc # "loop"
    BY <1>24 DEF WriteAcked
  <2>5. QED
    BY <2>1, <2>2, <2>3, <2>4
<1>25. CASE WriteDone
  <2>1. /\ UNCHANGED <<conn, linked, strip>> /\ pc = "write" /\ pc' = "loop"
        /\ todo = {} /\ last_state' = job
        /\ doubt' = doubt \cup (Differ(last_state, job) \ Delta(last_state, job))
    BY <1>25 DEF WriteDone, light
  <2>2. ASSUME linked, NEW f \in Field, f \notin doubt'
        PROVE  strip[f] = job[f]
    <3>1. f \in Delta(last_state, job) \/ last_state[f] = job[f]
      BY <2>1, <2>2 DEF Differ
    <3>2. QED
      BY <2>1, <2>2, <3>1
  <2>3. QED
    BY <2>1, <2>2
<1>26. CASE WriteTransient
  <2>1. UNCHANGED <<conn, last_state, linked>> /\ pc = "write" /\ pc' = "loop"
    BY <1>26 DEF WriteTransient
  <2>2. \A f \in Field : f \notin Attempted => strip'[f] = strip[f]
    BY <1>26, UnsureFields DEF WriteTransient
  <2>3. doubt' = doubt \cup Attempted
    BY <1>26 DEF WriteTransient
  <2>4. QED
    BY <2>1, <2>2, <2>3 DEF Attempted
<1>27. CASE WriteFatal
  BY <1>27 DEF WriteFatal
<1>28. CASE IdleTimeout
  BY <1>28 DEF IdleTimeout, light
<1>29. CASE ConnectedEnd
  BY <1>29 DEF ConnectedEnd, light
<1>30. CASE DisconnectToIdle
  BY <1>30 DEF DisconnectToIdle, Disconnect, ToIdle
<1>31. CASE DisconnectToStop
  BY <1>31 DEF DisconnectToStop, Disconnect
<1>32. CASE UNCHANGED vars
  BY <1>32 DEF vars, fsm, light
<1>33. QED
  BY <1>1, <1>2, <1>3, <1>4, <1>5, <1>6, <1>7, <1>8, <1>9, <1>10, <1>11,
     <1>12, <1>13, <1>14, <1>15, <1>16, <1>17, <1>18, <1>19, <1>20, <1>21,
     <1>22, <1>23, <1>24, <1>25, <1>26, <1>27, <1>28, <1>29, <1>30, <1>31,
     <1>32
  DEF Next, Handles, World, Scan, Connect, Write, Run

-----------------------------------------------------------------------------
(***************************************************************************)
(* What is wanted.                                                         *)
(***************************************************************************)

\* Of a command to apply in a sequence there is a last one.
LEMMA LastApply ==
  ASSUME NEW q \in Seq(Cmd), Applies(q) # {}
  PROVE  \E i \in Applies(q) : \A j \in Applies(q) : j <= i
<1> DEFINE n == Len(q)
           T == {n - i : i \in Applies(q)}
<1>1. n \in Nat /\ Applies(q) \subseteq 1..n
  BY LenProperties DEF Applies
<1>2. T \in SUBSET Nat /\ T # {}
  BY <1>1
<1>3. Min(T) \in T /\ \A k \in T : Min(T) <= k
  BY <1>2, MinOf
<1>4. PICK i \in Applies(q) : Min(T) = n - i
  BY <1>3
<1>5. ASSUME NEW j \in Applies(q) PROVE j <= i
  <2>1. n - i <= n - j
    BY <1>3, <1>4
  <2> QED
    BY <1>1, <2>1
<1> QED
  BY <1>5

\* The one LastOf takes.
LEMMA LastIs ==
  ASSUME NEW q \in Seq(Cmd), NEW s, NEW i \in Applies(q), \A j \in Applies(q) : j <= i
  PROVE  LastOf(q, s) = q[i].state
<1>1. Applies(q) \subseteq Nat
  BY LenProperties DEF Applies
<1>2. ASSUME NEW k \in Applies(q), \A j \in Applies(q) : j <= k PROVE k = i
  BY <1>1, <1>2
<1> QED
  BY <1>2 DEF LastOf

\* A command to apply becomes the last one, a Stop changes nothing.
LEMMA LastAppended ==
  ASSUME NEW q \in Seq(Cmd), NEW c \in Cmd, NEW s
  PROVE  LastOf(Append(q, c), s) = IF c.op = "apply" THEN c.state ELSE LastOf(q, s)
<1> DEFINE r == Append(q, c)
           n == Len(q)
<1>1. /\ n \in Nat /\ r \in Seq(Cmd) /\ DOMAIN q = 1..n /\ DOMAIN r = 1..n + 1
      /\ r[n + 1] = c /\ \A i \in 1..n : r[i] = q[i]
  BY AppendTo, Indexed
<1> HIDE DEF n, r
<1>2. CASE c.op = "apply"
  <2>1. n + 1 \in Applies(r) /\ \A j \in Applies(r) : j <= n + 1
    BY <1>1, <1>2 DEF Applies
  <2>2. LastOf(r, s) = r[n + 1].state
    BY <1>1, <2>1, LastIs
  <2> QED
    BY <1>1, <1>2, <2>2 DEF r
<1>3. CASE c.op # "apply"
  <2>1. Applies(r) = Applies(q)
    BY <1>1, <1>3 DEF Applies
  <2>2. CASE Applies(q) = {}
    BY <1>3, <2>1, <2>2 DEF LastOf, r
  <2>3. CASE Applies(q) # {}
    <3>1. PICK i \in Applies(q) : \A j \in Applies(q) : j <= i
      BY <2>3, LastApply
    <3>2. LastOf(q, s) = q[i].state /\ LastOf(r, s) = r[i].state
      BY <1>1, <2>1, <3>1, LastIs
    <3>3. r[i] = q[i]
      BY <1>1 DEF Applies
    <3> QED
      BY <1>3, <3>2, <3>3 DEF r
  <2> QED
    BY <2>2, <2>3
<1> QED
  BY <1>2, <1>3

\* The first command counts when no other is left.
LEMMA LastOfTail ==
  ASSUME NEW q \in Seq(Cmd), q # <<>>, NEW s
  PROVE  LastOf(q, s) = LastOf(Tail(q), IF Head(q).op = "apply" THEN Head(q).state ELSE s)
<1> DEFINE r == Tail(q)
           n == Len(q)
           t == IF Head(q).op = "apply" THEN Head(q).state ELSE s
<1>1. /\ n \in Nat \ {0} /\ r \in Seq(Cmd) /\ DOMAIN q = 1..n /\ DOMAIN r = 1..n - 1
      /\ Head(q) = q[1] /\ \A i \in 1..n - 1 : r[i] = q[i + 1]
  BY TailOf, Indexed
<1> HIDE DEF n, r
<1>2. \A i \in Applies(q) : i = 1 \/ i - 1 \in Applies(r)
  BY <1>1 DEF Applies
<1>3. \A i \in Applies(r) : i + 1 \in Applies(q) /\ q[i + 1] = r[i] /\ i \in Nat \ {0}
  BY <1>1 DEF Applies
<1>4. CASE Applies(r) = {}
  <2>1. CASE Head(q).op = "apply"
    <3>1. 1 \in Applies(q) /\ \A j \in Applies(q) : j <= 1
      BY <1>1, <1>2, <1>4, <2>1 DEF Applies
    <3>2. LastOf(q, s) = q[1].state
      BY <3>1, LastIs
    <3> QED
      BY <1>1, <1>4, <2>1, <3>2 DEF LastOf, r
  <2>2. CASE Head(q).op # "apply"
    <3>1. Applies(q) = {}
      BY <1>1, <1>2, <1>4, <2>2 DEF Applies
    <3> QED
      BY <1>4, <2>2, <3>1 DEF LastOf, r
  <2> QED
    BY <2>1, <2>2
<1>5. CASE Applies(r) # {}
  <2>1. PICK i \in Applies(r) : \A j \in Applies(r) : j <= i
    BY <1>1, <1>5, LastApply
  <2>2. \A j \in Applies(q) : j <= i + 1
    <3>1. SUFFICES ASSUME NEW j \in Applies(q) PROVE j <= i + 1
      OBVIOUS
    <3>2. j \in Nat /\ i \in Nat \ {0} /\ (j = 1 \/ j - 1 <= i)
      BY <1>1, <1>2, <1>3, <2>1 DEF Applies
    <3> QED
      BY <3>2
  <2>3. i + 1 \in Applies(q) /\ q[i + 1] = r[i]
    BY <1>3
  <2>4. LastOf(q, s) = q[i + 1].state
    BY <2>2, <2>3, LastIs
  <2>5. LastOf(r, t) = r[i].state
    BY <1>1, <2>1, LastIs
  <2> QED
    BY <2>3, <2>4, <2>5 DEF r
<1> QED
  BY <1>4, <1>5

\* What a step may do to Wanted: the three cases of WantedKept.
KeepsWanted ==
  \/ Wanted' = Wanted
  \/ \E s \in DeviceState : Set(s) /\ Wanted' = s
  \/ pc = "write" /\ todo # {} /\ Wanted' = last_state

\* A step that takes no command and ends no write leaves Wanted alone.
LEMMA WantedAlone ==
  ASSUME UNCHANGED <<cmds, last_state>>,
         \/ pc # "write" /\ pc' # "write"
         \/ UNCHANGED <<pc, job>>
  PROVE  Wanted' = Wanted
BY DEF Wanted

\* Every step forgets what is wanted only as WantedKept allows.
LEMMA WantedStep ==
  ASSUME TypeOK, [Next]_vars
  PROVE  KeepsWanted
<1> DEFINE current == IF pc = "write" THEN job ELSE last_state
<1>0. cmds \in Seq(Cmd) /\ Wanted = LastOf(cmds, current)
  BY DEF TypeOK, Wanted
<1>1. ASSUME NEW s \in DeviceState, Set(s) PROVE KeepsWanted
  <2>1. Apply(s) \in Cmd /\ Apply(s).op = "apply" /\ Apply(s).state = s
    BY DEF Apply, Cmd
  <2>2. Wanted' = LastOf(cmds', current)
    BY <1>1 DEF Set, fsm, Wanted
  <2>3. CASE cmds' = Append(cmds, Apply(s))
    <3>1. Wanted' = s
      BY <1>0, <2>1, <2>2, <2>3, LastAppended
    <3> QED
      BY <1>1, <3>1 DEF KeepsWanted
  <2>4. CASE cmds' = cmds
    BY <1>0, <2>2, <2>4 DEF KeepsWanted
  <2> QED
    BY <1>1, <2>3, <2>4 DEF Set, Offer
<1>2. CASE Shutdown
  <2>1. Stop \in Cmd /\ Stop.op # "apply"
    BY DEF Stop, Cmd
  <2>2. Wanted' = LastOf(cmds', current)
    BY <1>2 DEF Shutdown, fsm, Wanted
  <2>3. LastOf(cmds', current) = LastOf(cmds, current)
    BY <1>0, <1>2, <2>1, LastAppended DEF Shutdown, Offer
  <2> QED
    BY <1>0, <2>2, <2>3 DEF KeepsWanted
<1>3. CASE DropHandles \/ World
  BY <1>3, WantedAlone DEF DropHandles, World, LinkLost, PowerCycled, fsm, KeepsWanted
<1>4. CASE IdleApply
  <2>1. /\ pc = "loop" /\ pc' = "loop" /\ cmds # <<>> /\ Head(cmds).op = "apply"
        /\ cmds' = Tail(cmds) /\ last_state' = Head(cmds).state
    BY <1>4 DEF IdleApply, At
  <2>2. LastOf(cmds, current) = LastOf(Tail(cmds), Head(cmds).state)
    BY <1>0, <2>1, LastOfTail
  <2> QED
    BY <1>0, <2>1, <2>2 DEF Wanted, KeepsWanted
<1>5. CASE IdleEnd \/ ConnectedEnd
  <2>1. /\ pc = "loop" /\ pc' # "write" /\ last_state' = last_state
        /\ Ended /\ TakeEnd
    BY <1>5 DEF IdleEnd, ConnectedEnd, At
  <2>2. LastOf(cmds', last_state) = LastOf(cmds, last_state)
    <3>1. CASE cmds = <<>>
      BY <2>1, <3>1 DEF TakeEnd
    <3>2. CASE cmds # <<>>
      <4>1. Head(cmds).op = "stop" /\ cmds' = Tail(cmds)
        BY <2>1, <3>2 DEF Ended, TakeEnd
      <4> QED
        BY <1>0, <3>2, <4>1, LastOfTail
    <3> QED
      BY <3>1, <3>2
  <2> QED
    BY <1>0, <2>1, <2>2 DEF Wanted, KeepsWanted
<1>6. CASE Scan
  BY <1>6, WantedAlone
  DEF Scan, ScanBegin, ScanNothing, ScanFound, ScanGiveUp, ScanRetry, ScanError,
      ToIdle, At, KeepsWanted
<1>7. CASE Connect
  BY <1>7, WantedAlone
  DEF Connect, GattBegin, GattConnect, GattReady, GattReset, GattGiveUp,
      FinishNoChar, FinishReplay, ReplayFailed, ReplayDone, ToIdle, At, KeepsWanted
<1>8. CASE ConnectedApply
  <2>1. /\ pc = "loop" /\ pc' = "write" /\ cmds # <<>> /\ Head(cmds).op = "apply"
        /\ cmds' = Tail(cmds) /\ job' = Head(cmds).state
    BY <1>8 DEF ConnectedApply, At
  <2>2. LastOf(cmds, current) = LastOf(Tail(cmds), Head(cmds).state)
    BY <1>0, <2>1, LastOfTail
  <2> QED
    BY <1>0, <2>1, <2>2 DEF Wanted, KeepsWanted
<1>9. CASE WriteAcked
  BY <1>9, WantedAlone DEF WriteAcked, KeepsWanted
<1>10. CASE WriteDone
  BY <1>10 DEF WriteDone, Wanted, KeepsWanted
<1>11. CASE WriteTransient \/ WriteFatal
  <2>1. /\ pc = "write" /\ pc' # "write" /\ todo # {}
        /\ UNCHANGED <<cmds, last_state>>
    BY <1>11 DEF WriteTransient, WriteFatal, WriteUnsure
  <2>2. Wanted' = LastOf(cmds, last_state) /\ Wanted = LastOf(cmds, job)
    BY <2>1 DEF Wanted
  <2> QED
    BY <2>1, <2>2 DEF LastOf, KeepsWanted
<1>12. CASE IdleTimeout \/ DisconnectToIdle \/ DisconnectToStop
  BY <1>12, WantedAlone
  DEF IdleTimeout, DisconnectToIdle, DisconnectToStop, ToIdle, At, KeepsWanted
<1>13. CASE UNCHANGED vars
  BY <1>13, WantedAlone DEF vars, fsm, KeepsWanted
<1> QED
  BY <1>1, <1>2, <1>3, <1>4, <1>5, <1>6, <1>7, <1>8, <1>9, <1>10, <1>11,
     <1>12, <1>13
  DEF Next, Handles, Write, Run

\* What a step that ends a connect leaves on the strip: the formula of ConnectShows.
ShowsOnConnect ==
  conn # "Connected" /\ conn' = "Connected" /\ linked
    /\ last_state.power /\ last_state.brightness > 0
  => strip' = last_state

\* Only the end of a replay makes the connection Connected, and only when all of
\* it was written.
LEMMA ConnectStep ==
  ASSUME TypeOK, StripTracks, [Next]_vars
  PROVE  ShowsOnConnect
<1> SUFFICES ASSUME conn # "Connected", conn' = "Connected", linked,
                    last_state.power, last_state.brightness > 0
             PROVE  strip' = last_state
  BY DEF ShowsOnConnect
<1>1. ReplayDone
  <2>1. ~Handles /\ ~World /\ ~UNCHANGED vars
    BY DEF Handles, Set, Shutdown, DropHandles, World, LinkLost, PowerCycled, vars, fsm
  <2>2. ~IdleApply /\ ~IdleEnd /\ ~IdleTimeout /\ ~ConnectedEnd
        /\ ~DisconnectToIdle /\ ~DisconnectToStop
    BY DEF IdleApply, IdleEnd, IdleTimeout, ConnectedEnd, DisconnectToIdle,
           DisconnectToStop, ToIdle
  <2>3. ~Scan
    BY DEF Scan, ScanBegin, ScanNothing, ScanFound, ScanGiveUp, ScanRetry, ScanError,
           ToIdle
  <2>4. ~Write
    BY DEF Write, ConnectedApply, WriteAcked, WriteDone, WriteTransient, WriteFatal
  <2>5. Connect
    BY <2>1, <2>2, <2>3, <2>4 DEF Next, Run
  <2> QED
    BY <2>5 DEF Connect, GattBegin, GattConnect, GattReady, GattReset, GattGiveUp,
                FinishNoChar, FinishReplay, ReplayFailed, ToIdle
<1>2. pc = "replay" /\ todo = {} /\ strip' = strip
  BY <1>1 DEF ReplayDone, light
<1>3. doubt = {}
  BY <1>2 DEF StripTracks
<1>4. \A f \in Field : strip[f] = last_state[f]
  BY <1>2, <1>3 DEF StripTracks
<1>5. strip \in DeviceState /\ last_state \in DeviceState
  BY DEF TypeOK
<1> QED
  BY <1>2, <1>4, <1>5 DEF DeviceState, Field

-----------------------------------------------------------------------------
(***************************************************************************)
(* The theorems.                                                           *)
(***************************************************************************)

LEMMA InitIInv == Init => IInv
<1> SUFFICES ASSUME Init PROVE IInv
  OBVIOUS
<1>1. TypeOK
  <2>1. cmds \in Seq(Cmd) /\ Len(cmds) <= QueueCap
    BY EmptySeq, ConnectionAssumption DEF Init
  <2>2. QED
    BY <2>1, DefaultIsState DEF Init, TypeOK
<1>2. HandlesHeld /\ Phases /\ StripTracks /\ StripFollowsLastState
  BY DEF Init, HandlesHeld, Phases, StripTracks, StripFollowsLastState, At
<1>3. QED
  BY <1>1, <1>2 DEF IInv

LEMMA NextIInv == IInv /\ [Next]_vars => IInv'
BY TypeStep, PhasesStep, StripStep DEF IInv

\* What the code can be in: every reachable state satisfies the inductive invariant.
THEOREM Inductive == Spec => []IInv
BY InitIInv, NextIInv, PTL DEF Spec

\* The channel never holds more than its capacity, and every variable keeps its type.
THEOREM TypeCorrect == Spec => []TypeOK
<1>1. IInv => TypeOK
  BY DEF IInv
<1>2. QED
  BY <1>1, Inductive, PTL

\* write_delta and replay_state always find their peripheral and characteristic.
THEOREM HandlesAlwaysHeld == Spec => []HandlesHeld
<1>1. IInv => HandlesHeld
  BY DEF IInv
<1>2. QED
  BY <1>1, Inductive, PTL

\* While Connected, the strip shows last_state in every field not in doubt.
THEOREM StripFollows == Spec => []StripFollowsLastState
<1>1. IInv => StripFollowsLastState
  BY DEF IInv
<1>2. QED
  BY <1>1, Inductive, PTL

\* A connect over a link that is up ends with the whole of last_state on the strip.
THEOREM ReplayIsWhole == Spec => ConnectShows
<1>1. IInv /\ [Next]_vars => ShowsOnConnect
  BY ConnectStep DEF IInv
<1>2. QED
  BY <1>1, Inductive, PTL DEF Spec, ConnectShows, ShowsOnConnect

\* A command accepted is never forgotten, nor overtaken by an older one.
THEOREM WantedIsKept == Spec => WantedKept
<1>1. IInv /\ [Next]_vars => KeepsWanted
  BY WantedStep DEF IInv
<1>2. QED
  BY <1>1, Inductive, PTL DEF Spec, WantedKept, KeepsWanted

\* When nothing is in doubt and nothing is waiting, the strip shows what is wanted.
Settled ==
  At("Connected") /\ linked /\ doubt = {} /\ Applies(cmds) = {} => strip = Wanted

\* What was asked for last reaches the strip: while Connected over a live link,
\* with no command waiting and no field in doubt, it is what the strip shows.
THEOREM WantedReachesStrip == Spec => []Settled
<1>1. IInv => Settled
  <2> SUFFICES ASSUME IInv, At("Connected"), linked, doubt = {}, Applies(cmds) = {}
               PROVE  strip = Wanted
    BY DEF Settled
  <2>1. \A f \in Field : strip[f] = last_state[f]
    BY DEF IInv, StripFollowsLastState
  <2>2. Wanted = last_state
    BY DEF Wanted, LastOf, At
  <2> QED
    BY <2>1, <2>2 DEF IInv, TypeOK, DeviceState, Field
<1>2. QED
  BY <1>1, Inductive, PTL
=============================================================================
