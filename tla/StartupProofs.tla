--------------------------- MODULE StartupProofs ---------------------------
(***************************************************************************)
(* Proofs about Startup, for any number of daemons, clients, permits and   *)
(* kills.                                                                  *)
(***************************************************************************)
EXTENDS Startup, FiniteSetTheorems, QueueFacts

USE StartupAssumption

\* A daemon has finitely many sessions, no more than permits.
Sized == \A d \in Daemon : IsFiniteSet(serving[d]) /\ Cardinality(serving[d]) <= Permits

\* A client that still polls has an attempt left.
PollsLeft == \A c \in Client : cpc[c] \in {"ensure", "poll"} => polls[c] # 0

\* A daemon about to remove a stale file is alone: no other listens, or has looked
\* at the file and not come to an end.
Unlinking ==
  ~contested =>
    \A d, e \in Daemon :
      dpc[d] = "unlink" /\ e # d => dpc[e] \in {"none", "start", "gone"}

\* The daemon a CLI process waits for is there, unless daemons are killed.
Attended ==
  ~contested /\ kills = 0 =>
    \A c \in Cli : cpc[c] = "asked" =>
      server[c] \in Daemon /\ dpc[server[c]] \in {"chmod", "serve"}

\* The UI alone keeps a connection open.
Roles == \A c \in Cli : cpc[c] \notin {"connect", "open"}

Typed == TypeOK /\ Sized /\ PollsLeft /\ Roles

IInv == Typed /\ Unlinking /\ ListenerReachable /\ Attended /\ CallsAnswered

-----------------------------------------------------------------------------
LEMMA InitIInv == Init => IInv
<1> SUFFICES ASSUME Init PROVE IInv
  OBVIOUS
<1> USE DEF Init
<1>1. IsFiniteSet({}) /\ Cardinality({}) = 0
  BY FS_EmptySet
<1>2. Sized
  BY <1>1 DEF Sized
<1>3. \A d \in Daemon : backlog[d] \in Seq(Client \cup {None})
  OBVIOUS
<1>4. TypeOK
  <2>1. serving \in [Daemon -> SUBSET Client] /\ backlog \in [Daemon -> Seq(Client \cup {None})]
    BY <1>3
  <2>2. \A d \in Daemon : Cardinality(serving[d]) <= Permits
    BY <1>2 DEF Sized
  <2>3. polls \in [Client -> 0..Polls] /\ kills \in 0..MaxKill
    OBVIOUS
  <2>4. /\ dpc \in [Daemon -> {"none"}] /\ file \in {None, Stale} /\ contested = FALSE
        /\ cpc \in [Client -> {"ensure"}] /\ server \in [Client -> Daemon \cup {None}]
    OBVIOUS
  <2> HIDE DEF Init
  <2> QED
    BY <2>1, <2>2, <2>3, <2>4 DEF TypeOK
<1>5. PollsLeft /\ Roles /\ Unlinking /\ ListenerReachable /\ Attended /\ CallsAnswered
  BY DEF PollsLeft, Roles, Unlinking, ListenerReachable, Attended, CallsAnswered, Client
<1> QED
  BY <1>2, <1>4, <1>5 DEF IInv, Typed

LEMMA SizedStep == TypeOK /\ Sized /\ [Next]_vars => Sized'
<1> SUFFICES ASSUME TypeOK, Sized, [Next]_vars PROVE Sized'
  OBVIOUS
<1> USE DEF Sized, TypeOK, sockets, clients
<1>1. ASSUME NEW d \in Daemon, Restore(d) PROVE Sized'
  BY <1>1 DEF Restore, Goto
<1>2. ASSUME NEW d \in Daemon, NoAdapter(d) PROVE Sized'
  BY <1>2 DEF NoAdapter, Goto
<1>3. ASSUME NEW d \in Daemon, Exists(d) PROVE Sized'
  BY <1>3 DEF Exists, Goto
<1>4. ASSUME NEW d \in Daemon, Probe(d) PROVE Sized'
  BY <1>4 DEF Probe, Knock, Refused, Goto
<1>5. ASSUME NEW d \in Daemon, Unlink(d) PROVE Sized'
  BY <1>5 DEF Unlink, Goto
<1>6. ASSUME NEW d \in Daemon, Bind(d) PROVE Sized'
  BY <1>6 DEF Bind, Goto
<1>7. ASSUME NEW d \in Daemon, Listen(d) PROVE Sized'
  BY <1>7 DEF Listen, Goto
<1>8. ASSUME NEW d \in Daemon, Chmod(d) PROVE Sized'
  BY <1>8 DEF Chmod, Goto
<1>9. ASSUME NEW d \in Daemon, Accept(d) PROVE Sized'
  <2> DEFINE x == Head(backlog[d])
  <2>1. CASE x = None
    <3>1. serving' = serving
      BY <1>9, <2>1 DEF Accept
    <3> QED
      BY <3>1
  <2>2. CASE x # None
    <3>1. serving' = [serving EXCEPT ![d] = @ \cup {x}]
      BY <1>9, <2>2 DEF Accept
    <3>2. IsFiniteSet(serving[d] \cup {x}) /\ Cardinality(serving[d] \cup {x}) <= Permits
      <4> HIDE DEF x
      <4>1. Cardinality(serving[d]) \in Nat /\ Cardinality(serving[d]) < Permits
        BY <1>9, FS_CardinalityType DEF Accept
      <4> QED
        <5>1. Cardinality(serving[d] \cup {x}) = IF x \in serving[d] THEN Cardinality(serving[d])
                                                   ELSE Cardinality(serving[d]) + 1
          BY FS_AddElement
        <5>2. IsFiniteSet(serving[d] \cup {x})
          BY FS_AddElement
        <5> QED
          BY <4>1, <5>1, <5>2
    <3> QED
      BY <3>1, <3>2
  <2> QED
    BY <2>1, <2>2
<1>10. ASSUME NEW d \in Daemon, NEW c \in Cli, Answer(d, c) PROVE Sized'
  <2>1. IsFiniteSet(serving[d] \ {c}) /\ Cardinality(serving[d] \ {c}) <= Cardinality(serving[d])
    BY FS_Subset
  <2>2. Cardinality(serving[d]) \in Nat /\ Cardinality(serving[d] \ {c}) \in Nat
    BY <2>1, FS_CardinalityType
  <2> QED
    BY <1>10, <2>1, <2>2 DEF Answer
<1>11. ASSUME NEW d \in Daemon, Kill(d) PROVE Sized'
  BY <1>11, FS_EmptySet DEF Kill
<1>12. ASSUME NEW c \in Client, Ensure(c) PROVE Sized'
  BY <1>12 DEF Ensure, Reached, Knock, Step
<1>13. ASSUME NEW c \in Client, Spawn(c) PROVE Sized'
  BY <1>13 DEF Spawn, Step, Goto, Refused
<1>14. ASSUME NEW c \in Client, UiWaits(c) PROVE Sized'
  BY <1>14 DEF UiWaits, Refused, Step
<1>15. ASSUME NEW c \in Client, Poll(c) PROVE Sized'
  BY <1>15 DEF Poll, Reached, Knock, Refused, Step
<1>16. ASSUME NEW c \in Client, Reconnect(c) PROVE Sized'
  BY <1>16 DEF Reconnect, Knock, Step
<1>17. ASSUME NEW c \in Client, Lost(c) PROVE Sized'
  BY <1>17 DEF Lost, Step
<1>18. CASE UNCHANGED vars
  BY <1>18 DEF vars
<1> QED
  BY <1>1, <1>2, <1>3, <1>4, <1>5, <1>6, <1>7, <1>8, <1>9,
     <1>10, <1>11, <1>12, <1>13, <1>14, <1>15, <1>16, <1>17, <1>18
     DEF Next, Run, Start, Go

\* The queues of connections keep their type.
Queued == backlog \in [Daemon -> Seq(Client \cup {None})]

LEMMA QueuedStep == Typed /\ [Next]_vars => Queued'
<1> SUFFICES ASSUME Typed, [Next]_vars PROVE Queued'
  OBVIOUS
<1> DEFINE X == Client \cup {None}
<1>k. ASSUME NEW x \in X, Knock(x) PROVE Queued'
  <2>1. file \in Daemon /\ backlog[file] \in Seq(X)
    BY <1>k DEF Knock, Listening, Typed, TypeOK
  <2>2. Append(backlog[file], x) \in Seq(X)
    BY <2>1
  <2> QED
    BY <1>k, <2>1, <2>2 DEF Knock, Queued, Typed, TypeOK
<1>e. <<>> \in Seq(X)
  OBVIOUS
<1> USE DEF Typed, TypeOK, Queued, Client, sockets, clients
<1>1. ASSUME NEW d \in Daemon, Restore(d) PROVE Queued'
  BY <1>1 DEF Restore, Goto
<1>2. ASSUME NEW d \in Daemon, NoAdapter(d) PROVE Queued'
  BY <1>2 DEF NoAdapter, Goto
<1>3. ASSUME NEW d \in Daemon, Exists(d) PROVE Queued'
  BY <1>3 DEF Exists, Goto
<1>4. ASSUME NEW d \in Daemon, Probe(d) PROVE Queued'
  BY <1>4, <1>k DEF Probe, Goto
<1>5. ASSUME NEW d \in Daemon, Unlink(d) PROVE Queued'
  BY <1>5 DEF Unlink, Goto
<1>6. ASSUME NEW d \in Daemon, Bind(d) PROVE Queued'
  BY <1>6 DEF Bind, Goto
<1>7. ASSUME NEW d \in Daemon, Listen(d) PROVE Queued'
  BY <1>7 DEF Listen, Goto
<1>8. ASSUME NEW d \in Daemon, Chmod(d) PROVE Queued'
  BY <1>8, <1>e DEF Chmod, Goto
<1>9. ASSUME NEW d \in Daemon, Accept(d) PROVE Queued'
  <2>1. backlog[d] \in Seq(X) /\ backlog[d] # <<>>
    BY <1>9 DEF Accept
  <2>2. Tail(backlog[d]) \in Seq(X)
    BY <2>1
  <2> QED
    BY <1>9, <2>2 DEF Accept
<1>10. ASSUME NEW d \in Daemon, NEW c \in Cli, Answer(d, c) PROVE Queued'
  BY <1>10 DEF Answer
<1>11. ASSUME NEW d \in Daemon, Kill(d) PROVE Queued'
  BY <1>11, <1>e DEF Kill, Goto
<1>12. ASSUME NEW c \in Client, Ensure(c) PROVE Queued'
  BY <1>12, <1>k DEF Ensure, Reached
<1>13. ASSUME NEW c \in Client, Spawn(c) PROVE Queued'
  BY <1>13 DEF Spawn, Step, Goto, Refused
<1>14. ASSUME NEW c \in Client, UiWaits(c) PROVE Queued'
  BY <1>14 DEF UiWaits, Refused, Step
<1>15. ASSUME NEW c \in Client, Poll(c) PROVE Queued'
  BY <1>15, <1>k DEF Poll, Reached
<1>16. ASSUME NEW c \in Client, Reconnect(c) PROVE Queued'
  BY <1>16, <1>k DEF Reconnect
<1>17. ASSUME NEW c \in Client, Lost(c) PROVE Queued'
  BY <1>17 DEF Lost, Step
<1>18. CASE UNCHANGED vars
  BY <1>18 DEF vars
<1> QED
  BY <1>1, <1>2, <1>3, <1>4, <1>5, <1>6, <1>7, <1>8, <1>9,
     <1>10, <1>11, <1>12, <1>13, <1>14, <1>15, <1>16, <1>17, <1>18
     DEF Next, Run, Start, Go

LEMMA TypedStep == Typed /\ [Next]_vars => Typed'
<1> SUFFICES ASSUME Typed, [Next]_vars PROVE Typed'
  OBVIOUS
<1>0. Sized'
  BY SizedStep DEF Typed
<1>q. Queued'
  BY QueuedStep
<1> USE <1>0, <1>q DEF Queued, Typed, TypeOK, PollsLeft, Roles, Client, sockets, clients
<1>1. ASSUME NEW d \in Daemon, Restore(d) PROVE Typed'
  BY <1>1 DEF Restore, Goto, Sized, Listening
<1>2. ASSUME NEW d \in Daemon, NoAdapter(d) PROVE Typed'
  BY <1>2 DEF NoAdapter, Goto, Sized, Listening
<1>3. ASSUME NEW d \in Daemon, Exists(d) PROVE Typed'
  BY <1>3 DEF Exists, Goto, Sized, Listening
<1>4. ASSUME NEW d \in Daemon, Probe(d) PROVE Typed'
  BY <1>4 DEF Probe, Knock, Refused, Goto, Sized, Listening
<1>5. ASSUME NEW d \in Daemon, Unlink(d) PROVE Typed'
  BY <1>5 DEF Unlink, Goto, Sized, Listening
<1>6. ASSUME NEW d \in Daemon, Bind(d) PROVE Typed'
  BY <1>6 DEF Bind, Goto, Sized, Listening
<1>7. ASSUME NEW d \in Daemon, Listen(d) PROVE Typed'
  BY <1>7 DEF Listen, Goto, Sized, Listening
<1>8. ASSUME NEW d \in Daemon, Chmod(d) PROVE Typed'
  BY <1>8 DEF Chmod, Goto, Sized, Listening
<1>9. ASSUME NEW d \in Daemon, Accept(d) PROVE Typed'
  <2>1. Head(backlog[d]) \in Client \cup {None}
    BY <1>9 DEF Accept
  <2>2. serving' \in [Daemon -> SUBSET Client]
    BY <1>9, <2>1 DEF Accept
  <2> QED
    BY <1>9, <2>2 DEF Accept, Sized
<1>10. ASSUME NEW d \in Daemon, NEW c \in Cli, Answer(d, c) PROVE Typed'
  BY <1>10 DEF Answer, Sized
<1>11. ASSUME NEW d \in Daemon, Kill(d) PROVE Typed'
  BY <1>11 DEF Kill, Goto, Sized
<1>12. ASSUME NEW c \in Client, Ensure(c) PROVE Typed'
  BY <1>12 DEF Ensure, Reached, Knock, Step, Sized, Listening
<1>13. ASSUME NEW c \in Client, Spawn(c) PROVE Typed'
  BY <1>13 DEF Spawn, Step, Goto, Refused, Sized, Listening
<1>14. ASSUME NEW c \in Client, UiWaits(c) PROVE Typed'
  BY <1>14 DEF UiWaits, Refused, Step, Sized, Listening
<1>15. ASSUME NEW c \in Client, Poll(c) PROVE Typed'
  <2>1. CASE Reached(c) /\ UNCHANGED polls
    <3>1. UNCHANGED <<dpc, file, serving, polls, kills, contested>> /\ file \in Daemon
      BY <1>15, <2>1 DEF Poll, Reached, Knock, Listening
    <3>2. CASE c \in Cli
      <4>1. cpc' = [cpc EXCEPT ![c] = "asked"] /\ server' = [server EXCEPT ![c] = file]
        BY <2>1, <3>2 DEF Reached, Step
      <4> QED
        BY <3>1, <4>1
    <3>3. CASE c \notin Cli
      <4>1. cpc' = [cpc EXCEPT ![c] = "connect"] /\ server' = server
        BY <2>1, <3>3 DEF Reached, Step
      <4> QED
        BY <3>1, <3>3, <4>1
    <3> QED
      BY <3>2, <3>3
  <2>2. CASE Refused /\ polls' = [polls EXCEPT ![c] = @ - 1] /\ UNCHANGED <<backlog, server>>
    <3>1. polls' \in [Client -> 0..Polls]
      BY <1>15, <2>2 DEF Poll
    <3>2. CASE polls[c] = 1
      <4>1. cpc' = [cpc EXCEPT ![c] = "failed"]
        BY <1>15, <2>2, <3>2 DEF Poll, Step
      <4>2. PollsLeft' /\ Roles'
        BY <2>2, <4>1
      <4>3. TypeOK'
        BY <1>15, <2>2, <3>1, <4>1 DEF Poll, Sized
      <4> QED
        BY <4>2, <4>3
    <3>3. CASE polls[c] # 1
      BY <1>15, <2>2, <3>1, <3>3 DEF Poll, Step, Sized
    <3> QED
      BY <3>2, <3>3
  <2> QED
    BY <1>15, <2>1, <2>2 DEF Poll
<1>16. ASSUME NEW c \in Client, Reconnect(c) PROVE Typed'
  BY <1>16 DEF Reconnect, Knock, Step, Sized, Listening
<1>17. ASSUME NEW c \in Client, Lost(c) PROVE Typed'
  BY <1>17 DEF Lost, Step, Sized, Listening
<1>18. CASE UNCHANGED vars
  BY <1>18 DEF vars, Sized
<1> QED
  BY <1>1, <1>2, <1>3, <1>4, <1>5, <1>6, <1>7, <1>8, <1>9,
     <1>10, <1>11, <1>12, <1>13, <1>14, <1>15, <1>16, <1>17, <1>18
     DEF Next, Run, Start, Go

LEMMA ReachStep == IInv /\ [Next]_vars => Unlinking' /\ ListenerReachable'
<1> SUFFICES ASSUME IInv, [Next]_vars PROVE Unlinking' /\ ListenerReachable'
  OBVIOUS
<1> USE DEF IInv, Typed, TypeOK, Unlinking, ListenerReachable, Listening, Taking, sockets,
   clients
<1>1. ASSUME NEW d \in Daemon, Restore(d) PROVE Unlinking' /\ ListenerReachable'
  BY <1>1 DEF Restore, Goto
<1>2. ASSUME NEW d \in Daemon, NoAdapter(d) PROVE Unlinking' /\ ListenerReachable'
  BY <1>2 DEF NoAdapter, Goto
<1>3. ASSUME NEW d \in Daemon, Exists(d) PROVE Unlinking' /\ ListenerReachable'
  BY <1>3 DEF Exists, Goto
<1>4. ASSUME NEW d \in Daemon, Probe(d) PROVE Unlinking' /\ ListenerReachable'
  <2>1. CASE Knock(None) /\ Goto(d, "gone")
    BY <1>4, <2>1 DEF Probe, Knock, Goto
  <2>2. CASE Refused /\ Goto(d, "unlink") /\ ~contested'
    <3>1. \A e \in Daemon : e # d => e \notin Taking
      BY <1>4, <2>2 DEF Probe
    <3>2. \A e \in Daemon : dpc[e] # "serve"
      BY <1>4, <2>2 DEF Probe, Refused
    <3>3. \A e \in Daemon : e # d => dpc[e] \in {"none", "start", "gone"}
      BY <3>1, <3>2
    <3> QED
      BY <1>4, <2>2, <3>3 DEF Probe, Goto
  <2> QED
    BY <1>4, <2>1, <2>2 DEF Probe
<1>5. ASSUME NEW d \in Daemon, Unlink(d) PROVE Unlinking' /\ ListenerReachable'
  <2> SUFFICES ASSUME ~contested PROVE Unlinking' /\ ListenerReachable'
    BY <1>5 DEF Unlink
  <2>1. \A e \in Daemon : e # d => dpc'[e] \in {"none", "start", "gone"}
    BY <1>5 DEF Unlink, Goto
  <2>2. dpc'[d] \in {"gone", "bind"}
    BY <1>5 DEF Unlink, Goto
  <2> QED
    BY <2>1, <2>2
<1>6. ASSUME NEW d \in Daemon, Bind(d) PROVE Unlinking' /\ ListenerReachable'
  BY <1>6 DEF Bind, Goto
<1>7. ASSUME NEW d \in Daemon, Listen(d) PROVE Unlinking' /\ ListenerReachable'
  BY <1>7 DEF Listen, Goto
<1>8. ASSUME NEW d \in Daemon, Chmod(d) PROVE Unlinking' /\ ListenerReachable'
  BY <1>8 DEF Chmod, Goto
<1>9. ASSUME NEW d \in Daemon, Accept(d) PROVE Unlinking' /\ ListenerReachable'
  BY <1>9 DEF Accept
<1>10. ASSUME NEW d \in Daemon, NEW c \in Cli, Answer(d,
   c) PROVE Unlinking' /\ ListenerReachable'
  BY <1>10 DEF Answer
<1>11. ASSUME NEW d \in Daemon, Kill(d) PROVE Unlinking' /\ ListenerReachable'
  BY <1>11 DEF Kill, Goto
<1>12. ASSUME NEW c \in Client, Ensure(c) PROVE Unlinking' /\ ListenerReachable'
  BY <1>12 DEF Ensure, Reached, Knock, Step
<1>13. ASSUME NEW c \in Client, Spawn(c) PROVE Unlinking' /\ ListenerReachable'
  BY <1>13 DEF Spawn, Step, Goto, Refused
<1>14. ASSUME NEW c \in Client, UiWaits(c) PROVE Unlinking' /\ ListenerReachable'
  BY <1>14 DEF UiWaits, Refused, Step
<1>15. ASSUME NEW c \in Client, Poll(c) PROVE Unlinking' /\ ListenerReachable'
  BY <1>15 DEF Poll, Reached, Knock, Refused, Step
<1>16. ASSUME NEW c \in Client, Reconnect(c) PROVE Unlinking' /\ ListenerReachable'
  BY <1>16 DEF Reconnect, Knock, Step
<1>17. ASSUME NEW c \in Client, Lost(c) PROVE Unlinking' /\ ListenerReachable'
  BY <1>17 DEF Lost, Step
<1>18. CASE UNCHANGED vars
  BY <1>18 DEF vars
<1> QED
  BY <1>1, <1>2, <1>3, <1>4, <1>5, <1>6, <1>7, <1>8, <1>9,
     <1>10, <1>11, <1>12, <1>13, <1>14, <1>15, <1>16, <1>17, <1>18
     DEF Next, Run, Start, Go

LEMMA CallsStep == IInv /\ [Next]_vars => Attended' /\ CallsAnswered'
<1> SUFFICES ASSUME IInv, [Next]_vars PROVE Attended' /\ CallsAnswered'
  OBVIOUS
<1> USE DEF IInv, Typed, TypeOK, ListenerReachable, Attended, CallsAnswered, PollsLeft, Roles,
            Client, Listening, sockets, clients
<1>1. ASSUME NEW d \in Daemon, Restore(d) PROVE Attended' /\ CallsAnswered'
  BY <1>1 DEF Restore, Goto
<1>2. ASSUME NEW d \in Daemon, NoAdapter(d) PROVE Attended' /\ CallsAnswered'
  BY <1>2 DEF NoAdapter, Goto
<1>3. ASSUME NEW d \in Daemon, Exists(d) PROVE Attended' /\ CallsAnswered'
  BY <1>3 DEF Exists, Goto
<1>4. ASSUME NEW d \in Daemon, Probe(d) PROVE Attended' /\ CallsAnswered'
  <2>1. dpc[d] = "probe"
    BY <1>4 DEF Probe
  <2>2. \A e \in Daemon : dpc[e] \in {"chmod", "serve"} => dpc'[e] = dpc[e]
    BY <1>4, <2>1 DEF Probe, Goto
  <2>3. (contested => contested') /\ UNCHANGED <<cpc, server, polls, kills>>
    BY <1>4 DEF Probe
  <2>4. Attended'
    BY <2>2, <2>3
  <2>5. CallsAnswered'
    BY <2>3
  <2> QED
    BY <2>4, <2>5
<1>5. ASSUME NEW d \in Daemon, Unlink(d) PROVE Attended' /\ CallsAnswered'
  BY <1>5 DEF Unlink, Goto
<1>6. ASSUME NEW d \in Daemon, Bind(d) PROVE Attended' /\ CallsAnswered'
  BY <1>6 DEF Bind, Goto
<1>7. ASSUME NEW d \in Daemon, Listen(d) PROVE Attended' /\ CallsAnswered'
  BY <1>7 DEF Listen, Goto
<1>8. ASSUME NEW d \in Daemon, Chmod(d) PROVE Attended' /\ CallsAnswered'
  <2>1. \A e \in Daemon : e # d => dpc'[e] = dpc[e]
    BY <1>8 DEF Chmod, Goto
  <2>2. ~contested => dpc'[d] = "serve"
    BY <1>8 DEF Chmod, Goto
  <2>3. UNCHANGED <<contested, cpc, server, polls, kills>>
    BY <1>8 DEF Chmod
  <2>4. Attended'
    BY <2>1, <2>2, <2>3
  <2>5. CallsAnswered'
    BY <2>3
  <2> QED
    BY <2>4, <2>5
<1>9. ASSUME NEW d \in Daemon, Accept(d) PROVE Attended' /\ CallsAnswered'
  BY <1>9 DEF Accept
<1>10. ASSUME NEW d \in Daemon, NEW c \in Cli, Answer(d, c) PROVE Attended' /\ CallsAnswered'
  BY <1>10 DEF Answer
<1>11. ASSUME NEW d \in Daemon, Kill(d) PROVE Attended' /\ CallsAnswered'
  BY <1>11 DEF Kill, Goto
<1>12. ASSUME NEW c \in Client, Ensure(c) PROVE Attended' /\ CallsAnswered'
  BY <1>12 DEF Ensure, Reached, Knock, Step
<1>13. ASSUME NEW c \in Client, Spawn(c) PROVE Attended' /\ CallsAnswered'
  BY <1>13 DEF Spawn, Step, Goto, Refused
<1>14. ASSUME NEW c \in Client, UiWaits(c) PROVE Attended' /\ CallsAnswered'
  BY <1>14 DEF UiWaits, Refused, Step
<1>15. ASSUME NEW c \in Client, Poll(c) PROVE Attended' /\ CallsAnswered'
  <2>1. CASE Reached(c) /\ UNCHANGED polls
    <3>1. UNCHANGED <<dpc, file, serving, polls, kills, contested>> /\ file \in Listening
      BY <1>15, <2>1 DEF Poll, Reached, Knock
    <3>2. CASE c \in Cli
      <4>1. cpc' = [cpc EXCEPT ![c] = "asked"] /\ server' = [server EXCEPT ![c] = file]
        BY <2>1, <3>2 DEF Reached, Step
      <4> QED
        BY <3>1, <4>1
    <3>3. CASE c \notin Cli
      <4>1. cpc' = [cpc EXCEPT ![c] = "connect"] /\ server' = server
        BY <2>1, <3>3 DEF Reached, Step
      <4> QED
        BY <3>1, <3>3, <4>1
    <3> QED
      BY <3>2, <3>3
  <2>2. CASE Refused /\ polls' = [polls EXCEPT ![c] = @ - 1] /\ UNCHANGED <<backlog, server>>
    <3>1. CASE polls[c] = 1
      BY <1>15, <2>2, <3>1 DEF Poll, Step
    <3>2. CASE polls[c] # 1
      <4>1. cpc' = cpc /\ cpc[c] = "poll"
        BY <1>15, <2>2, <3>2 DEF Poll
      <4> QED
        BY <1>15, <2>2, <4>1 DEF Poll
    <3> QED
      BY <3>1, <3>2
  <2> QED
    BY <1>15, <2>1, <2>2 DEF Poll
<1>16. ASSUME NEW c \in Client, Reconnect(c) PROVE Attended' /\ CallsAnswered'
  BY <1>16 DEF Reconnect, Knock, Step
<1>17. ASSUME NEW c \in Client, Lost(c) PROVE Attended' /\ CallsAnswered'
  BY <1>17 DEF Lost, Step
<1>18. CASE UNCHANGED vars
  BY <1>18 DEF vars
<1> QED
  BY <1>1, <1>2, <1>3, <1>4, <1>5, <1>6, <1>7, <1>8, <1>9,
     <1>10, <1>11, <1>12, <1>13, <1>14, <1>15, <1>16, <1>17, <1>18
     DEF Next, Run, Start, Go

LEMMA Inductive == Spec => []IInv
<1>1. Init => IInv
  BY InitIInv
<1>2. IInv /\ [Next]_vars => IInv'
  BY TypedStep, ReachStep, CallsStep DEF IInv
<1> QED
  BY <1>1, <1>2, PTL DEF Spec

\* Every variable keeps its type, and no daemon has more sessions than permits,
\* for any number of daemons and clients.
THEOREM TypeCorrect == Spec => []TypeOK
  BY Inductive, PTL DEF IInv, Typed

\* Unless a daemon found a stale file while another was starting, whoever listens
\* is who the socket file leads to.
THEOREM ReachableListener == Spec => []ListenerReachable
  BY Inductive, PTL DEF IInv

\* A CLI process that has reached a daemon is answered unless daemons are killed.
THEOREM EveryCallAnswered == Spec => []CallsAnswered
  BY Inductive, PTL DEF IInv
-----------------------------------------------------------------------------
(***************************************************************************)
(* The two ends of a connection: what a client holds at a daemon.          *)
(***************************************************************************)

\* The clients a daemon has a session with or a connection of in its queue.
Here(d) == serving[d] \cup Range(backlog[d])

Connected(c) == cpc[c] \in {"asked", "open"}

\* A daemon holds a session or a place in the queue for exactly the clients that
\* are connected to it, until it ends.
EndsMatch ==
  \A c \in Client :
    /\ Connected(c) => server[c] \in Daemon
    /\ \A d \in Daemon : c \in Here(d) <=> Connected(c) /\ server[c] = d /\ dpc[d] # "gone"

\* No client is twice in a queue.
NoTwice(s) == \A i, j \in 1..Len(s) : i # j /\ s[i] = s[j] => s[i] = None

\* No client has two connections, nor a session and a connection in the queue.
Once == \A d \in Daemon : NoTwice(backlog[d]) /\ serving[d] \cap Range(backlog[d]) = {}

\* Connections come once the daemon listens, sessions once it serves.
Idle ==
  \A d \in Daemon :
    /\ dpc[d] \notin {"chmod", "serve"} => backlog[d] = <<>>
    /\ dpc[d] # "serve" => serving[d] = {}

Ends == EndsMatch /\ Once /\ Idle

LEMMA AppendOnce ==
  ASSUME NEW S, NEW s \in Seq(S), NEW x \in S, NoTwice(s), x = None \/ x \notin Range(s)
  PROVE  NoTwice(Append(s, x))
<1>1. /\ Len(s) \in Nat /\ DOMAIN s = 1..Len(s) /\ Len(Append(s, x)) = Len(s) + 1
      /\ Append(s, x)[Len(s) + 1] = x /\ \A i \in 1..Len(s) : Append(s, x)[i] = s[i]
  BY AppendTo, Indexed
<1>2. ASSUME NEW i \in 1..Len(s), s[i] = x PROVE x = None
  BY <1>1, <1>2 DEF Range
<1> QED
  BY <1>1, <1>2 DEF NoTwice

LEMMA TailOnce ==
  ASSUME NEW S, NEW s \in Seq(S), s # <<>>, NoTwice(s)
  PROVE  NoTwice(Tail(s)) /\ (Head(s) # None => Head(s) \notin Range(Tail(s)))
<1>1. /\ Tail(s) \in Seq(S) /\ Len(s) \in Nat \ {0} /\ Len(Tail(s)) = Len(s) - 1
      /\ \A i \in 1..Len(s) - 1 : Tail(s)[i] = s[i + 1] /\ i + 1 \in 1..Len(s)
      /\ Head(s) = s[1] /\ 1 \in 1..Len(s)
  BY TailOf
<1>2. NoTwice(Tail(s))
  BY <1>1 DEF NoTwice
<1>3. ASSUME Head(s) \in Range(Tail(s)) PROVE Head(s) = None
  <2>1. PICK i \in 1..Len(s) - 1 : Tail(s)[i] = Head(s)
    <3>1. DOMAIN Tail(s) = 1..Len(s) - 1
      BY <1>1, Indexed
    <3> QED
      BY <1>3, <3>1 DEF Range
  <2>2. i + 1 # 1 /\ s[i + 1] = s[1] /\ i + 1 \in 1..Len(s)
    BY <1>1, <2>1
  <2> QED
    BY <1>1, <2>2 DEF NoTwice
<1> QED
  BY <1>2, <1>3

\* A connection that is made is one more in the queue of the daemon that listens.
LEMMA Knocked ==
  ASSUME Typed, Ends, NEW x \in Client \cup {None}, Knock(x), UNCHANGED serving,
         x # None => ~Connected(x)
  PROVE  /\ file \in Daemon /\ dpc[file] \in {"chmod", "serve"}
         /\ \A d \in Daemon : Here(d)' = IF d = file THEN Here(d) \cup {x} ELSE Here(d)
         /\ \A d \in Daemon : d # file => backlog'[d] = backlog[d]
         /\ Once'
<1> DEFINE X == Client \cup {None}
           s == backlog[file]
<1>1. /\ file \in Daemon /\ dpc[file] \in {"chmod", "serve"}
      /\ s \in Seq(X) /\ backlog' = [backlog EXCEPT ![file] = Append(s, x)]
  BY DEF Knock, Listening, Typed, TypeOK
<1>2. Append(s, x) \in Seq(X) /\ Range(Append(s, x)) = Range(s) \cup {x}
  BY <1>1, AppendTo
<1>3. \A d \in Daemon : backlog'[d] = IF d = file THEN Append(s, x) ELSE backlog[d]
  BY <1>1 DEF Typed, TypeOK
<1>4. x # None => x \notin Here(file)
  BY <1>1 DEF Ends, EndsMatch
<1>5. NoTwice(Append(s, x))
  <2>1. x = None \/ x \notin Range(s)
    BY <1>4 DEF Here
  <2>2. NoTwice(s)
    BY <1>1 DEF Ends, Once
  <2> HIDE DEF s, X
  <2> QED
    BY <1>1, <2>1, <2>2, AppendOnce DEF X
<1>6. serving[file] \cap Range(Append(s, x)) = {}
  <2>1. serving[file] \cap Range(s) = {} /\ None \notin serving[file]
    BY <1>1, StartupAssumption DEF Ends, Once, Typed, TypeOK
  <2> QED
    BY <1>2, <1>4, <2>1 DEF Here
<1>7. Once'
  <2> SUFFICES ASSUME NEW d \in Daemon
               PROVE  NoTwice(backlog'[d]) /\ serving'[d] \cap Range(backlog'[d]) = {}
    BY DEF Once, NoTwice
  <2> QED
    BY <1>3, <1>5, <1>6 DEF Ends, Once
<1> QED
  BY <1>1, <1>2, <1>3, <1>7 DEF Here

\* A client that connects is held by that daemon alone.
LEMMA ClientKnocks ==
  ASSUME Typed, Ends, NEW c \in Client, ~Connected(c), Knock(c), UNCHANGED <<dpc, serving>>,
         server' = [server EXCEPT ![c] = file], NEW l \in {"asked", "open"}, Step(c, l)
  PROVE  Ends'
<1>1. /\ file \in Daemon /\ dpc[file] \in {"chmod", "serve"}
      /\ \A d \in Daemon : Here(d)' = IF d = file THEN Here(d) \cup {c} ELSE Here(d)
      /\ \A d \in Daemon : d # file => backlog'[d] = backlog[d]
      /\ Once'
  BY Knocked, StartupAssumption
<1>2. Idle'
  BY <1>1 DEF Ends, Idle
<1>3. /\ Connected(c)' /\ server'[c] = file
      /\ \A b \in Client : b # c => (Connected(b)' <=> Connected(b)) /\ server'[b] = server[b]
  BY DEF Step, Connected, Typed, TypeOK
<1>4. \A d \in Daemon : c \notin Here(d)
  BY DEF Ends, EndsMatch
<1>5. EndsMatch'
  BY <1>1, <1>3, <1>4 DEF Ends, EndsMatch
<1> QED
  BY <1>1, <1>2, <1>5 DEF Ends

\* A connection that is closed again is nobody's.
LEMMA Closed ==
  ASSUME Typed, Ends, Knock(None), UNCHANGED <<serving, server>>,
         \A c \in Client : Connected(c)' <=> Connected(c),
         \A d \in Daemon :
           dpc'[d] = dpc[d] \/ (dpc[d] \notin {"chmod", "serve", "gone"} /\ dpc'[d] = "gone")
  PROVE  Ends'
<1>1. /\ file \in Daemon /\ dpc[file] \in {"chmod", "serve"}
      /\ \A d \in Daemon : Here(d)' = IF d = file THEN Here(d) \cup {None} ELSE Here(d)
      /\ \A d \in Daemon : d # file => backlog'[d] = backlog[d]
      /\ Once'
  BY Knocked
<1>2. Idle'
  BY <1>1 DEF Ends, Idle
<1>3. \A d \in Daemon : dpc'[d] # dpc[d] => serving[d] = {} /\ Range(backlog[d]) = {}
  BY DEF Ends, Idle, Range
<1>4. None \notin Client
  BY StartupAssumption
<1>5. ASSUME NEW c \in Client, NEW d \in Daemon
      PROVE  c \in Here(d)' <=> Connected(c)' /\ server'[c] = d /\ dpc'[d] # "gone"
  <2>1. c \in Here(d)' <=> c \in Here(d)
    BY <1>1, <1>4
  <2>2. c \in Here(d) <=> Connected(c) /\ server[c] = d /\ dpc[d] # "gone"
    BY DEF Ends, EndsMatch
  <2>3. CASE dpc'[d] = dpc[d]
    BY <2>1, <2>2, <2>3
  <2>4. CASE dpc'[d] # dpc[d]
    <3>1. c \notin Here(d)
      BY <1>3, <2>4 DEF Here
    <3> QED
      BY <2>1, <2>4, <3>1
  <2> QED
    BY <2>3, <2>4
<1>6. EndsMatch'
  BY <1>5 DEF Ends, EndsMatch
<1> QED
  BY <1>1, <1>2, <1>6 DEF Ends

\* A daemon that has not listened yet holds nothing, wherever it goes.
LEMMA Moved ==
  ASSUME Typed, Ends, NEW d \in Daemon, dpc[d] \notin {"chmod", "serve", "gone"},
         NEW l, Goto(d, l), UNCHANGED <<sockets, server>>,
         \A c \in Client : Connected(c)' <=> Connected(c)
  PROVE  Ends'
<1>1. \A e \in Daemon : e # d => dpc'[e] = dpc[e]
  BY DEF Goto, Typed, TypeOK
<1>2. backlog[d] = <<>> /\ serving[d] = {} /\ Here(d) = {}
  BY DEF Ends, Idle, Here, Range
<1>3. \A e \in Daemon : Here(e)' = Here(e)
  BY DEF Here, sockets
<1>4. Idle' /\ Once'
  BY <1>1, <1>2 DEF Ends, Idle, Once, NoTwice, sockets
<1>5. EndsMatch'
  BY <1>1, <1>2, <1>3 DEF Ends, EndsMatch
<1> QED
  BY <1>4, <1>5 DEF Ends

LEMMA EndsStep == Typed /\ Ends /\ [Next]_vars => Ends'
<1> SUFFICES ASSUME Typed, Ends, [Next]_vars PROVE Ends'
  OBVIOUS
<1> USE DEF sockets, clients
<1>c. ASSUME UNCHANGED cpc PROVE \A c \in Client : Connected(c)' <=> Connected(c)
  BY <1>c DEF Connected
<1>1. ASSUME NEW d \in Daemon, Restore(d) PROVE Ends'
  BY <1>1, <1>c, Moved DEF Restore
<1>2. ASSUME NEW d \in Daemon, NoAdapter(d) PROVE Ends'
  BY <1>2, <1>c, Moved DEF NoAdapter
<1>3. ASSUME NEW d \in Daemon, Exists(d) PROVE Ends'
  BY <1>3, <1>c, Moved DEF Exists
<1>4. ASSUME NEW d \in Daemon, Probe(d) PROVE Ends'
  <2>1. dpc[d] = "probe" /\ UNCHANGED <<serving, server, cpc>>
    BY <1>4 DEF Probe
  <2>2. CASE Knock(None) /\ Goto(d, "gone")
    <3>1. \A e \in Daemon :
            dpc'[e] = dpc[e] \/ (dpc[e] \notin {"chmod", "serve", "gone"} /\ dpc'[e] = "gone")
      BY <2>1, <2>2 DEF Goto, Typed, TypeOK
    <3> QED
      BY <1>c, <2>1, <2>2, <3>1, Closed
  <2>3. CASE Refused /\ Goto(d, "unlink") /\ UNCHANGED backlog
    BY <1>c, <2>1, <2>3, Moved
  <2> QED
    BY <1>4, <2>2, <2>3 DEF Probe
<1>5. ASSUME NEW d \in Daemon, Unlink(d) PROVE Ends'
  BY <1>5, <1>c, Moved DEF Unlink
<1>6. ASSUME NEW d \in Daemon, Bind(d) PROVE Ends'
  BY <1>6, <1>c, Moved DEF Bind
<1>7. ASSUME NEW d \in Daemon, Listen(d) PROVE Ends'
  BY <1>7, <1>c, Moved DEF Listen
<1>8. ASSUME NEW d \in Daemon, Chmod(d) PROVE Ends'
  <2>1. dpc[d] = "chmod" /\ UNCHANGED <<serving, server, cpc>>
    BY <1>8 DEF Chmod
  <2>2. serving[d] = {}
    BY <2>1 DEF Ends, Idle
  <2>3. CASE Goto(d, "serve") /\ UNCHANGED backlog
    <3>1. \A e \in Daemon : dpc'[e] = IF e = d THEN "serve" ELSE dpc[e]
      BY <2>3 DEF Goto, Typed, TypeOK
    <3>2. Idle' /\ Once'
      BY <2>1, <2>3, <3>1 DEF Ends, Idle, Once, NoTwice
    <3>3. \A e \in Daemon : Here(e)' = Here(e)
      BY <2>1, <2>3 DEF Here
    <3>4. EndsMatch'
      BY <1>c, <2>1, <3>1, <3>3 DEF Ends, EndsMatch
    <3> QED
      BY <3>2, <3>4 DEF Ends
  <2>4. CASE Goto(d, "gone") /\ backlog' = [backlog EXCEPT ![d] = <<>>]
    <3>1. /\ \A e \in Daemon : dpc'[e] = IF e = d THEN "gone" ELSE dpc[e]
          /\ \A e \in Daemon : backlog'[e] = IF e = d THEN <<>> ELSE backlog[e]
      BY <2>4 DEF Goto, Typed, TypeOK
    <3>2. Range(<<>>) = {} /\ NoTwice(<<>>)
      BY DEF Range, NoTwice
    <3>3. Idle'
      BY <2>1, <2>2, <3>1 DEF Ends, Idle
    <3>4. Once'
      <4> SUFFICES ASSUME NEW e \in Daemon
                   PROVE  NoTwice(backlog'[e]) /\ serving'[e] \cap Range(backlog'[e]) = {}
        BY DEF Once, NoTwice
      <4> QED
        BY <2>1, <3>1, <3>2 DEF Ends, Once
    <3>5. \A e \in Daemon : Here(e)' = IF e = d THEN {} ELSE Here(e)
      BY <2>1, <2>2, <3>1, <3>2 DEF Here
    <3>6. EndsMatch'
      BY <1>c, <2>1, <3>1, <3>5 DEF Ends, EndsMatch
    <3> QED
      BY <3>3, <3>4, <3>6 DEF Ends
  <2> QED
    BY <1>8, <2>3, <2>4 DEF Chmod
<1>9. ASSUME NEW d \in Daemon, Accept(d) PROVE Ends'
  <2> DEFINE s == backlog[d]
             x == Head(s)
             X == Client \cup {None}
  <2>1. /\ dpc[d] = "serve" /\ s \in Seq(X) /\ s # <<>> /\ UNCHANGED <<dpc, cpc, server>>
        /\ \A e \in Daemon : backlog'[e] = IF e = d THEN Tail(s) ELSE backlog[e]
        /\ \A e \in Daemon : serving'[e] = IF e = d THEN serving[e] \cup ({x} \ {None})
                                                    ELSE serving[e]
    BY <1>9 DEF Accept, Typed, TypeOK
  <2>2. Range(s) = {x} \cup Range(Tail(s))
    BY <2>1, TailOf
  <2>3. NoTwice(Tail(s)) /\ (x # None => x \notin Range(Tail(s)))
    <3>1. NoTwice(s)
      BY DEF Ends, Once
    <3> QED
      BY <2>1, <3>1, TailOnce
  <2> HIDE DEF s, x, X
  <2>4. Idle'
    BY <2>1 DEF Ends, Idle
  <2>5. Once'
    <3> SUFFICES ASSUME NEW e \in Daemon
                 PROVE  NoTwice(backlog'[e]) /\ serving'[e] \cap Range(backlog'[e]) = {}
      BY DEF Once, NoTwice
    <3>1. CASE e = d
      <4>1. serving[d] \cap Range(s) = {}
        BY DEF Ends, Once, s
      <4> QED
        BY <2>1, <2>2, <2>3, <3>1, <4>1
    <3>2. CASE e # d
      BY <2>1, <3>2 DEF Ends, Once
    <3> QED
      BY <3>1, <3>2
  <2>6. \A c \in Client, e \in Daemon : c \in Here(e)' <=> c \in Here(e)
    <3> SUFFICES ASSUME NEW c \in Client, NEW e \in Daemon PROVE c \in Here(e)' <=> c \in Here(e)
      OBVIOUS
    <3>1. CASE e = d
      <4>1. c # None
        BY StartupAssumption
      <4>2. Here(e) = serving[d] \cup Range(s)
        BY <3>1 DEF Here, s
      <4>3. Here(e)' = serving[d] \cup ({x} \ {None}) \cup Range(Tail(s))
        BY <2>1, <3>1 DEF Here
      <4> QED
        BY <2>2, <4>1, <4>2, <4>3
    <3>2. CASE e # d
      BY <2>1, <3>2 DEF Here
    <3> QED
      BY <3>1, <3>2
  <2>7. EndsMatch'
    BY <1>c, <2>1, <2>6 DEF Ends, EndsMatch
  <2> QED
    BY <2>4, <2>5, <2>7 DEF Ends
<1>10. ASSUME NEW d \in Daemon, NEW c \in Cli, Answer(d, c) PROVE Ends'
  <2>1. /\ c \in Client /\ c \in serving[d] /\ Connected(c) /\ ~Connected(c)'
        /\ UNCHANGED <<dpc, backlog, server>>
        /\ \A e \in Daemon : serving'[e] = IF e = d THEN serving[e] \ {c} ELSE serving[e]
        /\ \A b \in Client : b # c => (Connected(b)' <=> Connected(b))
    BY <1>10 DEF Answer, Connected, Typed, TypeOK, Client
  <2>2. \A e \in Daemon : c \in Here(e) => e = d
    BY <2>1 DEF Ends, EndsMatch, Here
  <2>3. c \notin Range(backlog[d])
    BY <2>1 DEF Ends, Once
  <2>4. \A e \in Daemon : Here(e)' = Here(e) \ {c}
    BY <2>1, <2>2, <2>3 DEF Here
  <2>5. EndsMatch'
    BY <2>1, <2>4 DEF Ends, EndsMatch
  <2>6. Idle'
    BY <2>1 DEF Ends, Idle
  <2>7. Once'
    <3>1. \A e \in Daemon : serving'[e] \subseteq serving[e] /\ backlog'[e] = backlog[e]
      BY <2>1
    <3> QED
      BY <3>1 DEF Ends, Once, NoTwice
  <2> QED
    BY <2>5, <2>6, <2>7 DEF Ends
<1>11. ASSUME NEW d \in Daemon, Kill(d) PROVE Ends'
  <2>1. /\ UNCHANGED <<cpc, server>>
        /\ \A e \in Daemon : /\ dpc'[e] = IF e = d THEN "gone" ELSE dpc[e]
                             /\ backlog'[e] = IF e = d THEN <<>> ELSE backlog[e]
                             /\ serving'[e] = IF e = d THEN {} ELSE serving[e]
    BY <1>11 DEF Kill, Goto, Typed, TypeOK
  <2>2. Range(<<>>) = {} /\ NoTwice(<<>>)
    BY DEF Range, NoTwice
  <2>3. Idle'
    BY <2>1 DEF Ends, Idle
  <2>4. Once'
    <3> SUFFICES ASSUME NEW e \in Daemon
                 PROVE  NoTwice(backlog'[e]) /\ serving'[e] \cap Range(backlog'[e]) = {}
      BY DEF Once, NoTwice
    <3> QED
      BY <2>1, <2>2 DEF Ends, Once
  <2>5. \A e \in Daemon : Here(e)' = IF e = d THEN {} ELSE Here(e)
    BY <2>1, <2>2 DEF Here
  <2>6. EndsMatch'
    BY <1>c, <2>1, <2>5 DEF Ends, EndsMatch
  <2> QED
    BY <2>3, <2>4, <2>6 DEF Ends
<1>r. ASSUME NEW c \in Client, Reached(c), cpc[c] \in {"ensure", "poll"}, UNCHANGED <<dpc, serving>>
      PROVE  Ends'
  <2>1. ~Connected(c)
    BY <1>r DEF Connected
  <2>2. CASE c \in Cli
    BY <1>r, <2>1, <2>2, ClientKnocks DEF Reached
  <2>3. CASE c \notin Cli
    <3>1. Knock(None) /\ Step(c, "connect") /\ UNCHANGED server
      BY <1>r, <2>3 DEF Reached
    <3>2. \A b \in Client : Connected(b)' <=> Connected(b)
      BY <1>r, <3>1 DEF Step, Connected, Typed, TypeOK
    <3>3. \A d \in Daemon : dpc'[d] = dpc[d]
      BY <1>r
    <3> QED
      BY <1>r, <3>1, <3>2, <3>3, Closed
  <2> QED
    BY <2>2, <2>3
<1>u. ASSUME UNCHANGED <<dpc, sockets, server>>, \A c \in Client : Connected(c)' <=> Connected(c)
      PROVE  Ends'
  <2>1. \A d \in Daemon : Here(d)' = Here(d)
    BY <1>u DEF Here
  <2> QED
    BY <1>u, <2>1 DEF Ends, EndsMatch, Idle, Once, NoTwice
<1>12. ASSUME NEW c \in Client, Ensure(c) PROVE Ends'
  BY <1>12, <1>r DEF Ensure
<1>13. ASSUME NEW c \in Client, Spawn(c) PROVE Ends'
  <2>1. PICK d \in Daemon : dpc[d] = "none" /\ Goto(d, "start")
    BY <1>13 DEF Spawn
  <2>2. \A b \in Client : Connected(b)' <=> Connected(b)
    BY <1>13 DEF Spawn, Step, Connected, Typed, TypeOK
  <2>3. UNCHANGED <<sockets, server>>
    BY <1>13 DEF Spawn
  <2> QED
    BY <2>1, <2>2, <2>3, Moved
<1>14. ASSUME NEW c \in Client, UiWaits(c) PROVE Ends'
  <2>1. \A b \in Client : Connected(b)' <=> Connected(b)
    BY <1>14 DEF UiWaits, Step, Connected, Typed, TypeOK
  <2> QED
    BY <1>14, <1>u, <2>1 DEF UiWaits
<1>15. ASSUME NEW c \in Client, Poll(c) PROVE Ends'
  <2>1. CASE Reached(c)
    BY <1>15, <1>r, <2>1 DEF Poll
  <2>2. CASE ~Reached(c)
    <3>1. \A b \in Client : Connected(b)' <=> Connected(b)
      BY <1>15, <2>2 DEF Poll, Step, Connected, Typed, TypeOK
    <3> QED
      BY <1>15, <1>u, <2>2, <3>1 DEF Poll
  <2> QED
    BY <2>1, <2>2
<1>16. ASSUME NEW c \in Client, Reconnect(c) PROVE Ends'
  <2>1. ~Connected(c)
    BY <1>16 DEF Reconnect, Connected
  <2> QED
    BY <1>16, <2>1, ClientKnocks DEF Reconnect
<1>17. ASSUME NEW c \in Client, Lost(c) PROVE Ends'
  <2>1. /\ Connected(c) /\ ~Connected(c)' /\ dpc[server[c]] = "gone" /\ UNCHANGED <<dpc, sockets>>
        /\ \A b \in Client : b # c => (Connected(b)' <=> Connected(b)) /\ server'[b] = server[b]
    BY <1>17 DEF Lost, Step, Connected, Typed, TypeOK
  <2>2. \A d \in Daemon : c \notin Here(d) /\ Here(d)' = Here(d)
    BY <2>1 DEF Ends, EndsMatch, Here
  <2>3. EndsMatch'
    BY <2>1, <2>2 DEF Ends, EndsMatch
  <2>4. Idle' /\ Once'
    BY <2>1 DEF Ends, Idle, Once, NoTwice
  <2> QED
    BY <2>3, <2>4 DEF Ends
<1>18. CASE UNCHANGED vars
  BY <1>18, <1>c, <1>u DEF vars
<1> QED
  BY <1>1, <1>2, <1>3, <1>4, <1>5, <1>6, <1>7, <1>8, <1>9,
     <1>10, <1>11, <1>12, <1>13, <1>14, <1>15, <1>16, <1>17, <1>18
     DEF Next, Run, Start, Go

\* Unless a daemon found a stale file while another was starting, at most one daemon
\* serves: nothing else breaks what SPEC.md says.
THEOREM OneServes == Spec => [](~contested => SingleWriter)
<1>1. IInv => (~contested => SingleWriter)
  BY DEF IInv, ListenerReachable, SingleWriter
<1> QED
  BY <1>1, Inductive, PTL

\* A daemon holds a session or a place in the queue for exactly the clients that are
\* connected to it, and one for each: no permit is kept for a client that is gone,
\* and no client waits for a daemon that does not know of it, while it lives.
THEOREM EndsAlwaysMatch == Spec => [](EndsMatch /\ Once)
<1>1. Init => Ends
  <2> SUFFICES ASSUME Init PROVE Ends
    OBVIOUS
  <2>1. \A d \in Daemon : backlog[d] = <<>> /\ serving[d] = {} /\ Here(d) = {}
    BY DEF Init, Here, Range
  <2>2. \A c \in Client : ~Connected(c)
    BY DEF Init, Connected
  <2>3. Idle /\ Once
    BY <2>1 DEF Idle, Once, NoTwice
  <2> QED
    BY <2>1, <2>2, <2>3 DEF Ends, EndsMatch
<1>2. IInv /\ Ends /\ [Next]_vars => Ends'
  BY EndsStep DEF IInv
<1>3. Ends => EndsMatch /\ Once
  BY DEF Ends
<1> QED
  BY <1>1, <1>2, <1>3, Inductive, PTL DEF Spec
=============================================================================
