----------------------------- MODULE TuiProofs -----------------------------
(***************************************************************************)
(* Proofs about Tui.tla, the touch UI together with its session.           *)
(*                                                                         *)
(* A request is in one of the queues on its way to the daemon until it is  *)
(* carried out, and its answer in one of those on the way back until the   *)
(* App looks at it.  The lemma Flow says what a step does to these two     *)
(* sets, whichever queue it moves; the order of the numbers in them, and   *)
(* what the list waited for will have in it, follow from that alone.  A    *)
(* notification is followed through the ring, the socket and the channel   *)
(* of events by OnItsWay.                                                  *)
(***************************************************************************)
EXTENDS Tui, QueueFacts

-----------------------------------------------------------------------------
(***************************************************************************)
(* The daemon's side of the connection.                                    *)
(***************************************************************************)

\* A read takes at least the line it returns.
LEMMA UpIsAbove == ASSUME NEW e \in Nat PROVE RoundUp(e) \in Int /\ RoundUp(e) >= e
  BY SessionAssumption DEF RoundUp

\* A notification that is sent is the last of the ring of a client that subscribed.
LEMMA Broadcasting ==
  ASSUME SessionTypeOK, NEW n \in Notification, Broadcast(n)
  PROVE  /\ ring' \in Seq(Notification) /\ Len(ring') <= RingCap
         /\ lagged' \in BOOLEAN /\ last' \in Notification \cup {None}
         /\ ~subscribed => UNCHANGED channel
         /\ subscribed => last' = n /\ ring' # <<>> /\ ring'[Len(ring')] = n
<1>q. /\ ring \in Seq(Notification) /\ Len(ring) \in Nat /\ Len(ring) <= RingCap
      /\ lagged \in BOOLEAN /\ last \in Notification \cup {None} /\ RingCap \in Nat \ {0}
  <2>1. /\ ring \in Seq(Notification) /\ Len(ring) <= RingCap
        /\ lagged \in BOOLEAN /\ last \in Notification \cup {None} /\ RingCap \in Nat \ {0}
    BY SessionAssumption DEF SessionTypeOK
  <2> QED
    BY <2>1, LenProperties
<1>1. CASE ~subscribed
  BY <1>q, <1>1 DEF Broadcast, channel
<1>2. CASE subscribed /\ Len(ring) < RingCap
  <2>1. ring' = Append(ring, n) /\ last' = n /\ lagged' = (lagged \/ Len(ring) = RingCap)
    BY <1>2 DEF Broadcast
  <2>2. ring' \in Seq(Notification) /\ Len(ring') = Len(ring) + 1 /\ ring' # <<>>
        /\ ring'[Len(ring) + 1] = n
    BY <1>q, <2>1, AppendTo
  <2> QED
    BY <1>q, <1>2, <2>1, <2>2
<1>3. CASE subscribed /\ ~(Len(ring) < RingCap)
  <2>1. ring' = Append(Tail(ring), n) /\ last' = n /\ lagged' = (lagged \/ Len(ring) = RingCap)
    BY <1>3 DEF Broadcast
  <2>2. Len(ring) \in Nat /\ ring # <<>>
    BY <1>q, <1>3, EmptySeq
  <2>3. Tail(ring) \in Seq(Notification) /\ Len(Tail(ring)) = Len(ring) - 1
    BY <1>q, <2>2, TailOf
  <2> DEFINE t == Tail(ring)
  <2>t. ring' = Append(t, n) /\ t \in Seq(Notification)
    BY <2>1, <2>3
  <2>5. Len(t) + 1 = Len(ring)
    BY <2>2, <2>3
  <2> HIDE DEF t
  <2>4. ring' \in Seq(Notification) /\ Len(ring') = Len(t) + 1 /\ ring' # <<>>
        /\ ring'[Len(t) + 1] = n
    BY <2>t, AppendTo
  <2> QED
    BY <1>q, <1>3, <2>1, <2>4, <2>5
<1> QED
  BY <1>1, <1>2, <1>3

\* A line that is written is in the socket.
LEMMA Writing ==
  ASSUME SessionTypeOK, NEW m \in Message, WriteLine(m)
  PROVE  outbox' \in Seq(Message) /\ Len(outbox') <= OutCap
         /\ Range(outbox') = Range(outbox) \cup {m}
<1> USE SessionAssumption DEF SessionTypeOK
<1>1. outbox' \in Seq(Message) /\ Len(outbox') = Len(outbox) + 1
      /\ Range(outbox') = Range(outbox) \cup {m}
  BY AppendTo DEF WriteLine
<1>2. Len(outbox) \in Nat /\ Len(outbox) < OutCap
  BY LenProperties DEF WriteLine
<1> QED
  BY <1>1, <1>2

\* A read takes at least the first line, and what it leaves are later parts.
LEMMA Reading ==
  ASSUME SessionTypeOK, Read
  PROVE  /\ inbox # <<>> /\ inbox[1] \in Part
         /\ \E e \in 1..Len(inbox), k \in 0..Len(inbox) :
              e <= k /\ inbox[e].left = 0 /\ inbox' = SubSeq(inbox, k + 1, Len(inbox))
<1>q. inbox \in Seq(Part)
  BY DEF SessionTypeOK
<1>1. /\ Len(inbox) \in Nat /\ DOMAIN inbox = 1..Len(inbox)
      /\ \A i \in 1..Len(inbox) : inbox[i] \in Part
  BY <1>q, LenProperties
<1>2. Newlines \in SUBSET Nat /\ Newlines # {} /\ Newlines \subseteq 1..Len(inbox)
  BY <1>1 DEF Newlines, Read
<1> DEFINE e == Min(Newlines)
<1>3. e \in Newlines /\ \A i \in Newlines : e <= i
  BY <1>2, MinOf
<1>4. PICK filled \in Newlines :
        inbox' = SubSeq(inbox, Min({filled, RoundUp(e)}) + 1, Len(inbox))
  BY DEF Read
<1>5. e \in 1..Len(inbox) /\ inbox[e].left = 0
  BY <1>2, <1>3 DEF Newlines
<1> HIDE DEF e
<1>6. RoundUp(e) \in Nat /\ RoundUp(e) >= e
  BY <1>1, <1>5, UpIsAbove
<1> DEFINE k == Min({filled, RoundUp(e)})
<1>7. k \in {filled, RoundUp(e)} /\ k <= filled
  <2>1. {filled, RoundUp(e)} \in SUBSET Nat /\ {filled, RoundUp(e)} # {}
    BY <1>2, <1>6
  <2> QED
    BY <2>1, MinOf
<1>8. e <= k /\ k <= Len(inbox) /\ k \in Nat
  BY <1>1, <1>2, <1>3, <1>5, <1>6, <1>7
<1>9. inbox # <<>> /\ inbox[1] \in Part
  BY <1>q, <1>1, <1>5, EmptySeq
<1>10. inbox' = SubSeq(inbox, k + 1, Len(inbox))
  BY <1>4
<1> HIDE DEF k
<1>11. k \in 0..Len(inbox)
  BY <1>1, <1>8
<1>12. e <= k /\ inbox[e].left = 0 /\ inbox' = SubSeq(inbox, k + 1, Len(inbox))
  BY <1>5, <1>8, <1>10
<1> QED
  BY ONLY <1>5, <1>9, <1>11, <1>12

-----------------------------------------------------------------------------
(***************************************************************************)
(* Types.                                                                  *)
(***************************************************************************)

\* The messages the daemon sends, and what the App is told.
LEMMA Messages ==
  /\ \A s \in State : [type |-> "state", value |-> s] \in Notification
  /\ \A c \in Label : [type |-> "connection", value |-> c] \in Notification
  /\ \A i \in Id \cup {0}, v \in SUBSET Id :
       [type |-> "response", id |-> i, value |-> v] \in Message
  /\ [type |-> "disconnected"] \in Event
  /\ Notification \subseteq Message /\ Message \subseteq Event
BY DEF Notification, Response, Message, Event

\* What a read changes, beside the socket.
LEMMA Executing ==
  ASSUME SessionTypeOK, Read
  PROVE  /\ presets' \in SUBSET Id /\ executed' \in Seq(Id)
         /\ ring' \in Seq(Notification) /\ Len(ring') <= RingCap /\ lagged' \in BOOLEAN
         /\ last' \in Notification \cup {None}
         /\ outbox' \in Seq(Message) /\ Len(outbox') <= OutCap
<1> USE DEF SessionTypeOK
<1>1. inbox[1] \in Part /\ inbox[1].id \in Id
  BY Reading DEF Part
<1>2. CASE Execute(inbox[1])
  <2> DEFINE m == [type |-> "response", id |-> inbox[1].id,
                   value |-> IF inbox[1].kind = "list" THEN presets ELSE {}]
  <2>1. m \in Message /\ WriteLine(m)
    BY <1>1, <1>2, Messages DEF Execute
  <2> HIDE DEF m
  <2>2. outbox' \in Seq(Message) /\ Len(outbox') <= OutCap
    BY <2>1, Writing
  <2>3. executed' \in Seq(Id)
    BY <1>1, <1>2, AppendTo DEF Execute
  <2>4. presets' \in SUBSET Id
    BY <1>1, <1>2 DEF Execute
  <2>5. /\ ring' \in Seq(Notification) /\ Len(ring') <= RingCap /\ lagged' \in BOOLEAN
        /\ last' \in Notification \cup {None}
    <3>1. CASE UNCHANGED channel
      BY <3>1 DEF channel
    <3>2. CASE \E s \in State : Broadcast([type |-> "state", value |-> s])
      BY <3>2, Broadcasting, Messages
    <3> QED
      BY <1>2, <3>1, <3>2 DEF Execute
  <2> QED
    BY <2>2, <2>3, <2>4, <2>5
<1>3. CASE /\ WriteLine([type |-> "response", id |-> 0, value |-> {}])
           /\ UNCHANGED <<presets, executed, channel>>
  <2>1. [type |-> "response", id |-> 0, value |-> {}] \in Message
    BY Messages
  <2>2. outbox' \in Seq(Message) /\ Len(outbox') <= OutCap
    BY <1>3, <2>1, Writing
  <2> QED
    BY <1>3, <2>2 DEF channel
<1> QED
  BY <1>2, <1>3 DEF Read

\* The daemon's side keeps its types.
LEMMA SessionTypeStep ==
  ASSUME SessionTypeOK, SessionNext
  PROVE  SessionTypeOK'
<1> USE SessionAssumption DEF SessionTypeOK, watcher, channel, socket
<1>0. /\ <<>> \in Seq(Notification) /\ Len(<<>>) <= RingCap
      /\ <<>> \in Seq(Part) /\ Len(<<>>) <= InCap
  <2>1. Len(<<>>) = 0
    OBVIOUS
  <2> QED
    BY <2>1
<1>b. ASSUME NEW n \in Notification, Broadcast(n)
      PROVE  /\ ring' \in Seq(Notification) /\ Len(ring') <= RingCap
             /\ lagged' \in BOOLEAN /\ last' \in Notification \cup {None}
  BY <1>b, Broadcasting
<1>1. ASSUME NEW s \in State, Elsewhere(s) PROVE SessionTypeOK'
  <2>1. [type |-> "state", value |-> s] \in Notification
    BY Messages
  <2> QED
    BY <1>1, <1>b, <2>1 DEF Elsewhere
<1>2. ASSUME NEW c \in Label, ConnChanges(c) PROVE SessionTypeOK'
  BY <1>2 DEF ConnChanges
<1>3. CASE Watch
  <2>1. [type |-> "connection", value |-> conn] \in Notification
    BY Messages
  <2> QED
    BY <1>3, <1>b, <2>1 DEF Watch
<1>4. CASE Subscribe
  BY <1>4, <1>0 DEF Subscribe
<1>5. CASE Read
  <2>1. inbox' \in Seq(Part) /\ Len(inbox') <= InCap
    <3>1. PICK k \in 0..Len(inbox) : inbox' = SubSeq(inbox, k + 1, Len(inbox))
      BY <1>5, Reading
    <3>2. inbox \in Seq(Part) /\ Len(inbox) \in Nat
      BY LenProperties
    <3>3. inbox' \in Seq(Part) /\ Len(inbox') = Len(inbox) - k
      BY ONLY <3>1, <3>2, FromOn
    <3> QED
      BY <3>2, <3>3
  <2> QED
    BY <1>5, <2>1, Executing DEF Read
<1>6. CASE Forward
  <2>1. Head(ring) \in Message /\ ring' \in Seq(Notification) /\ Len(ring') <= RingCap
    BY <1>6, TailOf, Messages DEF Forward
  <2>2. outbox' \in Seq(Message) /\ Len(outbox') <= OutCap
    BY <1>6, <2>1, Writing DEF Forward
  <2> QED
    BY <1>6, <2>1, <2>2 DEF Forward
<1>7. CASE Lag
  BY <1>7 DEF Lag
<1>8. CASE Crash
  <2>1. outbox' \in Seq(Message) /\ Len(outbox') <= OutCap
    <3>1. CASE UNCHANGED outbox
      BY <3>1
    <3>2. CASE Len(outbox) = OutCap /\ outbox' = SubSeq(outbox, 1, OutCap - 1)
      <4>1. \A i \in 1..OutCap - 1 : outbox[i] \in Message
        BY <3>2, LenProperties
      <4>2. outbox' \in Seq(Message) /\ Len(outbox') = IF 1 <= OutCap - 1 THEN OutCap - 1 - 1 + 1 ELSE 0
        BY <3>2, <4>1, SubSeqProperties
      <4> QED
        BY <4>2
    <3> QED
      BY <1>8, <3>1, <3>2 DEF Crash
  <2>2. crashes' \in 0..MaxCrash
    BY <1>8 DEF Crash
  <2>3. link' \in {"up", "half", "down"} /\ up' \in BOOLEAN
    BY <1>8 DEF Crash
  <2> QED
    BY <1>8, <1>0, <2>1, <2>2, <2>3 DEF Crash
<1>9. CASE Restart
  BY <1>9 DEF Restart
<1> QED
  BY <1>1, <1>2, <1>3, <1>4, <1>5, <1>6, <1>7, <1>8, <1>9 DEF SessionNext, HandleClient

Req == [id : Id, kind : Kind]

\* The requests of a click, the numbers they get, and what they do.
LEMMA Requesting ==
  ASSUME TypeOK, NEW kinds \in Seq(Kind), Request(kinds)
  PROVE  /\ next_id' = next_id + Len(kinds) /\ next_id' \in 3..MaxRequests + 1
         /\ pending_presets_id' \in Id \cup {None}
         /\ \E new \in Seq(Req) :
              /\ actions' = actions \o new /\ Len(new) = Len(kinds)
              /\ \A i \in 1..Len(kinds) :
                   new[i] = [id |-> next_id + i - 1, kind |-> kinds[i]]
<1> USE TuiAssumption, SessionAssumption DEF TypeOK, SessionTypeOK
<1>1. Len(kinds) \in Nat /\ DOMAIN kinds = 1..Len(kinds) /\ \A i \in 1..Len(kinds) : kinds[i] \in Kind
  BY LenProperties
<1>2. next_id' = next_id + Len(kinds) /\ next_id' \in 3..MaxRequests + 1
  BY <1>1 DEF Request
<1>3. \A i \in 1..Len(kinds) : next_id + i - 1 \in Id
  BY <1>1, <1>2 DEF Id
<1> DEFINE new == [i \in 1..Len(kinds) |-> [id |-> next_id + i - 1, kind |-> kinds[i]]]
<1>4. new \in [1..Len(kinds) -> Req]
  BY <1>1, <1>3 DEF Req
<1>5. new \in Seq(Req) /\ Len(new) = Len(kinds)
  <2> DEFINE n == Len(kinds)
  <2>1. n \in Nat /\ new \in [1..n -> Req]
    BY <1>1, <1>4
  <2> HIDE DEF new, n
  <2>2. new \in Seq(Req) /\ Len(new) = n
    BY ONLY <2>1
  <2> QED
    BY <2>2 DEF n
<1>6. actions' = actions \o new
  BY <1>1 DEF Request
<1>7. pending_presets_id' \in Id \cup {None}
  <2>1. CASE \E i \in DOMAIN kinds : kinds[i] = "list"
    <3> DEFINE j == CHOOSE i \in DOMAIN kinds : kinds[i] = "list"
    <3>1. j \in 1..Len(kinds)
      BY <1>1, <2>1
    <3>2. pending_presets_id' = next_id + j - 1
      BY <2>1 DEF Request
    <3> QED
      BY <1>3, <3>1, <3>2
  <2>2. CASE ~\E i \in DOMAIN kinds : kinds[i] = "list"
    BY <2>2 DEF Request
  <2> QED
    BY <2>1, <2>2
<1> QED
  BY <1>2, <1>5, <1>6, <1>7

\* The requests of the buttons.
LEMMA Clicking ==
  <<"set">> \in Seq(Kind) /\ <<"list">> \in Seq(Kind) /\ <<"save", "list">> \in Seq(Kind)
<1>1. "set" \in Kind /\ "list" \in Kind /\ "save" \in Kind
  BY DEF Kind
<1> QED
  BY <1>1

\* The lines of a request.
LEMMA Lines ==
  ASSUME NEW r \in Req
  PROVE  /\ Line(r) \in Seq(Part) /\ Len(Line(r)) = Size(r.kind) /\ Size(r.kind) \in {1, 2}
         /\ \A i \in 1..Size(r.kind) :
              Line(r)[i] = [id |-> r.id, kind |-> r.kind, left |-> Size(r.kind) - i]
<1>1. Size(r.kind) \in {1, 2} /\ r.id \in Id /\ r.kind \in Kind
  BY DEF Size, Req
<1>2. \A i \in 1..Size(r.kind) : [id |-> r.id, kind |-> r.kind, left |-> Size(r.kind) - i] \in Part
  BY <1>1 DEF Part
<1>3. Line(r) \in [1..Size(r.kind) -> Part]
  BY <1>2 DEF Line
<1>4. Line(r) \in Seq(Part) /\ Len(Line(r)) = Size(r.kind)
  BY <1>1, <1>3
<1> QED
  BY <1>1, <1>4 DEF Line

\* An event that is sent is the last of the App's channel.
LEMMA Emitting ==
  ASSUME TypeOK, NEW e \in Event, Emit(e)
  PROVE  /\ events' \in Seq(Event) /\ Len(events') <= MaxEvents
         /\ events' # <<>> /\ events'[Len(events')] = e
         /\ Len(events') = Len(events) + 1 /\ \A i \in 1..Len(events) : events'[i] = events[i]
         /\ Range(events') = Range(events) \cup {e}
<1> USE TuiAssumption DEF TypeOK
<1>1. Len(events) \in Nat /\ Len(events) < MaxEvents /\ events' = Append(events, e)
  BY LenProperties DEF Emit
<1> QED
  BY <1>1, AppendTo

\* Every step keeps the types.
LEMMA TypeStep == TypeOK /\ [Next]_vars => TypeOK'
<1> SUFFICES ASSUME TypeOK, [Next]_vars PROVE TypeOK'
  OBVIOUS
<1>0. SessionTypeOK
  BY DEF TypeOK
<1> USE SessionAssumption, TuiAssumption DEF app, watcher, channel, socket
<1>1. CASE SessionNext /\ UNCHANGED <<actions, writing, events, app>>
  <2>1. SessionTypeOK'
    BY <1>0, <1>1, SessionTypeStep
  <2> QED
    BY <1>1, <2>1 DEF TypeOK
<1>2. CASE Connect
  <2>1. events' \in Seq(Event) /\ Len(events') <= MaxEvents
    BY <1>2, Emitting, Messages DEF Connect
  <2>2. <<>> \in Seq(Part) /\ <<>> \in Seq(Message) /\ Len(<<>>) = 0
    OBVIOUS
  <2> QED
    BY <1>2, <2>1, <2>2 DEF Connect, TypeOK, SessionTypeOK
<1>3. CASE Receive
  <2>1. Head(outbox) \in Event /\ outbox' \in Seq(Message) /\ Len(outbox') <= OutCap
    BY <1>3, TailOf, Messages DEF Receive, TypeOK, SessionTypeOK
  <2>2. events' \in Seq(Event) /\ Len(events') <= MaxEvents
    BY <1>3, <2>1, Emitting DEF Receive
  <2> QED
    BY <1>3, <2>1, <2>2 DEF Receive, TypeOK, SessionTypeOK
<1>4. CASE End
  <2>1. events' \in Seq(Event) /\ Len(events') <= MaxEvents
    BY <1>4, Emitting, Messages DEF End, Disconnected
  <2>2. <<>> \in Seq(Message) /\ Len(<<>>) = 0
    OBVIOUS
  <2> QED
    BY <1>4, <2>1, <2>2 DEF End, Disconnected, TypeOK, SessionTypeOK
<1>5. CASE Send
  <2>1. Head(actions) \in Req /\ actions' \in Seq(Req)
    BY <1>5, TailOf DEF Send, TypeOK, Req
  <2>2. Line(Head(actions)) \in Seq(Part)
        /\ Len(Line(Head(actions))) = Size(Head(actions).kind)
    BY <2>1, Lines
  <2>3. inbox' \in Seq(Part) /\ Len(inbox') <= InCap
    <3>1. inbox \in Seq(Part) /\ inbox' = inbox \o Line(Head(actions))
      BY <1>5 DEF Send, TypeOK, SessionTypeOK
    <3>2. inbox' \in Seq(Part) /\ Len(inbox') = Len(inbox) + Size(Head(actions).kind)
      BY <2>2, <3>1, ConcatOf
    <3> QED
      BY <1>5, <3>2 DEF Send, Room
  <2> QED
    BY <1>5, <2>1, <2>3 DEF Send, TypeOK, SessionTypeOK, Req
<1>w. CASE SendWaits
  BY <1>w DEF SendWaits, TypeOK, SessionTypeOK, sessionVars
<1>6. CASE SendFails
  <2>1. events' \in Seq(Event) /\ Len(events') <= MaxEvents
    BY <1>6, Emitting, Messages DEF SendFails, Disconnected
  <2>2. <<>> \in Seq(Message) /\ Len(<<>>) = 0
    OBVIOUS
  <2>3. actions' \in Seq(Req)
    BY <1>6, TailOf DEF SendFails, TypeOK, Req
  <2> QED
    <3>1. SessionTypeOK'
      BY <1>0, <1>6, <2>2 DEF SendFails, Disconnected, SessionTypeOK
    <3> QED
      BY <1>6, <2>1, <2>3, <3>1 DEF SendFails, TypeOK, Req
<1>7. CASE Drain
  <2> DEFINE e == Head(events)
  <2>1. e \in Event /\ events' \in Seq(Event) /\ Len(events') <= MaxEvents
    BY <1>7, TailOf DEF Drain, TypeOK
  <2>2. e.type = "state" => e.value \in State
    BY <2>1 DEF Event, Message, Notification, Response
  <2>3. e.type = "connection" => e.value \in Label
    BY <2>1 DEF Event, Message, Notification, Response
  <2>4. e.type = "response" => e.value \in SUBSET Id
    BY <2>1 DEF Event, Message, Notification, Response
  <2> HIDE DEF e
  <2>5. state' \in State \cup {None}
    BY <1>7, <2>2 DEF Drain, TypeOK, e
  <2>6. connection_status' \in Label
    BY <1>7, <2>3 DEF Drain, TypeOK, e
  <2>7. listed' \in SUBSET Id /\ pending_presets_id' \in Id \cup {None}
    BY <1>7, <2>4 DEF Drain, TakeList, TypeOK, e
  <2> QED
    BY <1>7, <2>1, <2>5, <2>6, <2>7 DEF Drain, TypeOK, SessionTypeOK, sessionVars
<1>8. ASSUME NEW kinds \in Seq(Kind), Request(kinds) PROVE TypeOK'
  <2>1. PICK new \in Seq(Req) : actions' = actions \o new
    BY <1>8, Requesting
  <2>2. actions' \in Seq(Req)
    BY <2>1, ConcatOf DEF TypeOK, Req
  <2>3. next_id' \in 3..MaxRequests + 1 /\ pending_presets_id' \in Id \cup {None}
    BY <1>8, Requesting
  <2> QED
    BY <1>8, <2>2, <2>3 DEF Request, TypeOK, SessionTypeOK, sessionVars, Req
<1>9. CASE Click
  BY <1>8, <1>9, Clicking DEF Click, Control, Refresh, Save
<1>10. CASE UNCHANGED vars
  BY <1>10 DEF vars, sessionVars, TypeOK, SessionTypeOK
<1> QED
  BY <1>1, <1>2, <1>3, <1>4, <1>5, <1>w, <1>6, <1>7, <1>9, <1>10 DEF Next, RpcTask

-----------------------------------------------------------------------------
(***************************************************************************)
(* Requests and answers.                                                   *)
(***************************************************************************)

\* Both queues are in the order of the numbers, the parts of a line in theirs,
\* and all have been given out.
Queued ==
  /\ \A i, j \in DOMAIN inbox : i < j =>
       \/ inbox[i].id < inbox[j].id
       \/ inbox[i].id = inbox[j].id /\ inbox[i].left > inbox[j].left
  /\ \A i, j \in DOMAIN actions : i < j => actions[i].id < actions[j].id
  /\ \A i \in DOMAIN inbox, j \in DOMAIN actions : inbox[i].id < actions[j].id
  /\ \A i \in DOMAIN inbox : inbox[i].id < next_id
  /\ \A i \in DOMAIN actions : actions[i].id < next_id

\* The types the lemmas below need.
LEMMA Queues ==
  TypeOK => /\ SessionTypeOK /\ inbox \in Seq(Part) /\ outbox \in Seq(Message)
            /\ executed \in Seq(Id) /\ actions \in Seq(Req) /\ events \in Seq(Event)
            /\ next_id \in Nat /\ presets \in SUBSET Id
BY DEF TypeOK, SessionTypeOK, Req

\* Requests, and the parts of their lines, have numbers.
LEMMA Numbers ==
  /\ \A p \in Part : p.id \in Nat /\ p.left \in Nat /\ p.id \in Id /\ p.kind \in Kind
  /\ \A r \in Req : r.id \in Nat /\ r.id \in Id /\ r.kind \in Kind
BY DEF Part, Req, Id

\* What a read leaves is in order, and behind the line that it returns.
LEMMA QueuedRead == ASSUME TypeOK, Queued, Read PROVE
  /\ \A i, j \in DOMAIN inbox' : i < j =>
       \/ inbox'[i].id < inbox'[j].id
       \/ inbox'[i].id = inbox'[j].id /\ inbox'[i].left > inbox'[j].left
  /\ \A i \in DOMAIN inbox' : \E l \in DOMAIN inbox : inbox'[i] = inbox[l] /\ inbox[1].id < inbox[l].id
  /\ 1 \in DOMAIN inbox
<1>0. SessionTypeOK /\ inbox \in Seq(Part)
  BY Queues
<1>1. PICK e \in 1..Len(inbox), k \in 0..Len(inbox) :
        e <= k /\ inbox[e].left = 0 /\ inbox' = SubSeq(inbox, k + 1, Len(inbox))
  BY <1>0, Reading
<1>2. /\ inbox' \in Seq(Part) /\ Len(inbox') = Len(inbox) - k
      /\ \A i \in 1..Len(inbox) - k : inbox'[i] = inbox[k + i]
  BY <1>0, <1>1, FromOn
<1>3. Len(inbox) \in Nat /\ DOMAIN inbox = 1..Len(inbox) /\ DOMAIN inbox' = 1..Len(inbox) - k
  BY <1>0, <1>2, LenProperties
<1>4. \A i \in DOMAIN inbox' : k + i \in DOMAIN inbox /\ inbox'[i] = inbox[k + i] /\ e < k + i
  BY <1>1, <1>2, <1>3
<1>5. \A i \in DOMAIN inbox : inbox[i] \in Part /\ inbox[i].id \in Nat /\ inbox[i].left \in Nat
  BY <1>0, Indexed, Numbers
<1>6. \A l \in DOMAIN inbox : e < l => inbox[e].id < inbox[l].id
  BY <1>1, <1>3, <1>5 DEF Queued
<1>7. 1 \in DOMAIN inbox /\ inbox[1].id <= inbox[e].id
  BY <1>1, <1>3, <1>5 DEF Queued
<1>8. \A l \in DOMAIN inbox : e < l => inbox[1].id < inbox[l].id
  BY <1>1, <1>3, <1>5, <1>6, <1>7
<1>9. \A i, j \in DOMAIN inbox' : i < j => k + i < k + j
  BY <1>3
<1> QED
  BY <1>4, <1>7, <1>8, <1>9 DEF Queued

\* No step disturbs the order of the queues.
LEMMA QueuedStep == TypeOK /\ Queued /\ [Next]_vars => Queued'
<1> SUFFICES ASSUME TypeOK, Queued, [Next]_vars PROVE Queued'
  OBVIOUS
<1>q. inbox \in Seq(Part) /\ actions \in Seq(Req) /\ next_id \in Nat
  BY Queues
<1>0. /\ \A i \in DOMAIN inbox : inbox[i] \in Part /\ inbox[i].id \in Nat
      /\ \A i \in DOMAIN actions : actions[i] \in Req /\ actions[i].id \in Nat
      /\ Len(inbox) \in Nat /\ DOMAIN inbox = 1..Len(inbox)
      /\ Len(actions) \in Nat /\ DOMAIN actions = 1..Len(actions)
  BY <1>q, Indexed, Numbers
<1>1. CASE UNCHANGED <<inbox, actions, next_id>>
  BY <1>1 DEF Queued
<1>2. CASE inbox' = <<>> /\ UNCHANGED <<actions, next_id>>
  <2>1. DOMAIN inbox' = {}
    BY <1>2
  <2> QED
    BY <1>2, <2>1 DEF Queued
<1>3. CASE Read /\ UNCHANGED <<actions, next_id>>
  <2>1. \A i \in DOMAIN inbox' : \E l \in DOMAIN inbox : inbox'[i] = inbox[l]
    BY <1>3, QueuedRead
  <2>2. \A i, j \in DOMAIN inbox' : i < j =>
          \/ inbox'[i].id < inbox'[j].id
          \/ inbox'[i].id = inbox'[j].id /\ inbox'[i].left > inbox'[j].left
    BY <1>3, QueuedRead
  <2> QED
    BY <1>3, <2>1, <2>2 DEF Queued
<1>t. ASSUME actions # <<>>, actions' = Tail(actions)
      PROVE  /\ \A i, j \in DOMAIN actions' : i < j => actions'[i].id < actions'[j].id
             /\ \A i \in DOMAIN actions' :
                  \E l \in DOMAIN actions : actions'[i] = actions[l] /\ actions[1].id < actions[l].id
  <2>1. DOMAIN actions' = 1..Len(actions) - 1 /\ \A i \in 1..Len(actions) - 1 : actions'[i] = actions[i + 1]
    BY <1>t, <1>q, TailOf, LenProperties
  <2>2. \A i \in DOMAIN actions' : i + 1 \in DOMAIN actions /\ 1 \in DOMAIN actions /\ 1 < i + 1
    BY <1>q, <1>0, <2>1
  <2>3. \A i, j \in DOMAIN actions' : i < j => i + 1 < j + 1
    BY <1>q, <1>0, <2>1
  <2> QED
    BY <2>1, <2>2, <2>3 DEF Queued
<1>4. CASE SendFails
  <2>1. actions # <<>> /\ actions' = Tail(actions) /\ UNCHANGED <<inbox, next_id>>
    BY <1>4 DEF SendFails, app
  <2> QED
    BY <1>t, <2>1 DEF Queued
<1>5. CASE Send
  <2> DEFINE r == Head(actions)
             t == Line(r)
  <2>1. actions # <<>> /\ actions' = Tail(actions) /\ inbox' = inbox \o t /\ UNCHANGED next_id
    BY <1>5 DEF Send, app
  <2>2. r = actions[1] /\ r \in Req /\ 1 \in DOMAIN actions
    BY <1>q, <1>0, <2>1, TailOf
  <2>l. /\ t \in Seq(Part) /\ Len(t) = Size(r.kind) /\ Size(r.kind) \in {1, 2}
        /\ \A i \in 1..Size(r.kind) :
             t[i] = [id |-> r.id, kind |-> r.kind, left |-> Size(r.kind) - i]
    BY <2>2, Lines
  <2> HIDE DEF t, r
  <2>3. /\ t \in Seq(Part) /\ Len(t) \in {1, 2}
        /\ \A i \in 1..Len(t) : t[i].id = r.id /\ t[i].left = Len(t) - i
    BY <2>l
  <2>4. /\ inbox \o t \in Seq(Part) /\ Len(inbox \o t) = Len(inbox) + Len(t)
        /\ \A i \in 1..Len(inbox) : (inbox \o t)[i] = inbox[i]
        /\ \A i \in 1..Len(t) : (inbox \o t)[Len(inbox) + i] = t[i]
    BY <1>q, <2>3, ConcatOf
  <2>5. DOMAIN inbox' = 1..Len(inbox) + Len(t)
    BY <1>q, <2>1, <2>4, LenProperties
  <2>6. ASSUME NEW i \in DOMAIN inbox'
        PROVE  \/ i \in DOMAIN inbox /\ inbox'[i] = inbox[i] /\ inbox[i].id < r.id
               \/ i > Len(inbox) /\ inbox'[i].id = r.id /\ inbox'[i].left = Len(inbox) + Len(t) - i
    <3>1. CASE i <= Len(inbox)
      <4>1. i \in DOMAIN inbox
        BY <1>0, <2>5, <3>1
      <4>2. inbox'[i] = inbox[i]
        BY <1>0, <2>1, <2>4, <4>1
      <4>3. inbox[i].id < r.id
        BY <2>2, <4>1 DEF Queued
      <4> QED
        BY <4>1, <4>2, <4>3
    <3>2. CASE i > Len(inbox)
      <4>1. i - Len(inbox) \in 1..Len(t) /\ Len(inbox) + (i - Len(inbox)) = i
        BY <1>q, <1>0, <2>3, <2>5, <3>2
      <4>2. inbox'[i] = t[i - Len(inbox)]
        BY <2>1, <2>4, <4>1
      <4> QED
        BY <1>q, <1>0, <2>3, <3>2, <4>1, <4>2
    <3> QED
      BY <1>q, <1>0, <2>5, <3>1, <3>2
  <2>7. \A i, j \in DOMAIN inbox' : i < j =>
          \/ inbox'[i].id < inbox'[j].id
          \/ inbox'[i].id = inbox'[j].id /\ inbox'[i].left > inbox'[j].left
    <3> SUFFICES ASSUME NEW i \in DOMAIN inbox', NEW j \in DOMAIN inbox', i < j
                 PROVE  \/ inbox'[i].id < inbox'[j].id
                        \/ inbox'[i].id = inbox'[j].id /\ inbox'[i].left > inbox'[j].left
      OBVIOUS
    <3>1. CASE j \in DOMAIN inbox
      <4>1. i \in DOMAIN inbox /\ inbox'[i] = inbox[i] /\ inbox'[j] = inbox[j]
        BY <1>q, <1>0, <2>5, <2>6, <3>1
      <4> QED
        BY <3>1, <4>1 DEF Queued
    <3>2. CASE j \notin DOMAIN inbox /\ i \in DOMAIN inbox
      BY <1>q, <1>0, <2>6, <3>2
    <3>3. CASE j \notin DOMAIN inbox /\ i \notin DOMAIN inbox
      <4>1. inbox'[i].left = Len(inbox) + Len(t) - i /\ inbox'[j].left = Len(inbox) + Len(t) - j
            /\ inbox'[i].id = inbox'[j].id
        BY <2>6, <3>3
      <4> QED
        BY <1>q, <1>0, <2>3, <2>5, <4>1
    <3> QED
      BY <3>1, <3>2, <3>3
  <2>8. \A i \in DOMAIN inbox' : inbox'[i].id <= r.id
    BY <1>q, <1>0, <2>2, <2>6
  <2>9. /\ \A i \in DOMAIN inbox', j \in DOMAIN actions' : inbox'[i].id < actions'[j].id
        /\ \A i \in DOMAIN inbox' : inbox'[i].id < next_id'
        /\ \A i \in DOMAIN actions' : actions'[i].id < next_id'
    <3>1. \A j \in DOMAIN actions' : \E l \in DOMAIN actions : actions'[j] = actions[l] /\ r.id < actions[l].id
      BY <1>t, <2>1, <2>2
    <3>2. r.id < next_id /\ r.id \in Nat /\ next_id \in Nat
      BY <1>q, <1>0, <2>2 DEF Queued
    <3>3. \A i \in DOMAIN inbox' : inbox'[i].id \in Nat
      BY <1>q, <1>0, <2>2, <2>6
    <3>4. \A i \in DOMAIN inbox', j \in DOMAIN actions' : inbox'[i].id < actions'[j].id
      BY <1>0, <2>8, <3>1, <3>2, <3>3
    <3>5. \A i \in DOMAIN inbox' : inbox'[i].id < next_id
      BY <2>8, <3>2, <3>3
    <3>6. \A j \in DOMAIN actions' : actions'[j].id < next_id
      BY <3>1 DEF Queued
    <3> QED
      BY <2>1, <3>4, <3>5, <3>6
  <2> QED
    BY <1>t, <2>1, <2>7, <2>9 DEF Queued
<1>6. ASSUME NEW kinds \in Seq(Kind), Request(kinds) PROVE Queued'
  <2>1. PICK new \in Seq(Req) :
          /\ actions' = actions \o new /\ Len(new) = Len(kinds)
          /\ \A i \in 1..Len(kinds) : new[i] = [id |-> next_id + i - 1, kind |-> kinds[i]]
    BY <1>6, Requesting
  <2>2. next_id' = next_id + Len(kinds) /\ next_id \in Nat /\ Len(kinds) \in Nat
        /\ UNCHANGED inbox
    BY <1>q, <1>6, Requesting, LenProperties DEF Request, sessionVars, socket
  <2>3. /\ Len(actions \o new) = Len(actions) + Len(new) /\ actions \o new \in Seq(Req)
        /\ \A i \in 1..Len(actions) : (actions \o new)[i] = actions[i]
        /\ \A i \in 1..Len(new) : (actions \o new)[Len(actions) + i] = new[i]
    BY <1>q, ConcatOf
  <2>4. DOMAIN actions' = 1..Len(actions) + Len(kinds)
    BY <1>q, <2>1, <2>3, LenProperties
  <2>5. ASSUME NEW i \in DOMAIN actions'
        PROVE  \/ i \in DOMAIN actions /\ actions'[i] = actions[i] /\ actions[i].id < next_id
               \/ i > Len(actions) /\ actions'[i].id = next_id + (i - Len(actions)) - 1
    <3>1. CASE i <= Len(actions)
      BY <1>q, <1>0, <2>1, <2>3, <2>4, <3>1 DEF Queued
    <3>2. CASE i > Len(actions)
      <4>1. i - Len(actions) \in 1..Len(kinds) /\ Len(actions) + (i - Len(actions)) = i
        BY <1>q, <1>0, <2>2, <2>4, <3>2
      <4>2. actions'[i] = new[i - Len(actions)]
        BY <2>1, <2>3, <4>1
      <4>3. new[i - Len(actions)].id = next_id + (i - Len(actions)) - 1
        <5> DEFINE l == i - Len(actions)
        <5>1. l \in 1..Len(kinds)
          BY <4>1
        <5> HIDE DEF l
        <5>2. new[l] = [id |-> next_id + l - 1, kind |-> kinds[l]]
          BY <2>1, <5>1
        <5>3. new[l].id = next_id + l - 1
          BY <5>2
        <5> QED
          BY <5>3 DEF l
      <4> QED
        BY <3>2, <4>2, <4>3
    <3> QED
      BY <1>q, <1>0, <2>4, <3>1, <3>2
  <2>6. \A i, j \in DOMAIN actions' : i < j => actions'[i].id < actions'[j].id
    <3> SUFFICES ASSUME NEW i \in DOMAIN actions', NEW j \in DOMAIN actions', i < j
                 PROVE  actions'[i].id < actions'[j].id
      OBVIOUS
    <3>1. CASE j \in DOMAIN actions
      <4>1. i \in DOMAIN actions /\ actions'[i] = actions[i] /\ actions'[j] = actions[j]
        BY <1>q, <1>0, <2>4, <2>5, <3>1
      <4> QED
        BY <3>1, <4>1 DEF Queued
    <3>2. CASE j \notin DOMAIN actions
      <4>1. actions'[j].id = next_id + (j - Len(actions)) - 1 /\ j > Len(actions)
        BY <2>5, <3>2
      <4>2. CASE i \in DOMAIN actions /\ actions'[i] = actions[i] /\ actions[i].id < next_id
        <5>1. actions[i].id \in Nat
          BY <1>0, <4>2
        <5> QED
          BY <1>q, <1>0, <2>2, <2>4, <4>1, <4>2, <5>1
      <4>3. CASE i > Len(actions) /\ actions'[i].id = next_id + (i - Len(actions)) - 1
        BY <1>q, <1>0, <2>2, <2>4, <4>1, <4>3
      <4> QED
        BY <2>5, <4>2, <4>3
    <3> QED
      BY <3>1, <3>2
  <2>7. \A i \in DOMAIN inbox, j \in DOMAIN actions' : inbox[i].id < actions'[j].id
    <3> SUFFICES ASSUME NEW i \in DOMAIN inbox, NEW j \in DOMAIN actions'
                 PROVE  inbox[i].id < actions'[j].id
      OBVIOUS
    <3>1. CASE j \in DOMAIN actions /\ actions'[j] = actions[j]
      BY <3>1 DEF Queued
    <3>2. CASE j > Len(actions) /\ actions'[j].id = next_id + (j - Len(actions)) - 1
      <4>1. inbox[i].id < next_id /\ inbox[i].id \in Nat
        BY <1>0 DEF Queued
      <4> QED
        BY <1>q, <1>0, <2>4, <2>2, <3>2, <4>1
    <3> QED
      BY <2>5, <3>1, <3>2
  <2>8. \A i \in DOMAIN inbox : inbox[i].id < next_id'
    BY <1>q, <1>0, <2>2 DEF Queued
  <2>9. \A i \in DOMAIN actions' : actions'[i].id < next_id'
    BY <1>q, <1>0, <2>2, <2>4, <2>5
  <2> QED
    BY <2>2, <2>6, <2>7, <2>8, <2>9 DEF Queued
<1>7. CASE Click
  BY <1>6, <1>7, Clicking DEF Click, Control, Refresh, Save
<1>8. CASE SessionNext /\ UNCHANGED <<actions, writing, events, app>>
  BY <1>1, <1>2, <1>3, <1>8 DEF SessionNext, HandleClient, Elsewhere, ConnChanges, Watch,
     Subscribe, Forward, Lag, Crash, Restart, app, socket
<1>9. CASE Connect \/ Receive \/ End \/ SendWaits \/ Drain \/ UNCHANGED vars
  BY <1>1, <1>2, <1>9 DEF Connect, Receive, End, SendWaits, Drain, vars, sessionVars, app, socket
<1> QED
  BY <1>4, <1>5, <1>7, <1>8, <1>9 DEF Next, RpcTask

\* What a step does to them: it loses some, or answers a line that is none; a
\* request is carried out, an answer looked at, or new requests are made.
Loses ==
  /\ Waiting' \subseteq Waiting
  /\ \A m \in Answers' : m \in Answers \/ m.id = 0
  /\ UNCHANGED <<next_id, executed, presets, listed, pending_presets_id>>

CarriesOut(r) ==
  /\ r \in Waiting /\ \A q \in Waiting' : q \in Waiting /\ r.id < q.id
  /\ executed' = Append(executed, r.id)
  /\ \A m \in Answers' :
       \/ m \in Answers
       \/ m.id = r.id /\ m.value = IF r.kind = "list" THEN presets ELSE {}
  /\ presets' = IF r.kind = "save" THEN presets \cup {r.id} ELSE presets
  /\ UNCHANGED <<next_id, listed, pending_presets_id>>

LooksAt(m) ==
  /\ m \in Answers /\ TakeList(m)
  /\ Waiting' \subseteq Waiting /\ Answers' \subseteq Answers
  /\ UNCHANGED <<next_id, executed, presets>>

Asks(kinds) ==
  /\ \A r \in Waiting' :
       r \in Waiting \/ \E i \in 1..Len(kinds) : r = [id |-> next_id + i - 1, kind |-> kinds[i]]
  /\ Answers' \subseteq Answers
  /\ Request(kinds)

\* The types of what is waiting.
LEMMA Typed ==
  ASSUME TypeOK
  PROVE  /\ \A r \in Waiting : r \in Req /\ r.id \in Id /\ r.id \in Nat
         /\ \A m \in Answers : m \in Response /\ m.id \in Nat
<1>1. /\ \A i \in DOMAIN inbox : inbox[i] \in Part
      /\ \A i \in DOMAIN actions : actions[i] \in Req
      /\ \A i \in DOMAIN outbox : outbox[i] \in Message
      /\ \A i \in DOMAIN events : events[i] \in Event
  BY Queues, Indexed
<1>2. \A i \in DOMAIN inbox : [id |-> inbox[i].id, kind |-> inbox[i].kind] \in Req
  BY <1>1 DEF Part, Req
<1>3. \A r \in Waiting : r \in Req
  BY <1>1, <1>2 DEF Waiting, Requests, Range
<1>4. \A m \in Answers : m \in Event /\ m.type = "response"
  BY <1>1, Messages DEF Answers, Range
<1>5. \A m \in Event : m.type = "response" => m \in Response /\ m.id \in Nat
  BY DEF Event, Message, Notification, Response, Id
<1> QED
  BY <1>3, <1>4, <1>5, Numbers

\* A queue of lines has the requests of its parts.
LEMMA RequestsOf ==
  ASSUME NEW s \in Seq(Part)
  PROVE  Requests(s) = {[id |-> p.id, kind |-> p.kind] : p \in Range(s)}
BY DEF Requests, Range

\* The steps of the queues, one by one.
LEMMA LosesFromWaiting ==
  ASSUME TypeOK,
         UNCHANGED inbox \/ inbox' = <<>>,
         UNCHANGED actions \/ (actions # <<>> /\ actions' = Tail(actions))
  PROVE  Waiting' \subseteq Waiting
<1>1. Requests(inbox)' \subseteq Requests(inbox)
  <2>1. inbox' = <<>> => DOMAIN inbox' = {}
    OBVIOUS
  <2> QED
    BY <2>1 DEF Requests
<1>2. Range(actions)' \subseteq Range(actions)
  <2>1. CASE UNCHANGED actions
    BY <2>1 DEF Range
  <2>2. CASE actions # <<>> /\ actions' = Tail(actions)
    BY <2>2, Queues, TailOf
  <2> QED
    BY <2>1, <2>2
<1> QED
  BY <1>1, <1>2 DEF Waiting

\* Answers that move from the socket to the channel are still waiting.
LEMMA LosesFromAnswers ==
  ASSUME TypeOK,
         \A m \in Range(outbox)' : m \in Range(outbox) \/ m.type # "response",
         \A m \in Range(events)' :
           m \in Range(events) \/ m \in Range(outbox) \/ m.type # "response"
  PROVE  Answers' \subseteq Answers
BY DEF Answers

\* A request that is written is still waiting.
LEMMA SendKeeps ==
  ASSUME TypeOK, Send
  PROVE  Waiting' \subseteq Waiting
<1>q. inbox \in Seq(Part) /\ actions \in Seq(Req)
  BY Queues
<1> DEFINE r == Head(actions)
           t == Line(r)
<1>1. actions # <<>> /\ actions' = Tail(actions) /\ inbox' = inbox \o t
  BY DEF Send
<1>2. r \in Req /\ Range(actions) = {r} \cup Range(actions')
  BY <1>q, <1>1, TailOf
<1>3. t \in Seq(Part) /\ Len(t) = Size(r.kind)
      /\ \A i \in 1..Size(r.kind) : t[i] = [id |-> r.id, kind |-> r.kind, left |-> Size(r.kind) - i]
  BY <1>2, Lines
<1>4. r = [id |-> r.id, kind |-> r.kind]
  BY <1>2 DEF Req
<1> HIDE DEF t, r
<1>5. \A p \in Range(t) : [id |-> p.id, kind |-> p.kind] = r
  <2>1. DOMAIN t = 1..Size(r.kind)
    BY <1>3, Indexed
  <2>2. \A i \in DOMAIN t : t[i].id = r.id /\ t[i].kind = r.kind
    BY <1>3, <2>1
  <2> QED
    BY <1>4, <2>2 DEF Range
<1>6. inbox \o t \in Seq(Part) /\ Range(inbox \o t) \subseteq Range(inbox) \cup Range(t)
  BY <1>q, <1>3, ConcatOf, ElementsOf
<1>7. Requests(inbox \o t) \subseteq Requests(inbox) \cup {r}
  <2> DEFINE F(p) == [id |-> p.id, kind |-> p.kind]
  <2>1. \A p \in Range(inbox \o t) : F(p) \in {F(x) : x \in Range(inbox)} \cup {r}
    BY <1>5, <1>6
  <2>2. Requests(inbox \o t) = {F(p) : p \in Range(inbox \o t)}
    BY <1>6, RequestsOf
  <2>3. Requests(inbox) = {F(p) : p \in Range(inbox)}
    BY <1>q, RequestsOf
  <2> HIDE DEF F
  <2> QED
    BY <2>1, <2>2, <2>3
<1>8. Waiting' = Requests(inbox \o t) \cup Range(actions')
  BY <1>1 DEF Waiting, Requests, Range
<1> QED
  BY <1>2, <1>7, <1>8 DEF Waiting

\* A line that is read is carried out, or is none.
LEMMA ReadFlow ==
  ASSUME TypeOK, Queued, Read, UNCHANGED <<actions, events, app>>
  PROVE  Loses \/ \E r \in Waiting : CarriesOut(r)
<1>q. SessionTypeOK /\ inbox \in Seq(Part) /\ actions \in Seq(Req) /\ next_id \in Nat
  BY Queues
<1> DEFINE p == inbox[1]
           r == [id |-> p.id, kind |-> p.kind]
<1>1. /\ 1 \in DOMAIN inbox
      /\ \A i \in DOMAIN inbox' : \E l \in DOMAIN inbox : inbox'[i] = inbox[l] /\ p.id < inbox[l].id
  BY QueuedRead
<1>2. r \in Waiting /\ r.id = p.id /\ r.kind = p.kind /\ p \in Part
  BY <1>q, <1>1, Indexed DEF Waiting, Requests
<1>3. \A q \in Waiting' : q \in Waiting /\ p.id < q.id
  <2>1. \A q \in Requests(inbox)' : q \in Requests(inbox) /\ p.id < q.id
    BY <1>1 DEF Requests
  <2>2. \A q \in Range(actions)' : q \in Range(actions) /\ p.id < q.id
    BY <1>1 DEF Range, Queued
  <2> QED
    BY <2>1, <2>2 DEF Waiting
<1>4. ASSUME NEW m \in Message, WriteLine(m)
      PROVE  \A x \in Answers' : x \in Answers \/ x = m
  <2>1. Range(outbox') = Range(outbox) \cup {m}
    BY <1>q, <1>4, Writing
  <2>2. Range(events') = Range(events) /\ Range(outbox)' = Range(outbox')
        /\ Range(events)' = Range(events')
    BY DEF Range
  <2> QED
    BY <2>1, <2>2 DEF Answers
<1>5. CASE Execute(p)
  <2> DEFINE m == [type |-> "response", id |-> p.id,
                   value |-> IF p.kind = "list" THEN presets ELSE {}]
  <2>1. m \in Message /\ WriteLine(m)
    <3>1. p.id \in Id \cup {0} /\ (IF p.kind = "list" THEN presets ELSE {}) \in SUBSET Id
      BY <1>2, Numbers, Queues
    <3> QED
      BY <1>5, <3>1, Messages DEF Execute
  <2>2. \A x \in Answers' : x \in Answers \/ x = m
    <3> HIDE DEF m, p
    <3> QED
      BY <1>4, <2>1
  <2>3. presets' = IF p.kind = "save" THEN presets \cup {p.id} ELSE presets
    <3> HIDE DEF p
    <3> QED
      BY <1>5 DEF Execute
  <2>4. executed' = Append(executed, p.id)
    BY <1>5 DEF Execute
  <2>5. m.id = p.id /\ m.value = IF p.kind = "list" THEN presets ELSE {}
    OBVIOUS
  <2> HIDE DEF m, p, r
  <2>6. UNCHANGED <<next_id, listed, pending_presets_id>>
    BY DEF app
  <2>7. CarriesOut(r)
    BY <1>2, <1>3, <2>2, <2>3, <2>4, <2>5, <2>6 DEF CarriesOut
  <2> QED
    BY <1>2, <2>7
<1>6. CASE /\ WriteLine([type |-> "response", id |-> 0, value |-> {}])
           /\ UNCHANGED <<presets, executed, channel>>
  <2> DEFINE m == [type |-> "response", id |-> 0, value |-> {}]
  <2>1. m \in Message /\ m.id = 0 /\ WriteLine(m)
    BY <1>6, Messages
  <2> HIDE DEF m
  <2>2. \A x \in Answers' : x \in Answers \/ x = m
    BY <1>4, <2>1
  <2> QED
    BY <1>3, <1>6, <2>1, <2>2 DEF Loses, app
<1> QED
  BY <1>5, <1>6 DEF Read

\* Every step is one of the four.
LEMMA Flow ==
  ASSUME TypeOK, Queued, [Next]_vars
  PROVE  \/ Loses
         \/ \E r \in Waiting : CarriesOut(r)
         \/ \E m \in Answers : LooksAt(m)
         \/ \E kinds \in {<<"set">>, <<"list">>, <<"save", "list">>} : Asks(kinds)
<1>q. /\ SessionTypeOK /\ outbox \in Seq(Message) /\ events \in Seq(Event)
      /\ actions \in Seq(Req) /\ next_id \in Nat
  BY Queues
<1>1. ASSUME Waiting' \subseteq Waiting, Answers' \subseteq Answers,
             UNCHANGED <<executed, presets, app>>
      PROVE  Loses
  BY <1>1 DEF Loses, app
<1>2. ASSUME UNCHANGED <<outbox, events>> PROVE Answers' \subseteq Answers
  BY <1>2 DEF Answers, Range
<1>3. ASSUME UNCHANGED <<inbox, actions>> \/ (inbox' = <<>> /\ UNCHANGED actions)
      PROVE  Waiting' \subseteq Waiting
  BY <1>3, LosesFromWaiting
<1>4. ASSUME NEW e \in Event, Emit(e), e \in Range(outbox) \/ e.type # "response",
             outbox' = <<>> \/ (outbox # <<>> /\ outbox' = Tail(outbox))
      PROVE  Answers' \subseteq Answers
  <2>1. Range(events)' = Range(events) \cup {e}
    BY <1>4, Emitting DEF Range
  <2>2. Range(outbox)' \subseteq Range(outbox)
    <3>1. CASE outbox' = <<>>
      BY <3>1 DEF Range
    <3>2. CASE outbox # <<>> /\ outbox' = Tail(outbox)
      <4>1. Range(outbox') \subseteq Range(outbox)
        BY <1>q, <3>2, TailOf
      <4> QED
        BY <4>1 DEF Range
    <3> QED
      BY <1>4, <3>1, <3>2
  <2> QED
    BY <1>4, <2>1, <2>2, LosesFromAnswers
<1>5. CASE SessionNext /\ UNCHANGED <<actions, writing, events, app>>
  <2>1. CASE (\E s \in State : Elsewhere(s)) \/ (\E c \in Label : ConnChanges(c)) \/ Watch
             \/ Subscribe \/ Lag \/ Restart
    <3>1. UNCHANGED <<inbox, outbox, executed, presets>>
      BY <2>1 DEF Elsewhere, ConnChanges, Watch, Subscribe, Lag, Restart, socket
    <3> QED
      BY <1>1, <1>2, <1>3, <1>5, <3>1
  <2>2. CASE Read
    BY <1>5, <2>2, ReadFlow
  <2>3. CASE Forward
    <3> DEFINE m == Head(ring)
    <3>1. m \in Notification /\ m \in Message /\ WriteLine(m)
          /\ UNCHANGED <<inbox, executed, presets>>
      BY <1>q, <2>3, TailOf, Messages DEF Forward, SessionTypeOK
    <3> HIDE DEF m
    <3>2. m.type # "response"
      BY <3>1 DEF Notification
    <3>3. Range(outbox') = Range(outbox) \cup {m}
      BY <1>q, <3>1, Writing
    <3>4. Answers' \subseteq Answers
      <4>1. Range(outbox)' = Range(outbox') /\ Range(events)' = Range(events)
        BY <1>5 DEF Range
      <4> QED
        BY <3>2, <3>3, <4>1, LosesFromAnswers
    <3> QED
      BY <1>1, <1>3, <1>5, <3>1, <3>4
  <2>4. CASE Crash
    <3>1. inbox' = <<>> /\ UNCHANGED <<executed, presets>>
      BY <2>4 DEF Crash
    <3>2. Range(outbox)' \subseteq Range(outbox)
      <4>1. CASE UNCHANGED outbox
        BY <4>1 DEF Range
      <4>2. CASE Len(outbox) = OutCap /\ outbox' = SubSeq(outbox, 1, OutCap - 1)
        <5>1. \A i \in DOMAIN outbox' : i \in DOMAIN outbox /\ outbox'[i] = outbox[i]
          <6>1. \A i \in 1..OutCap - 1 : outbox[i] \in Message
            BY <1>q, <4>2, LenProperties
          <6>2. /\ outbox' \in Seq(Message)
                /\ Len(outbox') = IF 1 <= OutCap - 1 THEN OutCap - 1 - 1 + 1 ELSE 0
                /\ \A i \in 1..OutCap - 1 - 1 + 1 : outbox'[i] = outbox[1 + i - 1]
            BY <4>2, <6>1, SubSeqProperties
          <6>3. DOMAIN outbox' = 1..OutCap - 1 /\ DOMAIN outbox = 1..OutCap
            BY <1>q, <4>2, <6>2, LenProperties
          <6> QED
            BY <6>2, <6>3, SessionAssumption
        <5> QED
          BY <5>1 DEF Range
      <4> QED
        BY <2>4, <4>1, <4>2 DEF Crash
    <3>3. Answers' \subseteq Answers
      <4>1. Range(events)' = Range(events)
        BY <1>5 DEF Range
      <4> QED
        BY <3>2, <4>1, LosesFromAnswers
    <3> QED
      BY <1>1, <1>3, <1>5, <3>1, <3>3
  <2> QED
    BY <1>5, <2>1, <2>2, <2>3, <2>4 DEF SessionNext, HandleClient
<1>6. CASE Connect
  <2>1. Answers' \subseteq Answers
    <3> DEFINE e == [type |-> "connection", value |-> "Connected"]
    <3>1. e \in Event /\ e.type # "response" /\ Emit(e) /\ outbox' = <<>>
      BY <1>6, Messages, SessionAssumption DEF Connect
    <3> HIDE DEF e
    <3> QED
      BY <1>4, <3>1
  <2> QED
    BY <1>1, <1>3, <1>6, <2>1 DEF Connect
<1>7. CASE Receive
  <2>1. Answers' \subseteq Answers
    <3>1. Head(outbox) \in Event /\ Head(outbox) \in Range(outbox)
      BY <1>q, <1>7, TailOf, Messages DEF Receive
    <3> QED
      BY <1>4, <1>7, <3>1 DEF Receive
  <2> QED
    BY <1>1, <1>3, <1>7, <2>1 DEF Receive
<1>8. CASE Disconnected /\ UNCHANGED inbox /\ UNCHANGED <<executed, presets, app>>
           /\ (UNCHANGED actions \/ (actions # <<>> /\ actions' = Tail(actions)))
  <2>1. Answers' \subseteq Answers
    <3> DEFINE e == [type |-> "disconnected"]
    <3>1. e \in Event /\ e.type # "response" /\ Emit(e) /\ outbox' = <<>>
      BY <1>8, Messages DEF Disconnected
    <3> HIDE DEF e
    <3> QED
      BY <1>4, <3>1
  <2> QED
    BY <1>1, <1>8, <2>1, LosesFromWaiting
<1>9. CASE End \/ SendFails
  BY <1>8, <1>9 DEF End, SendFails
<1>10. CASE Send
  BY <1>1, <1>2, <1>10, SendKeeps DEF Send
<1>11. CASE Drain
  <2> DEFINE e == Head(events)
  <2>1. /\ UNCHANGED <<inbox, actions, outbox, executed, presets, next_id>>
        /\ events # <<>> /\ events' = Tail(events)
    BY <1>11 DEF Drain, sessionVars, socket
  <2>2. Range(events) = {e} \cup Range(events')
    BY <1>q, <2>1, TailOf
  <2>3. Answers' \subseteq Answers
    BY <2>1, <2>2, LosesFromAnswers DEF Range
  <2>4. Waiting' \subseteq Waiting
    BY <1>3, <2>1
  <2>5. IF e.type = "response" THEN TakeList(e) ELSE UNCHANGED <<listed, pending_presets_id>>
    BY <1>11 DEF Drain
  <2>6. e.type = "response" => e \in Answers
    BY <2>2 DEF Answers
  <2> HIDE DEF e
  <2>7. CASE e.type = "response"
    <3>1. LooksAt(e)
      BY <2>1, <2>3, <2>4, <2>5, <2>6, <2>7 DEF LooksAt
    <3> QED
      BY <2>6, <2>7, <3>1
  <2>8. CASE e.type # "response"
    BY <2>1, <2>3, <2>4, <2>5, <2>8 DEF Loses
  <2> QED
    BY <2>7, <2>8
<1>12. ASSUME NEW kinds \in Seq(Kind), Request(kinds) PROVE Asks(kinds)
  <2>1. PICK new \in Seq(Req) :
          /\ actions' = actions \o new /\ Len(new) = Len(kinds)
          /\ \A i \in 1..Len(kinds) : new[i] = [id |-> next_id + i - 1, kind |-> kinds[i]]
    BY <1>12, Requesting
  <2>2. UNCHANGED <<inbox, outbox, events>>
    BY <1>12 DEF Request, sessionVars, socket
  <2>3. Range(actions \o new) \subseteq Range(actions) \cup Range(new)
    BY <1>q, <2>1, ElementsOf
  <2>4. \A r \in Range(new) :
          \E i \in 1..Len(kinds) : r = [id |-> next_id + i - 1, kind |-> kinds[i]]
    <3>1. DOMAIN new = 1..Len(kinds)
      BY <2>1, Indexed
    <3> QED
      BY <2>1, <3>1 DEF Range
  <2>5. Waiting' = Requests(inbox) \cup Range(actions \o new)
    BY <2>1, <2>2 DEF Waiting, Requests, Range
  <2> QED
    BY <1>2, <1>12, <2>2, <2>3, <2>4, <2>5 DEF Asks, Waiting
<1>13. CASE Click
  BY <1>12, <1>13, Clicking DEF Click, Control, Refresh, Save
<1>14. CASE SendWaits \/ UNCHANGED vars
  <2>1. UNCHANGED <<inbox, actions, outbox, events, executed, presets, app>>
    BY <1>14 DEF SendWaits, vars, sessionVars, socket
  <2> QED
    BY <1>1, <1>2, <1>3, <2>1
<1> QED
  BY <1>5, <1>6, <1>7, <1>9, <1>10, <1>11, <1>13, <1>14 DEF Next, RpcTask

-----------------------------------------------------------------------------
(***************************************************************************)
(* The invariant.                                                          *)
(***************************************************************************)

\* What is carried out, answered and waiting is in the order of the numbers.
Ahead ==
  /\ \A r \in Waiting :
       /\ r.id < next_id
       /\ \A i \in DOMAIN executed : executed[i] < r.id
       /\ \A m \in Answers : m.id < r.id
  /\ \A i \in DOMAIN executed : executed[i] < next_id
  /\ \A m \in Answers : m.id < next_id

\* The list waited for will be made after every save that waits.
Listing ==
  /\ pending_presets_id = None =>
       /\ presets \subseteq listed
       /\ \A r \in Waiting : r.kind # "save"
  /\ pending_presets_id # None =>
       /\ pending_presets_id < next_id
       /\ \A r \in Waiting :
            /\ r.kind = "save" => r.id < pending_presets_id
            /\ r.id = pending_presets_id => r.kind = "list"
       /\ \A m \in Answers : m.id = pending_presets_id => presets \subseteq m.value

\* The order of the numbers is kept, and with it the order of the clicks.
LEMMA AheadStep ==
  ASSUME TypeOK, Queued, Ahead, ClickOrder, [Next]_vars
  PROVE  Ahead' /\ ClickOrder'
<1>q. executed \in Seq(Id) /\ next_id \in Nat /\ next_id > 0
      /\ Len(executed) \in Nat /\ DOMAIN executed = 1..Len(executed)
      /\ \A i \in DOMAIN executed : executed[i] \in Nat
  <2>1. executed \in Seq(Id) /\ next_id \in Nat /\ next_id > 0
    BY Queues DEF TypeOK
  <2> QED
    BY <2>1, Indexed, SessionAssumption DEF Id
<1>t. /\ \A r \in Waiting : r.id \in Nat /\ r.id > 0
      /\ \A m \in Answers : m.id \in Nat
  BY Typed DEF Id
<1>1. CASE Loses
  <2>1. \A m \in Answers' : m \in Answers \/ m.id = 0
    BY <1>1 DEF Loses
  <2>2. Waiting' \subseteq Waiting /\ UNCHANGED <<next_id, executed>>
    BY <1>1 DEF Loses
  <2>3. ClickOrder'
    BY <2>2 DEF ClickOrder
  <2>4. Ahead'
    BY <1>q, <1>t, <2>1, <2>2 DEF Ahead
  <2> QED
    BY <2>3, <2>4
<1>2. ASSUME NEW r \in Waiting, CarriesOut(r) PROVE Ahead' /\ ClickOrder'
  <2>1. /\ \A q \in Waiting' : q \in Waiting /\ r.id < q.id
        /\ \A m \in Answers' : m \in Answers \/ m.id = r.id
        /\ executed' = Append(executed, r.id) /\ UNCHANGED next_id
    BY <1>2 DEF CarriesOut
  <2>2. r.id \in Id /\ r.id \in Nat
    BY Typed
  <2>3. DOMAIN executed' = 1..Len(executed) + 1
        /\ executed'[Len(executed) + 1] = r.id
        /\ \A i \in 1..Len(executed) : executed'[i] = executed[i]
    <3>1. /\ Append(executed, r.id) \in Seq(Id)
          /\ Len(Append(executed, r.id)) = Len(executed) + 1
          /\ Append(executed, r.id)[Len(executed) + 1] = r.id
          /\ \A i \in 1..Len(executed) : Append(executed, r.id)[i] = executed[i]
      BY <1>q, <2>2, AppendTo
    <3> QED
      BY <2>1, <3>1, Indexed
  <2>4. \A i \in DOMAIN executed' :
          \/ i \in DOMAIN executed /\ executed'[i] = executed[i]
          \/ i = Len(executed) + 1 /\ executed'[i] = r.id
    BY <1>q, <2>3
  <2>5. r.id < next_id /\ (\A i \in DOMAIN executed : executed[i] < r.id)
        /\ (\A m \in Answers : m.id < r.id)
    BY DEF Ahead
  <2>6. \A i \in DOMAIN executed' : executed'[i] <= r.id
    BY <1>q, <2>2, <2>4, <2>5
  <2>7. \A m \in Answers' : m.id <= r.id /\ m.id \in Nat
    BY <1>t, <2>1, <2>2, <2>5
  <2>8. \A i \in DOMAIN executed' : executed'[i] \in Nat
    BY <1>q, <2>2, <2>4
  <2>9. Ahead'
    <3>1. ASSUME NEW q \in Waiting'
          PROVE  /\ q.id < next_id'
                 /\ \A i \in DOMAIN executed' : executed'[i] < q.id
                 /\ \A m \in Answers' : m.id < q.id
      <4>1. q.id < next_id /\ r.id < q.id /\ q.id \in Nat
        BY <1>t, <2>1, <3>1 DEF Ahead
      <4> QED
        BY <2>1, <2>2, <2>6, <2>7, <2>8, <4>1
    <3>2. \A i \in DOMAIN executed' : executed'[i] < next_id'
      BY <1>q, <2>1, <2>2, <2>5, <2>6, <2>8
    <3>3. \A m \in Answers' : m.id < next_id'
      BY <1>q, <2>1, <2>2, <2>5, <2>7
    <3> QED
      BY <3>1, <3>2, <3>3 DEF Ahead
  <2>10. ClickOrder'
    <3> SUFFICES ASSUME NEW i \in DOMAIN executed', NEW j \in DOMAIN executed', i < j
                 PROVE  executed'[i] < executed'[j]
      BY DEF ClickOrder
    <3>1. i \in DOMAIN executed /\ executed'[i] = executed[i]
      BY <1>q, <2>3, <2>4
    <3>2. CASE j \in DOMAIN executed /\ executed'[j] = executed[j]
      BY <3>1, <3>2 DEF ClickOrder
    <3>3. CASE executed'[j] = r.id
      BY <2>5, <3>1, <3>3
    <3> QED
      BY <2>4, <3>2, <3>3
  <2> QED
    BY <2>9, <2>10
<1>3. ASSUME NEW m \in Answers, LooksAt(m) PROVE Ahead' /\ ClickOrder'
  <2>1. Waiting' \subseteq Waiting /\ Answers' \subseteq Answers /\ UNCHANGED <<next_id, executed>>
    BY <1>3 DEF LooksAt
  <2> QED
    BY <2>1 DEF Ahead, ClickOrder
<1>4. ASSUME NEW kinds \in Seq(Kind), Asks(kinds) PROVE Ahead' /\ ClickOrder'
  <2>1. /\ \A r \in Waiting' : r \in Waiting \/ r.id \in next_id..next_id + Len(kinds) - 1
        /\ Answers' \subseteq Answers
    <3>1. Len(kinds) \in Nat
      BY LenProperties
    <3>2. \A i \in 1..Len(kinds) :
            [id |-> next_id + i - 1, kind |-> kinds[i]].id \in next_id..next_id + Len(kinds) - 1
      BY <1>q, <3>1
    <3> QED
      BY <1>4, <3>2 DEF Asks
  <2>2. next_id' = next_id + Len(kinds) /\ Len(kinds) \in Nat /\ UNCHANGED executed
    BY <1>4, LenProperties DEF Asks, Request, sessionVars
  <2>3. ClickOrder'
    BY <2>2 DEF ClickOrder
  <2>4. ASSUME NEW r \in Waiting'
        PROVE  /\ r.id < next_id'
               /\ \A i \in DOMAIN executed : executed[i] < r.id
               /\ \A m \in Answers : m.id < r.id
    <3>1. CASE r \in Waiting
      BY <1>q, <1>t, <2>2, <3>1 DEF Ahead
    <3>2. CASE r.id \in next_id..next_id + Len(kinds) - 1
      BY <1>q, <1>t, <2>2, <3>2 DEF Ahead
    <3> QED
      BY <2>1, <3>1, <3>2
  <2>5. (\A i \in DOMAIN executed : executed[i] < next_id') /\ (\A m \in Answers : m.id < next_id')
    BY <1>q, <1>t, <2>2 DEF Ahead
  <2>6. Ahead'
    BY <2>1, <2>2, <2>4, <2>5 DEF Ahead
  <2> QED
    BY <2>3, <2>6
<1> QED
  BY <1>1, <1>2, <1>3, <1>4, Flow, Clicking

\* Every step keeps Listing.
LEMMA ListingStep ==
  ASSUME TypeOK, Queued, Ahead, Listing, [Next]_vars
  PROVE  Listing'
<1>q. /\ next_id \in Nat /\ next_id > 0
      /\ pending_presets_id \in Id \cup {None} /\ None \notin Id
      /\ \A i \in Id : i \in Nat /\ i > 0
  BY TuiAssumption, Queues DEF TypeOK, Id
<1>t. /\ \A r \in Waiting : r.id \in Nat /\ r.id > 0
      /\ \A m \in Answers : m.id \in Nat
  BY Typed DEF Id
<1>1. CASE Loses
  <2>1. \A m \in Answers' : m \in Answers \/ m.id = 0
    BY <1>1 DEF Loses
  <2>2. Waiting' \subseteq Waiting /\ UNCHANGED <<next_id, presets, listed, pending_presets_id>>
    BY <1>1 DEF Loses
  <2>3. pending_presets_id # None =>
          \A m \in Answers' : m.id = pending_presets_id => presets \subseteq m.value
    <3> SUFFICES ASSUME pending_presets_id # None,
                        NEW m \in Answers', m.id = pending_presets_id
                 PROVE  presets \subseteq m.value
      OBVIOUS
    <3>1. m \in Answers
      BY <1>q, <2>1
    <3> QED
      BY <3>1 DEF Listing
  <2> QED
    BY <2>2, <2>3 DEF Listing
<1>2. ASSUME NEW r \in Waiting, CarriesOut(r) PROVE Listing'
  <2>1. /\ \A q \in Waiting' : q \in Waiting /\ r.id < q.id
        /\ UNCHANGED <<next_id, listed, pending_presets_id>>
    BY <1>2 DEF CarriesOut
  <2>2. \A m \in Answers' :
          m \in Answers \/ (m.id = r.id /\ (r.kind = "list" => m.value = presets))
    BY <1>2 DEF CarriesOut
  <2>3. UNCHANGED presets \/ (r.kind = "save" /\ presets' = presets \cup {r.id})
    BY <1>2 DEF CarriesOut
  <2>4. CASE pending_presets_id = None
    <3>1. UNCHANGED presets
      BY <2>3, <2>4 DEF Listing
    <3> QED
      BY <2>1, <2>4, <3>1 DEF Listing
  <2>5. CASE pending_presets_id # None
    <3>1. ASSUME NEW m \in Answers', m.id = pending_presets_id
          PROVE  presets' \subseteq m.value
      <4>1. CASE m \in Answers
        <5>1. m.id < r.id
          BY <4>1 DEF Ahead
        <5>2. r.kind # "save"
          <6>1. r.kind = "save" => r.id < m.id
            BY <2>5, <3>1 DEF Listing
          <6> QED
            BY <1>t, <4>1, <5>1, <6>1
        <5> QED
          BY <2>3, <2>5, <3>1, <4>1, <5>2 DEF Listing
      <4>2. CASE m.id = r.id /\ (r.kind = "list" => m.value = presets)
        <5>1. r.kind = "list"
          BY <2>5, <3>1, <4>2 DEF Listing
        <5> QED
          BY <2>3, <4>2, <5>1
      <4> QED
        BY <2>2, <4>1, <4>2
    <3> QED
      BY <2>1, <2>5, <3>1 DEF Listing
  <2> QED
    BY <2>4, <2>5
<1>3. ASSUME NEW m \in Answers, LooksAt(m) PROVE Listing'
  <2>1. /\ Waiting' \subseteq Waiting /\ Answers' \subseteq Answers
        /\ UNCHANGED <<next_id, presets>> /\ TakeList(m)
    BY <1>3 DEF LooksAt
  <2>2. CASE m.id = pending_presets_id
    <3>0. m.id \in Id \cup {0}
      BY Typed DEF Response
    <3>1. listed' = m.value /\ pending_presets_id' = None /\ pending_presets_id # None
      BY <2>1, <2>2, <3>0, TuiAssumption DEF TakeList
    <3>2. presets \subseteq m.value
      BY <2>2, <3>1 DEF Listing
    <3>3. \A r \in Waiting : r.kind # "save"
      <4> SUFFICES ASSUME NEW r \in Waiting, r.kind = "save" PROVE FALSE
        OBVIOUS
      <4>1. r.id < m.id
        BY <2>2, <3>1 DEF Listing
      <4>2. m.id < r.id
        BY DEF Ahead
      <4> QED
        BY <1>t, <4>1, <4>2
    <3> QED
      BY <2>1, <3>1, <3>2, <3>3 DEF Listing
  <2>3. CASE m.id # pending_presets_id
    <3>1. UNCHANGED <<listed, pending_presets_id>>
      BY <2>1, <2>3 DEF TakeList
    <3> QED
      BY <2>1, <3>1 DEF Listing
  <2> QED
    BY <2>2, <2>3
<1>4. CASE Asks(<<"set">>)
  <2>1. \A r \in Waiting' : r \in Waiting \/ r = [id |-> next_id, kind |-> "set"]
    BY <1>4, <1>q DEF Asks
  <2>2. UNCHANGED <<presets, listed, pending_presets_id>> /\ next_id' = next_id + 1
    BY <1>4 DEF Asks, Request, sessionVars
  <2>3. Answers' \subseteq Answers
    BY <1>4 DEF Asks
  <2>4. \A r \in Waiting' : r \in Waiting \/ (r.id = next_id /\ r.kind = "set")
    BY <2>1
  <2>5. pending_presets_id # None => pending_presets_id < next_id /\ pending_presets_id \in Nat
    BY <1>q DEF Listing
  <2>6. pending_presets_id # None => pending_presets_id < next_id'
    BY <1>q, <2>2, <2>5
  <2>7. pending_presets_id # None =>
          \A r \in Waiting' :
            /\ r.kind = "save" => r.id < pending_presets_id
            /\ r.id = pending_presets_id => r.kind = "list"
    BY <1>q, <2>4, <2>5 DEF Listing
  <2> QED
    BY <2>2, <2>3, <2>4, <2>6, <2>7 DEF Listing
<1>5. ASSUME NEW k \in Nat, pending_presets_id' = next_id + k, next_id' = next_id + k + 1,
             UNCHANGED presets, Answers' \subseteq Answers,
             \A r \in Waiting' :
               \/ r \in Waiting
               \/ r.id < next_id + k
               \/ r.id = next_id + k /\ r.kind = "list"
      PROVE  Listing'
  <2>1. pending_presets_id' # None
    <3>1. pending_presets_id' \in Id \cup {None} /\ next_id' \in 3..MaxRequests + 1
      BY TypeStep DEF TypeOK
    <3>2. next_id + k \in Id
      BY <1>q, <1>5, <3>1, SessionAssumption DEF Id
    <3> QED
      BY <1>q, <1>5, <3>2
  <2>2. \A r \in Waiting : r.id < next_id + k
    BY <1>q, <1>t, <1>5 DEF Ahead
  <2>3. \A m \in Answers' : m.id # next_id + k
    BY <1>q, <1>t, <1>5 DEF Ahead
  <2>4. \A r \in Waiting' : r.id < next_id + k \/ (r.id = next_id + k /\ r.kind = "list")
    BY <1>5, <2>2
  <2>5. \A r \in Waiting' : (r.kind = "save" => r.id < next_id + k)
                            /\ (r.id = next_id + k => r.kind = "list")
    BY <1>q, <1>5, <2>4
  <2> QED
    BY <1>q, <1>5, <2>1, <2>3, <2>5 DEF Listing
<1>6. CASE Asks(<<"list">>)
  <2>1. \A r \in Waiting' : r \in Waiting \/ r = [id |-> next_id, kind |-> "list"]
    BY <1>6, <1>q DEF Asks
  <2>2. UNCHANGED presets /\ next_id' = next_id + 1 /\ Answers' \subseteq Answers
    BY <1>6 DEF Asks, Request, sessionVars
  <2>3. pending_presets_id' = next_id
    <3> DEFINE s == <<"list">>
    <3>1. DOMAIN s = {1} /\ s[1] = "list"
      OBVIOUS
    <3>2. pending_presets_id' = IF \E i \in DOMAIN s : s[i] = "list"
                                THEN next_id + (CHOOSE i \in DOMAIN s : s[i] = "list") - 1
                                ELSE pending_presets_id
      BY <1>6 DEF Asks, Request
    <3> HIDE DEF s
    <3>3. (CHOOSE i \in DOMAIN s : s[i] = "list") = 1
      BY <3>1
    <3> QED
      BY <1>q, <3>1, <3>2, <3>3
  <2> QED
    BY <1>q, <1>5, <2>1, <2>2, <2>3
<1>7. CASE Asks(<<"save", "list">>)
  <2>1. \A r \in Waiting' : \/ r \in Waiting
                            \/ r.id = next_id
                            \/ r.id = next_id + 1 /\ r.kind = "list"
    <3> SUFFICES ASSUME NEW r \in Waiting', r \notin Waiting
                 PROVE  r.id = next_id \/ (r.id = next_id + 1 /\ r.kind = "list")
      OBVIOUS
    <3>1. PICK i \in {1, 2} : r = [id |-> next_id + i - 1, kind |-> <<"save", "list">>[i]]
      BY <1>7 DEF Asks
    <3> QED
      BY <1>q, <3>1
  <2>2. UNCHANGED presets /\ next_id' = next_id + 2 /\ Answers' \subseteq Answers
    BY <1>7 DEF Asks, Request, sessionVars
  <2>3. pending_presets_id' = next_id + 1
    <3> DEFINE s == <<"save", "list">>
    <3>1. DOMAIN s = {1, 2} /\ s[1] # "list" /\ s[2] = "list"
      OBVIOUS
    <3>2. pending_presets_id' = IF \E i \in DOMAIN s : s[i] = "list"
                                THEN next_id + (CHOOSE i \in DOMAIN s : s[i] = "list") - 1
                                ELSE pending_presets_id
      BY <1>7 DEF Asks, Request
    <3> HIDE DEF s
    <3>3. (CHOOSE i \in DOMAIN s : s[i] = "list") = 2
      BY <3>1
    <3> QED
      BY <1>q, <3>1, <3>2, <3>3
  <2>4. \A r \in Waiting' : \/ r \in Waiting
                            \/ r.id < next_id + 1
                            \/ r.id = next_id + 1 /\ r.kind = "list"
    BY <1>q, <2>1
  <2> QED
    BY <1>q, <1>5, <2>2, <2>3, <2>4
<1> QED
  BY <1>1, <1>2, <1>3, <1>4, <1>6, <1>7, Flow

\* A client is served by a daemon that runs, over a socket that is open.
Linked ==
  /\ subscribed => up /\ link = "up"
  /\ link = "up" => up
  /\ ~subscribed => ring = <<>> /\ ~lagged /\ last = None

\* The loss of a connection is the last thing the App is told.
Status ==
  link = "down" => IF events = <<>> THEN connection_status = "Disconnected"
                                    ELSE events[Len(events)].type = "disconnected"

\* n is in s, and only answers come after it; there are only answers in s.
EndsIn(s, n) == \E i \in DOMAIN s : s[i] = n /\ \A j \in DOMAIN s : j > i => s[j].type = "response"
Silent(s)    == \A i \in DOMAIN s : s[i].type = "response"

Shown == \/ last.type = "state" /\ state = last.value
         \/ last.type = "connection" /\ connection_status = last.value

\* A connection state sent last is the present one or is about to be sent again.
Current == last # None /\ last.type = "connection" /\ ~unseen => last.value = conn

\* The notification sent last is the last one in the ring, in the socket, in the
\* App's channel, or shown.
OnItsWay ==
  last # None =>
    \/ ring # <<>> /\ ring[Len(ring)] = last
    \/ ring = <<>> /\ EndsIn(outbox, last)
    \/ ring = <<>> /\ Silent(outbox) /\ EndsIn(events, last)
    \/ ring = <<>> /\ Silent(outbox) /\ Silent(events) /\ Shown

\* Every step keeps Linked.
LEMMA LinkedStep == ASSUME TypeOK, Linked, [Next]_vars PROVE Linked'
<1> USE DEF Linked, socket
<1>1. ASSUME NEW n, Broadcast(n), UNCHANGED <<up, link, subscribed>> PROVE Linked'
  BY <1>1 DEF Broadcast, channel
<1>2. ASSUME NEW s \in State, Elsewhere(s) PROVE Linked'
  BY <1>1, <1>2 DEF Elsewhere
<1>3. CASE Watch
  BY <1>1, <1>3 DEF Watch
<1>4. CASE Read
  <2>1. subscribed /\ UNCHANGED <<up, link, subscribed>>
    BY <1>4 DEF Read
  <2> QED
    BY <2>1
<1>5. CASE (\E c \in Label : ConnChanges(c)) \/ Subscribe \/ Forward \/ Lag \/ Crash \/ Restart
  BY <1>5 DEF ConnChanges, Subscribe, Forward, Lag, Crash, Restart, channel, TypeOK, SessionTypeOK
<1>6. CASE RpcTask
  BY <1>6 DEF RpcTask, Connect, Receive, End, Send, SendWaits, SendFails, Disconnected, channel,
     sessionVars
<1>7. CASE UNCHANGED sessionVars
  BY <1>7 DEF sessionVars, channel
<1> QED
  BY <1>2, <1>3, <1>4, <1>5, <1>6, <1>7 DEF Next, SessionNext, HandleClient, Drain, Click,
     Control, Refresh, Save, Request, vars

\* Every step keeps Status.
LEMMA StatusStep == ASSUME TypeOK, Status, [Next]_vars PROVE Status'
<1>q. events \in Seq(Event)
  BY Queues
<1>1. CASE SessionNext /\ UNCHANGED <<actions, writing, events, app>>
  <2>1. link' = "down" => link = "down"
    BY <1>1 DEF SessionNext, HandleClient, Elsewhere, ConnChanges, Watch, Subscribe, Read,
       Forward, Lag, Crash, Restart, socket
  <2> QED
    BY <1>1, <2>1 DEF Status, app
<1>2. CASE Connect \/ Receive \/ Send
  <2>1. link' # "down"
    BY <1>2 DEF Connect, Receive, Send
  <2> QED
    BY <2>1 DEF Status
<1>3. CASE End \/ SendFails
  <2>1. Disconnected
    BY <1>3 DEF End, SendFails
  <2> DEFINE e == [type |-> "disconnected"]
  <2>2. e \in Event /\ Emit(e) /\ e.type = "disconnected"
    BY <2>1, Messages DEF Disconnected
  <2> HIDE DEF e
  <2>3. events' # <<>> /\ events'[Len(events')] = e
    BY <2>2, Emitting
  <2> QED
    BY <2>2, <2>3 DEF Status
<1>4. CASE Drain
  <2>1. events # <<>> /\ events' = Tail(events) /\ UNCHANGED link
    BY <1>4 DEF Drain, sessionVars, socket
  <2>2. /\ events' \in Seq(Event) /\ Len(events) \in Nat \ {0} /\ Len(events') = Len(events) - 1
        /\ \A i \in 1..Len(events) - 1 : events'[i] = events[i + 1]
        /\ Head(events) = events[1]
    BY <1>q, <2>1, TailOf
  <2>3. CASE events' = <<>> /\ link = "down"
    <3>1. Len(events) = 1
      BY <2>2, <2>3
    <3>2. Head(events).type = "disconnected"
      BY <2>1, <2>2, <2>3, <3>1 DEF Status
    <3>3. connection_status' = "Disconnected"
      BY <1>4, <3>2 DEF Drain
    <3> QED
      BY <2>3, <3>3 DEF Status
  <2>4. CASE events' # <<>> /\ link = "down"
    <3>1. Len(events') # 0
      BY <2>2, <2>4, EmptySeq
    <3>2. Len(events') \in 1..Len(events) - 1 /\ Len(events') + 1 = Len(events)
      BY <2>2, <3>1
    <3>3. events'[Len(events')] = events[Len(events)]
      BY <2>2, <3>2
    <3> QED
      BY <2>1, <2>4, <3>3 DEF Status
  <2> QED
    BY <2>1, <2>3, <2>4 DEF Status
<1>5. CASE SendWaits \/ Click \/ UNCHANGED vars
  BY <1>5 DEF SendWaits, Click, Control, Refresh, Save, Request, vars, app, sessionVars, socket,
     Status
<1> QED
  BY <1>1, <1>2, <1>3, <1>4, <1>5 DEF Next, RpcTask

\* An answer may be appended; and what is appended is last.
LEMMA EndsAppend ==
  ASSUME NEW S, NEW s \in Seq(S), NEW e \in S, NEW n
  PROVE  /\ EndsIn(Append(s, e), e)
         /\ EndsIn(s, n) /\ e.type = "response" => EndsIn(Append(s, e), n)
         /\ Silent(s) /\ e.type = "response" => Silent(Append(s, e))
<1>1. /\ Append(s, e) \in Seq(S) /\ Len(s) \in Nat
      /\ DOMAIN s = 1..Len(s) /\ DOMAIN Append(s, e) = 1..Len(s) + 1
      /\ Append(s, e)[Len(s) + 1] = e
      /\ \A i \in 1..Len(s) : Append(s, e)[i] = s[i]
  BY AppendTo, Indexed
<1> DEFINE t == Append(s, e)
           k == Len(s)
<1>2. k \in Nat /\ DOMAIN s = 1..k /\ DOMAIN t = 1..k + 1 /\ t[k + 1] = e
      /\ \A i \in 1..k : t[i] = s[i]
  BY <1>1
<1> HIDE DEF t, k
<1>3. \A i \in DOMAIN t : i = k + 1 \/ i \in DOMAIN s
  BY <1>2
<1>4. EndsIn(t, e)
  <2>1. k + 1 \in DOMAIN t /\ ~\E j \in DOMAIN t : j > k + 1
    BY <1>2
  <2> QED
    BY <1>2, <2>1 DEF EndsIn
<1>5. ASSUME EndsIn(s, n), e.type = "response" PROVE EndsIn(t, n)
  <2>1. PICK i \in DOMAIN s : s[i] = n /\ \A j \in DOMAIN s : j > i => s[j].type = "response"
    BY <1>5 DEF EndsIn
  <2>2. i \in DOMAIN t /\ t[i] = n
    BY <1>2, <2>1
  <2>3. \A j \in DOMAIN t : j > i => t[j].type = "response"
    BY <1>2, <1>3, <1>5, <2>1
  <2> QED
    BY <2>2, <2>3 DEF EndsIn
<1>6. ASSUME Silent(s), e.type = "response" PROVE Silent(t)
  BY <1>2, <1>3, <1>6 DEF Silent
<1> QED
  BY <1>4, <1>5, <1>6 DEF t

\* The notification stays in the queue until it is the one taken from it.
LEMMA EndsTail ==
  ASSUME NEW S, NEW s \in Seq(S), s # <<>>, NEW n
  PROVE  /\ EndsIn(s, n) => EndsIn(Tail(s), n) \/ (Head(s) = n /\ Silent(Tail(s)))
         /\ Silent(s) => Silent(Tail(s)) /\ Head(s).type = "response"
<1>1. /\ Tail(s) \in Seq(S) /\ Len(s) \in Nat \ {0} /\ Len(Tail(s)) = Len(s) - 1
      /\ \A i \in 1..Len(s) - 1 : Tail(s)[i] = s[i + 1]
      /\ Head(s) = s[1]
  BY TailOf
<1> DEFINE t == Tail(s)
           k == Len(s)
<1>2. /\ k \in Nat /\ k > 0 /\ DOMAIN s = 1..k /\ DOMAIN t = 1..k - 1
      /\ \A i \in 1..k - 1 : t[i] = s[i + 1]
      /\ Head(s) = s[1]
  BY <1>1, Indexed
<1> HIDE DEF t, k
<1>3. \A i \in DOMAIN t : i + 1 \in DOMAIN s /\ t[i] = s[i + 1]
  BY <1>2
<1>4. ASSUME EndsIn(s, n) PROVE EndsIn(t, n) \/ (Head(s) = n /\ Silent(t))
  <2>1. PICK i \in DOMAIN s : s[i] = n /\ \A j \in DOMAIN s : j > i => s[j].type = "response"
    BY <1>4 DEF EndsIn
  <2>2. CASE i = 1
    <3>1. \A j \in DOMAIN t : t[j].type = "response"
      BY <1>2, <1>3, <2>1, <2>2
    <3> QED
      BY <1>2, <2>1, <2>2, <3>1 DEF Silent
  <2>3. CASE i # 1
    <3>1. i - 1 \in DOMAIN t /\ t[i - 1] = n
      BY <1>2, <2>1, <2>3
    <3>2. \A j \in DOMAIN t : j > i - 1 => t[j].type = "response"
      BY <1>2, <1>3, <2>1
    <3> QED
      BY <3>1, <3>2 DEF EndsIn
  <2> QED
    BY <2>2, <2>3
<1>5. ASSUME Silent(s) PROVE Silent(t) /\ Head(s).type = "response"
  BY <1>2, <1>3, <1>5 DEF Silent
<1> QED
  BY <1>4, <1>5 DEF t

\* Every step keeps Current.
LEMMA CurrentStep == ASSUME TypeOK, Linked, Current, [Next]_vars PROVE Current'
<1>1. ASSUME NEW s \in State, Broadcast([type |-> "state", value |-> s]), UNCHANGED watcher
      PROVE  Current'
  BY <1>1 DEF Broadcast, Current, watcher, channel
<1>2. ASSUME UNCHANGED <<last, conn, unseen>> PROVE Current'
  BY <1>2 DEF Current
<1>3. ASSUME NEW s \in State, Elsewhere(s) PROVE Current'
  BY <1>1, <1>3 DEF Elsewhere
<1>4. CASE Watch
  BY <1>4 DEF Watch, Broadcast, Current, Linked, channel
<1>5. CASE Read
  <2>1. UNCHANGED watcher
    BY <1>5 DEF Read
  <2>2. UNCHANGED channel \/ \E s \in State : Broadcast([type |-> "state", value |-> s])
    BY <1>5 DEF Read, Execute
  <2> QED
    BY <1>1, <1>2, <2>1, <2>2 DEF watcher, channel
<1>6. CASE (\E c \in Label : ConnChanges(c)) \/ Restart
  BY <1>6 DEF ConnChanges, Restart, Current
<1>7. CASE Subscribe \/ Crash
  BY <1>7 DEF Subscribe, Crash, Current
<1>8. CASE Forward \/ Lag
  BY <1>2, <1>8 DEF Forward, Lag, watcher
<1>9. CASE RpcTask
  BY <1>2, <1>9 DEF RpcTask, Connect, Receive, End, Send, SendWaits, SendFails, watcher, channel,
     sessionVars
<1>10. CASE UNCHANGED sessionVars
  BY <1>2, <1>10 DEF sessionVars, watcher, channel
<1> QED
  BY <1>3, <1>4, <1>5, <1>6, <1>7, <1>8, <1>9, <1>10 DEF Next, SessionNext, HandleClient, Drain,
     Click, Control, Refresh, Save, Request, vars

\* Every step moves the notification sent last onward, or sends a later one.
LEMMA OnItsWayStep == ASSUME TypeOK, Linked, OnItsWay, [Next]_vars PROVE OnItsWay'
<1>q. /\ SessionTypeOK /\ outbox \in Seq(Message) /\ events \in Seq(Event)
      /\ ring \in Seq(Notification) /\ last \in Notification \cup {None}
  BY Queues DEF SessionTypeOK
<1>n. \A n \in Notification : n.type # "response" /\ n \in Message /\ n \in Event
  BY Messages DEF Notification
<1>0. ASSUME last' = None PROVE OnItsWay'
  BY <1>0 DEF OnItsWay
<1>1. ASSUME NEW n \in Notification, Broadcast(n), UNCHANGED subscribed PROVE OnItsWay'
  <2>1. CASE subscribed
    BY <1>q, <1>1, <2>1, Broadcasting DEF OnItsWay
  <2>2. CASE ~subscribed
    BY <1>0, <1>1, <2>2 DEF Linked, Broadcast, channel
  <2> QED
    BY <2>1, <2>2
<1>2. ASSUME UNCHANGED <<ring, last, outbox, events, state, connection_status>> PROVE OnItsWay'
  BY <1>2 DEF OnItsWay, Shown
<1>3. CASE SessionNext /\ UNCHANGED <<actions, writing, events, app>>
  <2>1. ASSUME NEW s \in State, Elsewhere(s) PROVE OnItsWay'
    BY <1>1, <2>1, Messages DEF Elsewhere
  <2>2. CASE Watch
    <3>1. [type |-> "connection", value |-> conn] \in Notification
      BY <1>q, Messages DEF SessionTypeOK
    <3> QED
      BY <1>1, <2>2, <3>1 DEF Watch
  <2>3. CASE Read
    <3>1. CASE \E s \in State : Broadcast([type |-> "state", value |-> s])
      BY <1>1, <2>3, <3>1, Messages DEF Read
    <3>2. CASE UNCHANGED channel
      <4>1. PICK m \in Message : m.type = "response" /\ WriteLine(m)
        <5>1. CASE Execute(inbox[1])
          <6> DEFINE m == [type |-> "response", id |-> inbox[1].id,
                           value |-> IF inbox[1].kind = "list" THEN presets ELSE {}]
          <6>1. inbox[1].id \in Id \cup {0}
                /\ (IF inbox[1].kind = "list" THEN presets ELSE {}) \in SUBSET Id
            BY <1>q, <2>3, Reading, Numbers, Queues
          <6>2. m \in Message /\ m.type = "response" /\ WriteLine(m)
            BY <5>1, <6>1, Messages DEF Execute
          <6> QED
            BY <6>2
        <5>2. CASE WriteLine([type |-> "response", id |-> 0, value |-> {}])
          <6> DEFINE m == [type |-> "response", id |-> 0, value |-> {}]
          <6>1. m \in Message /\ m.type = "response" /\ WriteLine(m)
            BY <5>2, Messages
          <6> QED
            BY <6>1
        <5> QED
          BY <2>3, <5>1, <5>2 DEF Read
      <4>2. outbox' = Append(outbox, m)
        BY <4>1 DEF WriteLine
      <4>3. /\ EndsIn(outbox, last) => EndsIn(outbox', last)
            /\ Silent(outbox) => Silent(outbox')
        BY <1>q, <4>1, <4>2, EndsAppend
      <4> QED
        BY <1>3, <3>2, <4>3 DEF OnItsWay, Shown, channel, app
    <3> QED
      BY <2>3, <3>1, <3>2 DEF Read, Execute
  <2>4. CASE Forward
    <3>1. /\ ring # <<>> /\ ring' = Tail(ring) /\ outbox' = Append(outbox, Head(ring))
          /\ UNCHANGED last
      BY <2>4 DEF Forward, WriteLine
    <3>2. /\ ring' \in Seq(Notification) /\ Len(ring) \in Nat \ {0} /\ Len(ring') = Len(ring) - 1
          /\ \A i \in 1..Len(ring) - 1 : ring'[i] = ring[i + 1]
          /\ Head(ring) = ring[1] /\ Head(ring) \in Notification
      BY <1>q, <3>1, TailOf
    <3>3. EndsIn(outbox', Head(ring))
      BY <1>q, <1>n, <3>1, <3>2, EndsAppend
    <3>4. ring' = <<>> => Len(ring) = 1
      BY <3>2
    <3>5. ring' # <<>> => ring'[Len(ring')] = ring[Len(ring)]
      <4>1. ring' # <<>> => Len(ring') # 0
        BY <3>2, EmptySeq
      <4> QED
        BY <3>2, <4>1
    <3> QED
      BY <3>1, <3>2, <3>3, <3>4, <3>5 DEF OnItsWay
  <2>5. CASE Subscribe \/ Crash
    BY <1>0, <2>5 DEF Subscribe, Crash
  <2>6. CASE (\E c \in Label : ConnChanges(c)) \/ Lag \/ Restart
    BY <1>2, <1>3, <2>6 DEF ConnChanges, Lag, Restart, channel, socket, app
  <2> QED
    BY <1>3, <2>1, <2>2, <2>3, <2>4, <2>5, <2>6 DEF SessionNext, HandleClient
<1>4. CASE Connect \/ End \/ SendFails
  <2>1. link # "up" /\ UNCHANGED last
    BY <1>4 DEF Connect, End, SendFails, channel
  <2> QED
    BY <1>0, <2>1 DEF Linked
<1>5. CASE Receive
  <2> DEFINE e == Head(outbox)
  <2>1. /\ outbox # <<>> /\ outbox' = Tail(outbox) /\ events' = Append(events, e)
        /\ UNCHANGED <<ring, last, state, connection_status>>
    BY <1>5 DEF Receive, Emit, channel, app
  <2>2. /\ EndsIn(outbox, last) => EndsIn(outbox', last) \/ (e = last /\ Silent(outbox'))
        /\ Silent(outbox) => Silent(outbox') /\ e.type = "response"
    BY <1>q, <2>1, EndsTail
  <2>3. e \in Event
    BY <1>q, <2>1, TailOf, Messages
  <2> HIDE DEF e
  <2>4. /\ EndsIn(events', e)
        /\ EndsIn(events, last) /\ e.type = "response" => EndsIn(events', last)
        /\ Silent(events) /\ e.type = "response" => Silent(events')
    BY <1>q, <2>1, <2>3, EndsAppend
  <2> QED
    BY <2>1, <2>2, <2>4 DEF OnItsWay, Shown
<1>6. CASE Drain
  <2> DEFINE e == Head(events)
  <2>1. /\ events # <<>> /\ events' = Tail(events)
        /\ UNCHANGED <<ring, last, outbox>>
    BY <1>6 DEF Drain, sessionVars, channel, socket
  <2>2. /\ EndsIn(events, last) => EndsIn(events', last) \/ (e = last /\ Silent(events'))
        /\ Silent(events) => Silent(events') /\ e.type = "response"
    BY <1>q, <2>1, EndsTail
  <2>3. /\ e.type = "state" => state' = e.value
        /\ e.type = "connection" => connection_status' = e.value
        /\ e.type = "response" => UNCHANGED <<state, connection_status>>
    <3>1. state' = IF e.type = "state" THEN e.value ELSE state
      BY <1>6 DEF Drain
    <3>2. connection_status' = CASE e.type = "connection"   -> e.value
                                 [] e.type = "disconnected" -> "Disconnected"
                                 [] OTHER                   -> connection_status
      BY <1>6 DEF Drain
    <3> HIDE DEF e
    <3> QED
      BY <3>1, <3>2
  <2> HIDE DEF e
  <2>4. last # None => last.type \in {"state", "connection"}
    BY <1>q DEF Notification
  <2> QED
    BY <2>1, <2>2, <2>3, <2>4 DEF OnItsWay, Shown
<1>7. CASE Send \/ SendWaits \/ Click \/ UNCHANGED vars
  BY <1>2, <1>7 DEF Send, SendWaits, Click, Control, Refresh, Save, Request, vars, sessionVars,
     channel, socket, app
<1> QED
  BY <1>3, <1>4, <1>5, <1>6, <1>7 DEF Next, RpcTask

-----------------------------------------------------------------------------
(***************************************************************************)
(* The service the App relies on: the four kinds of steps are those of     *)
(* RequestService.                                                         *)
(***************************************************************************)

\* Answers that get lost, to requests or not, take no reply with them but their own.
LEMMA RepliesOf ==
  ASSUME NEW A, \A m \in Answers' : m \in Answers \/ m.id = 0 \/ [id |-> m.id, value |-> m.value] \in A
  PROVE  Replies' \subseteq Replies \cup A
BY DEF Replies

\* Every step is one of the service, or nothing the App can tell.
LEMMA AbstractStep ==
  ASSUME TypeOK, Queued, [Next]_vars
  PROVE  [Abstract!Next]_(Abstract!vars)
<1>1. CASE Loses
  <2>1. Replies' \subseteq Replies \cup {}
    BY <1>1, RepliesOf DEF Loses
  <2>2. Abstract!Lose
    BY <1>1, <2>1 DEF Loses, Abstract!Lose
  <2> QED
    BY <2>2 DEF Abstract!Next
<1>2. ASSUME NEW r \in Waiting, CarriesOut(r)
      PROVE  Abstract!Next
  <2>1. Replies' \subseteq Replies \cup {Abstract!Answer(r)}
    BY <1>2, RepliesOf DEF CarriesOut, Abstract!Answer
  <2>2. Waiting' \subseteq {q \in Waiting : q.id > r.id}
    <3>1. \A q \in Waiting' : q \in Waiting /\ q.id \in Nat /\ r.id \in Nat /\ r.id < q.id
      BY <1>2, Typed DEF CarriesOut
    <3> QED
      BY <3>1
  <2>3. Abstract!CarryOut(r)
    BY <1>2, <2>1, <2>2 DEF CarriesOut, Abstract!CarryOut
  <2> QED
    BY <2>3 DEF Abstract!Next
<1>3. ASSUME NEW m \in Answers, LooksAt(m)
      PROVE  Abstract!Next
  <2>1. Replies' \subseteq Replies \cup {}
    BY <1>3, RepliesOf DEF LooksAt
  <2>2. CASE m.id = 0
    <3>1. m.id # pending_presets_id
      BY <2>2, TuiAssumption DEF TypeOK, Id
    <3>2. Abstract!Lose
      BY <1>3, <2>1, <3>1 DEF LooksAt, TakeList, Abstract!Lose
    <3> QED
      BY <3>2 DEF Abstract!Next
  <2>3. CASE m.id # 0
    <3> DEFINE a == [id |-> m.id, value |-> m.value]
    <3>1. a \in Replies /\ a.id = m.id /\ a.value = m.value
      BY <2>3 DEF Replies
    <3> HIDE DEF a
    <3>2. Abstract!Look(a)
      BY <1>3, <2>1, <3>1 DEF LooksAt, TakeList, Abstract!Look
    <3> QED
      BY <3>1, <3>2 DEF Abstract!Next
  <2> QED
    BY <2>2, <2>3
<1>4. ASSUME NEW kinds \in {<<"set">>, <<"list">>, <<"save", "list">>}, Asks(kinds)
      PROVE  Abstract!Next
  <2>1. Replies' \subseteq Replies \cup {}
    BY <1>4, RepliesOf DEF Asks
  <2>2. DOMAIN kinds = 1..Len(kinds)
    BY <1>4
  <2>3. Waiting' \subseteq
          Waiting \cup {[id |-> next_id + i - 1, kind |-> kinds[i]] : i \in DOMAIN kinds}
    BY <1>4, <2>2 DEF Asks
  <2>4. Abstract!Ask(kinds)
    BY <1>4, <2>1, <2>3 DEF Asks, Request, sessionVars, Abstract!Ask
  <2> QED
    BY <1>4, <2>4 DEF Abstract!Next
<1> QED
  BY <1>1, <1>2, <1>3, <1>4, Flow

-----------------------------------------------------------------------------
(***************************************************************************)
(* The theorems.                                                           *)
(***************************************************************************)

IInv ==
  /\ TypeOK
  /\ Linked /\ Status
  /\ Queued /\ Ahead /\ ClickOrder /\ Listing
  /\ Current /\ OnItsWay

\* The invariant holds at first.
LEMMA InitIInv == Init => IInv
<1> SUFFICES ASSUME Init PROVE IInv
  OBVIOUS
<1> USE DEF Init, SessionInit
<1>1. 1 \in Id /\ 2 \in Id /\ None \notin Id \cup {0} /\ MaxRequests \in Nat /\ MaxRequests >= 2
  BY TuiAssumption, SessionAssumption DEF Id
<1> DEFINE a == [id |-> 1, kind |-> "get"]
           b == [id |-> 2, kind |-> "list"]
<1>2. a \in Req /\ b \in Req
  BY <1>1 DEF Req, Kind
<1>3. /\ actions \in Seq(Req) /\ DOMAIN actions = {1, 2}
      /\ actions[1] = a /\ actions[2] = b
  BY <1>2
<1>4. DOMAIN inbox = {} /\ DOMAIN outbox = {} /\ DOMAIN events = {} /\ DOMAIN executed = {}
      /\ Len(<<>>) = 0 /\ <<>> \in Seq(Part) /\ <<>> \in Seq(Message) /\ <<>> \in Seq(Event)
      /\ <<>> \in Seq(Notification) /\ <<>> \in Seq(Id)
  OBVIOUS
<1>5. TypeOK
  <2>1. SessionTypeOK
    <3>1. "Disconnected" \in Label /\ crashes \in 0..MaxCrash /\ presets \in SUBSET Id
      BY SessionAssumption
    <3>2. Len(ring) <= RingCap /\ Len(inbox) <= InCap /\ Len(outbox) <= OutCap
      BY <1>4, SessionAssumption
    <3> QED
      BY <1>4, <3>1, <3>2 DEF SessionTypeOK
  <2>2. next_id \in 3..MaxRequests + 1 /\ "Disconnected" \in Label /\ Len(events) <= MaxEvents
    BY <1>1, <1>4, TuiAssumption, SessionAssumption
  <2> QED
    BY <1>1, <1>3, <1>4, <2>1, <2>2 DEF TypeOK, Req
<1>6. Linked /\ Status /\ Current /\ OnItsWay
  BY DEF Linked, Status, Current, OnItsWay
<1>7. Queued /\ ClickOrder
  BY <1>3, <1>4 DEF Queued, ClickOrder
<1>8. Waiting = {a, b} /\ Answers = {}
  BY <1>3, <1>4 DEF Waiting, Answers, Requests, Range
<1>9. Ahead
  BY <1>4, <1>8 DEF Ahead
<1>10. Listing
  BY <1>1, <1>8 DEF Listing
<1> QED
  BY <1>5, <1>6, <1>7, <1>9, <1>10 DEF IInv

\* Every step keeps it.
LEMMA NextIInv == IInv /\ [Next]_vars => IInv'
BY TypeStep, LinkedStep, StatusStep, QueuedStep, AheadStep, ListingStep, CurrentStep, OnItsWayStep
   DEF IInv

\* It holds in every state.
LEMMA Invariant == Spec => []IInv
BY InitIInv, NextIInv, PTL DEF Spec

\* Every variable keeps its type, and the queues their bounds.
THEOREM TypeCorrect == Spec => []TypeOK
<1>1. IInv => TypeOK
  BY DEF IInv
<1> QED
  BY <1>1, Invariant, PTL

\* The requests are carried out in the order of the clicks and none twice.
THEOREM CarriedOutInOrder == Spec => []ClickOrder
<1>1. IInv => ClickOrder
  BY DEF IInv
<1> QED
  BY <1>1, Invariant, PTL

\* A UI that has drained its events and has no connection says so.
THEOREM StatusIsHonest == Spec => []StatusHonest
<1>1. IInv => StatusHonest
  BY DEF IInv, Status, StatusHonest
<1> QED
  BY <1>1, Invariant, PTL

\* A list that is not awaited has every preset saved from the UI.
THEOREM ListIsWhole == Spec => []ListCoversSaves
<1>1. IInv => ListCoversSaves
  BY DEF IInv, Listing, ListCoversSaves
<1> QED
  BY <1>1, Invariant, PTL

\* With all queues empty the UI shows what was broadcast last.
THEOREM NewestIsShown == Spec => []ShowsNewest
<1>1. IInv => ShowsNewest
  <2> SUFFICES ASSUME IInv, Quiet, last # None
               PROVE  IF last.type = "state" THEN state = last.value ELSE connection_status = conn
    BY DEF ShowsNewest
  <2>1. ~EndsIn(<<>>, last)
    BY DEF EndsIn
  <2>2. Shown
    BY <2>1 DEF IInv, OnItsWay, Quiet
  <2> QED
    BY <2>2 DEF IInv, Current, Quiet, Shown
<1> QED
  BY <1>1, Invariant, PTL

\* To the App the daemons are one service that carries requests out in order.
THEOREM ServiceIsKept == Spec => Serves
<1>1. Init => Abstract!Init
  <2> SUFFICES ASSUME Init PROVE Abstract!Init
    OBVIOUS
  <2> DEFINE a == [id |-> 1, kind |-> "get"]
             b == [id |-> 2, kind |-> "list"]
  <2>1. DOMAIN actions = {1, 2} /\ actions[1] = a /\ actions[2] = b
    BY DEF Init
  <2>2. DOMAIN inbox = {} /\ DOMAIN outbox = {} /\ DOMAIN events = {}
    BY DEF Init, SessionInit
  <2>3. Waiting = {a, b} /\ Replies = {}
    BY <2>1, <2>2 DEF Waiting, Replies, Answers, Requests, Range
  <2> QED
    BY <2>3 DEF Init, SessionInit, Abstract!Init
<1>2. IInv /\ [Next]_vars => [Abstract!Next]_(Abstract!vars)
  BY AbstractStep DEF IInv
<1> QED
  BY <1>1, <1>2, Invariant, PTL DEF Spec, Serves, Abstract!Spec
=============================================================================
