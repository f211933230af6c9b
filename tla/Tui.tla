-------------------------------- MODULE Tui --------------------------------
(***************************************************************************)
(* The touch UI, crates/tui: the task of rpc_client.rs that keeps one      *)
(* connection to the daemon, and the App of app.rs, composed with the      *)
(* daemon's side of the connection, Session.tla.                           *)
(*                                                                         *)
(* The App puts requests into one channel and takes events from another;   *)
(* both outlive a connection.  The bridge thread between the tokio and the *)
(* std channel (tui/src/main.rs) is part of the channel of events.  The    *)
(* backoff between two attempts is left out.  A user clicks any button at  *)
(* any time and does not quit.                                             *)
(***************************************************************************)
EXTENDS Session

CONSTANT MaxEvents     \* bound: events the App has not drained

ASSUME TuiAssumption == MaxEvents \in Nat /\ MaxRequests >= 2 /\ None \notin Id \cup {0}

VARIABLES
  actions,       \* RpcAction channel, oldest first; the head is the one being written
  writing,       \* the rpc task is in write_all, which waits for room in the socket
  events,        \* DaemonEvent channel, oldest first
  next_id,       \* COUNTER of RpcClient::request
  state,         \* App::state; None for the values App::new makes up
  connection_status,
  listed,        \* App::presets
  pending_presets_id

app  == <<next_id, state, connection_status, listed, pending_presets_id>>
vars == <<sessionVars, actions, writing, events, app>>

Event == Message \cup [type : {"disconnected"}]

-----------------------------------------------------------------------------
(***************************************************************************)
(* The task of RpcClient::connect.                                         *)
(***************************************************************************)

Emit(e) == Len(events) < MaxEvents /\ events' = Append(events, e)

Connect ==
  /\ up /\ link = "down"
  /\ Emit([type |-> "connection", value |-> "Connected"])
  /\ link' = "up" /\ inbox' = <<>> /\ outbox' = <<>>
  /\ UNCHANGED <<up, crashes, watcher, presets, subscribed, channel, executed, actions,
       writing, app>>

\* A line has arrived.  An error has no result, and the App does nothing on it.
Receive ==
  /\ link # "down" /\ outbox # <<>> /\ ~writing
  /\ Emit(Head(outbox))
  /\ outbox' = Tail(outbox)
  /\ UNCHANGED <<up, crashes, watcher, presets, link, inbox, subscribed, channel, executed,
       actions, writing, app>>

Disconnected ==
  /\ Emit([type |-> "disconnected"])
  /\ link' = "down" /\ outbox' = <<>>

\* Mutants: the end of the stream is taken for an empty line; the App is not
\* told.
EndSkipped ==
  /\ link = "half" /\ outbox = <<>>
  /\ UNCHANGED vars
EndSilent ==
  /\ link = "half" /\ outbox = <<>>
  /\ link' = "down"
  /\ UNCHANGED <<up, crashes, watcher, presets, inbox, outbox, subscribed, channel, executed,
       actions, writing, events, app>>

End ==
  /\ link = "half" /\ outbox = <<>> /\ ~writing
  /\ Disconnected
  /\ UNCHANGED <<up, crashes, watcher, presets, inbox, subscribed, channel, executed,
       actions, writing, app>>

\* write_all of a request finds room in the socket, at once or at last.
Room == Len(inbox) + Size(Head(actions).kind) <= InCap

Send ==
  /\ link = "up" /\ actions # <<>> /\ Room
  /\ inbox' = inbox \o Line(Head(actions))
  /\ actions' = Tail(actions)
  /\ writing' = FALSE
  /\ UNCHANGED <<up, crashes, watcher, presets, link, outbox, subscribed, channel, executed,
       events, app>>

\* It does not, and is awaited within the branch of the select: until there is
\* room, or no daemon, the task reads nothing.
SendWaits ==
  /\ link = "up" /\ actions # <<>> /\ ~Room
  /\ ~writing /\ writing' = TRUE
  /\ UNCHANGED <<sessionVars, actions, events, app>>

\* The request that could not be written is lost, with the lines not yet read.
SendFails ==
  /\ link = "half" /\ actions # <<>>
  /\ actions' = Tail(actions)
  /\ writing' = FALSE
  /\ Disconnected
  /\ UNCHANGED <<up, crashes, watcher, presets, inbox, subscribed, channel, executed, app>>

-----------------------------------------------------------------------------
(***************************************************************************)
(* App.                                                                    *)
(***************************************************************************)

\* Mutant: whatever list arrives is taken.
TakeAnyList(e) ==
  IF e.id # 0 /\ pending_presets_id # None
  THEN listed' = e.value /\ pending_presets_id' = None
  ELSE UNCHANGED <<listed, pending_presets_id>>

TakeList(e) ==
  IF e.id = pending_presets_id
  THEN listed' = e.value /\ pending_presets_id' = None
  ELSE UNCHANGED <<listed, pending_presets_id>>

\* One round of drain_events.  Of the responses only that to the list request
\* made last is looked at, so the one to get_state is not.
Drain ==
  /\ events # <<>>
  /\ LET e == Head(events)
     IN /\ state' = IF e.type = "state" THEN e.value ELSE state
        /\ connection_status' = CASE e.type = "connection"   -> e.value
                                  [] e.type = "disconnected" -> "Disconnected"
                                  [] OTHER                   -> connection_status
        /\ IF e.type = "response" THEN TakeList(e) ELSE UNCHANGED <<listed, pending_presets_id>>
  /\ events' = Tail(events)
  /\ UNCHANGED <<sessionVars, actions, writing, next_id>>

\* RpcClient::request, once per kind; a list request is the one waited for.
Request(kinds) ==
  /\ next_id + Len(kinds) <= MaxRequests + 1
  /\ next_id' = next_id + Len(kinds)
  /\ actions' = actions \o [i \in DOMAIN kinds |-> [id |-> next_id + i - 1, kind |-> kinds[i]]]
  /\ pending_presets_id' = IF \E i \in DOMAIN kinds : kinds[i] = "list"
                           THEN next_id + (CHOOSE i \in DOMAIN kinds : kinds[i] = "list") - 1
                           ELSE pending_presets_id
  /\ UNCHANGED <<sessionVars, writing, events, state, connection_status, listed>>

\* The buttons of the tabs: one that changes the light or an effect, Refresh,
\* and Save.
Control == Request(<<"set">>)
Refresh == Request(<<"list">>)
Save    == Request(<<"save", "list">>)

\* App::new has asked for the state and the presets.
Init ==
  /\ SessionInit
  /\ next_id = 3 /\ pending_presets_id = 2
  /\ actions = <<[id |-> 1, kind |-> "get"], [id |-> 2, kind |-> "list"]>>
  /\ writing = FALSE /\ events = <<>>
  /\ state = None /\ connection_status = "Disconnected" /\ listed = {}

RpcTask == Connect \/ Receive \/ End \/ Send \/ SendWaits \/ SendFails

Click == Control \/ Refresh \/ Save

Next ==
  \/ SessionNext /\ UNCHANGED <<actions, writing, events, app>>
  \/ RpcTask \/ Drain \/ Click

Spec == Init /\ [][Next]_vars

\* Tasks are polled, and tokio's select picks one of the branches that are
\* ready at random, so a branch that is ready time and again is taken.
FairSpec ==
  /\ Spec
  /\ SF_vars(Read /\ UNCHANGED <<actions, writing, events, app>>)
  /\ WF_vars((Forward \/ Lag) /\ UNCHANGED <<actions, writing, events, app>>)
  /\ WF_vars(Subscribe /\ UNCHANGED <<actions, writing, events, app>>)
  /\ WF_vars(Connect \/ Receive \/ End \/ SendFails) /\ WF_vars(Send \/ SendWaits)
  /\ WF_vars(Drain)

-----------------------------------------------------------------------------
(***************************************************************************)
(* Properties.                                                             *)
(***************************************************************************)

\* The requests not yet carried out, and the answers not yet looked at, wherever
\* they are on their way; Replies are those to a request.
Requests(s) == {[id |-> s[i].id, kind |-> s[i].kind] : i \in DOMAIN s}
Waiting == Requests(inbox) \cup Range(actions)
Answers == {m \in Range(outbox) \cup Range(events) : m.type = "response"}
Replies == {[id |-> m.id, value |-> m.value] : m \in {a \in Answers : a.id # 0}}

Abstract == INSTANCE RequestService WITH
  waiting <- Waiting, answers <- Replies, awaited <- pending_presets_id

\* The connections, their sessions and the daemons behind them are, to the App,
\* the service of RequestService: whatever chunk is dropped, connection lost or
\* daemon restarted, a request is carried out at one instant, never before one
\* made earlier nor twice, or not at all; an answer is what that instant gave.
Serves == Abstract!Spec

\* Every variable keeps its type, and the queues their bounds.
TypeOK ==
  /\ SessionTypeOK
  /\ actions \in Seq([id : Id, kind : Kind])
  /\ writing \in BOOLEAN
  /\ events \in Seq(Event) /\ Len(events) <= MaxEvents
  /\ next_id \in 3..MaxRequests + 1
  /\ state \in State \cup {None} /\ connection_status \in Label
  /\ listed \subseteq Id /\ pending_presets_id \in Id \cup {None}

\* The requests are carried out in the order of the clicks and none twice,
\* over chunks that are dropped, reconnects and restarts of the daemon.
ClickOrder == \A i, j \in DOMAIN executed : i < j => executed[i] < executed[j]

Quiet ==
  /\ link = "up" /\ subscribed /\ ~unseen /\ ~lagged
  /\ ring = <<>> /\ outbox = <<>> /\ events = <<>>

\* When all queues are empty the UI shows what was broadcast last, however far
\* the session lagged behind.
ShowsNewest ==
  Quiet /\ last # None =>
    IF last.type = "state" THEN state = last.value ELSE connection_status = conn

\* Without a connection, and with all events drained, the UI says so.
StatusHonest == link = "down" /\ events = <<>> => connection_status = "Disconnected"

\* When no list is awaited the one shown has every preset the UI has saved.
ListCoversSaves == pending_presets_id = None => presets \subseteq listed

\* A UI that has lost its connection has one again once a daemon stays up.
Reconnects == <>[]up => <>[](link = "up" /\ subscribed)

\* The UI waits for room for a request, and the daemon, that would have to read
\* those before it, waits for room for a line to the UI: neither reads.
Jammed ==
  /\ writing /\ ~Room
  /\ subscribed /\ Len(outbox) = OutCap

\* Once a daemon stays up no request waits forever, in the UI or in the socket,
\* however many notifications go the other way, unless each of the two waits
\* for the other to read.
NoRequestStarves == <>[]up => []<>(actions = <<>> /\ inbox = <<>>) \/ <>[]Jammed

\* SPEC.md:46, newline-delimited JSON: every line sent over a connection
\* that was never lost is carried out, once the session has read all of them.
EveryLineRead ==
  crashes = 0 /\ subscribed /\ inbox = <<>> /\ actions = <<>> =>
    Len(executed) = next_id - 1
=============================================================================
