------------------------------ MODULE Session ------------------------------
(***************************************************************************)
(* One client's session with the daemon, crates/daemon/src/main.rs:        *)
(* handle_client and read_line_bounded, the broadcast channel it           *)
(* subscribes to, and the task that forwards connection changes to it.     *)
(*                                                                         *)
(* The client is a module of its own (Tui.tla) that writes into inbox and  *)
(* reads from outbox.  The other handlers are an environment that may      *)
(* broadcast any state at any time: what they broadcast is in Daemon.tla.  *)
(* A request is a line of one or more parts, and a read takes up to Chunk  *)
(* parts: 256 bytes in the code, where a request has 55 bytes or more.     *)
(* The preset that save_preset adds is named by the id of the request.     *)
(***************************************************************************)
EXTENDS Naturals, Sequences, FiniteSetsExt

CONSTANTS
  State,         \* light states
  Label,         \* names of the connection states
  Chunk,         \* parts of lines that one read takes, at most
  RingCap,       \* capacity of the broadcast channel: 32
  InCap,         \* parts of lines the socket holds for the daemon
  OutCap,        \* lines the socket holds for the client
  MaxRequests,   \* bound: requests a client makes
  MaxCrash,      \* bound: times the daemon is killed
  None

\* "set" stands for a request that is none of the others; it broadcasts a state,
\* or changes nothing that is modelled here (effects; deleting is left out).
Kind == {"get", "set", "list", "save"}
Id   == 1..MaxRequests

\* A line from the client: its parts, each with the number of those that follow.
Size(kind) == IF kind = "save" THEN 2 ELSE 1
Part       == [id : Id, kind : Kind, left : 0..1]
Line(r)    == [i \in 1..Size(r.kind) |->
                 [id |-> r.id, kind |-> r.kind, left |-> Size(r.kind) - i]]

\* A line to the client.
Notification == [type : {"state"}, value : State] \cup [type : {"connection"}, value : Label]
Response     == [type : {"response"}, id : Id \cup {0}, value : SUBSET Id]
Message      == Notification \cup Response

ASSUME SessionAssumption ==
  /\ {"Connected", "Disconnected"} \subseteq Label
  /\ Chunk \in Nat \ {0} /\ RingCap \in Nat \ {0} /\ OutCap \in Nat \ {0}
  /\ InCap \in Nat /\ \A kind \in Kind : Size(kind) <= InCap
  /\ MaxRequests \in Nat /\ MaxCrash \in Nat
  /\ None \notin Message

VARIABLES
  up,            \* the daemon runs and accepts connections
  crashes,       \* times it was killed
  conn,          \* external: ConnState on the watch channel
  unseen,        \* the watch channel holds a value the watcher has not sent
  presets,       \* Daemon::presets
  link,          \* the socket: up, half (the daemon's end is closed) or down
  inbox,         \* parts of lines from the client, not yet read
  outbox,        \* lines to the client, not yet read
  subscribed,    \* handle_client runs and has subscribed
  ring,          \* its receiver's part of the broadcast channel, oldest first
  lagged,        \* notifications were overwritten before it received them
  last,          \* history: the notification sent last since it subscribed
  executed       \* history: ids of the requests carried out, in order

watcher == <<conn, unseen>>
channel == <<ring, lagged, last>>
socket  == <<link, inbox, outbox>>
sessionVars == <<up, crashes, watcher, presets, socket, subscribed, channel, executed>>

-----------------------------------------------------------------------------
(***************************************************************************)
(* The broadcast channel.                                                  *)
(***************************************************************************)

\* Mutant: a full channel drops the newest, as the other channels here do.
BroadcastDropsNewest(n) ==
  /\ ring' = IF subscribed /\ Len(ring) < RingCap THEN Append(ring, n) ELSE ring
  /\ last' = IF subscribed THEN n ELSE last
  /\ UNCHANGED lagged

\* notify_tx.send: a full ring overwrites the oldest.
Broadcast(n) ==
  IF subscribed
  THEN /\ ring' = IF Len(ring) < RingCap THEN Append(ring, n) ELSE Append(Tail(ring), n)
       /\ lagged' = (lagged \/ Len(ring) = RingCap)
       /\ last' = n
  ELSE UNCHANGED channel

\* The handler of another client broadcasts a state.
Elsewhere(s) ==
  /\ up
  /\ Broadcast([type |-> "state", value |-> s])
  /\ UNCHANGED <<up, crashes, watcher, presets, socket, subscribed, executed>>

-----------------------------------------------------------------------------
(***************************************************************************)
(* spawn_connection_watcher.                                               *)
(***************************************************************************)

ConnChanges(c) ==
  /\ up /\ c # conn
  /\ conn' = c /\ unseen' = TRUE
  /\ UNCHANGED <<up, crashes, presets, socket, subscribed, channel, executed>>

\* changed() and send_conn_notif, and the first value that is sent unasked.  A
\* change between changed() and borrow() only has the same value sent twice.
Watch ==
  /\ up /\ unseen
  /\ unseen' = FALSE
  /\ Broadcast([type |-> "connection", value |-> conn])
  /\ UNCHANGED <<up, crashes, conn, presets, socket, subscribed, executed>>

-----------------------------------------------------------------------------
(***************************************************************************)
(* handle_client.  A step is one round of its loop, which ends in          *)
(* writer.write_all: the line that waits for room in the socket is the     *)
(* last of a full outbox, and no round begins before there is room.        *)
(***************************************************************************)

\* The connection is accepted, and the task subscribes.
Subscribe ==
  /\ up /\ link = "up" /\ ~subscribed
  /\ subscribed' = TRUE /\ ring' = <<>> /\ lagged' = FALSE /\ last' = None
  /\ UNCHANGED <<up, crashes, watcher, presets, socket, executed>>

\* Mutant: nothing waits for the client.
WriteAnyway(m) == outbox' = Append(outbox, m)

WriteLine(m) == Len(outbox) < OutCap /\ outbox' = Append(outbox, m)

Newlines == {i \in DOMAIN inbox : inbox[i].left = 0}

\* The end of the last chunk that a line of e parts takes.
RoundUp(e) == ((e + Chunk - 1) \div Chunk) * Chunk

\* dispatch() on a line that is a whole request.
Execute(r) ==
  /\ executed' = Append(executed, r.id)
  /\ WriteLine([type |-> "response", id |-> r.id,
                value |-> IF r.kind = "list" THEN presets ELSE {}])
  /\ \/ /\ r.kind = "save" /\ presets' = presets \cup {r.id}
        /\ UNCHANGED channel
     \/ /\ r.kind = "set"
        /\ \E s \in State : Broadcast([type |-> "state", value |-> s])
        /\ UNCHANGED presets
     \/ r.kind # "save" /\ UNCHANGED <<presets, channel>>

\* Mutant: the line stays in the buffer.
ReadPeeks ==
  /\ subscribed /\ Newlines # {}
  /\ Execute(inbox[1])
  /\ UNCHANGED <<up, crashes, watcher, link, inbox, subscribed>>

\* Mutant: the select prefers notifications.
ReadBiased ==
  /\ subscribed /\ Newlines # {} /\ ring = <<>> /\ ~lagged
  /\ \E filled \in Newlines :
        inbox' = SubSeq(inbox, Min({filled, RoundUp(Min(Newlines))}) + 1, Len(inbox))
  /\ Execute(inbox[1])
  /\ UNCHANGED <<up, crashes, watcher, link, subscribed>>

\* read_line_bounded returns at the first newline and drops the rest of the
\* chunk.  The reader was filled from the socket at some earlier time, up to
\* the end of a line.  A line that lost its beginning is no request, and
\* answered as such.
Read ==
  /\ subscribed /\ Newlines # {}
  /\ LET e == Min(Newlines)
     IN /\ \E filled \in Newlines :
             inbox' = SubSeq(inbox, Min({filled, RoundUp(e)}) + 1, Len(inbox))
        /\ \/ e = Size(inbox[1].kind) /\ Execute(inbox[1])
           \/ /\ e < Size(inbox[1].kind)
              /\ WriteLine([type |-> "response", id |-> 0, value |-> {}])
              /\ UNCHANGED <<presets, executed, channel>>
  /\ UNCHANGED <<up, crashes, watcher, link, subscribed>>

\* A notification is received and written.
Forward ==
  /\ subscribed /\ ~lagged /\ ring # <<>>
  /\ WriteLine(Head(ring)) /\ ring' = Tail(ring)
  /\ UNCHANGED <<up, crashes, watcher, presets, link, inbox, subscribed, lagged, last, executed>>

\* RecvError::Lagged: the receiver goes on at the oldest that is left.
Lag ==
  /\ subscribed /\ lagged /\ Len(outbox) < OutCap
  /\ lagged' = FALSE
  /\ UNCHANGED <<up, crashes, watcher, presets, socket, subscribed, ring, last, executed>>

-----------------------------------------------------------------------------
(***************************************************************************)
(* The daemon is killed, and started again by a client or by the user.     *)
(***************************************************************************)

\* Of a full outbox the last line may not have been written yet.
Crash ==
  /\ up /\ crashes < MaxCrash
  /\ up' = FALSE /\ crashes' = crashes + 1
  /\ link' = IF link = "up" THEN "half" ELSE link
  /\ inbox' = <<>>
  /\ \/ UNCHANGED outbox
     \/ Len(outbox) = OutCap /\ outbox' = SubSeq(outbox, 1, OutCap - 1)
  /\ subscribed' = FALSE /\ ring' = <<>> /\ lagged' = FALSE /\ last' = None
  /\ UNCHANGED <<watcher, presets, executed>>

\* The presets are those saved, none lost to a write that failed (Persistence.tla).
Restart ==
  /\ ~up
  /\ up' = TRUE
  /\ conn' = "Disconnected" /\ unseen' = TRUE
  /\ UNCHANGED <<crashes, presets, socket, subscribed, channel, executed>>

SessionInit ==
  /\ up = TRUE /\ crashes = 0
  /\ conn = "Disconnected" /\ unseen = TRUE
  /\ presets = {}
  /\ link = "down" /\ inbox = <<>> /\ outbox = <<>>
  /\ subscribed = FALSE /\ ring = <<>> /\ lagged = FALSE
  /\ last = None /\ executed = <<>>

HandleClient == Read \/ Forward \/ Lag

SessionNext ==
  \/ \E s \in State : Elsewhere(s)
  \/ \E c \in Label : ConnChanges(c)
  \/ Watch \/ Subscribe \/ HandleClient \/ Crash \/ Restart

SessionTypeOK ==
  /\ up \in BOOLEAN /\ crashes \in 0..MaxCrash
  /\ conn \in Label /\ unseen \in BOOLEAN
  /\ presets \subseteq Id
  /\ link \in {"up", "half", "down"} /\ inbox \in Seq(Part) /\ outbox \in Seq(Message)
  /\ subscribed \in BOOLEAN /\ ring \in Seq(Notification) /\ lagged \in BOOLEAN
  /\ last \in Notification \cup {None} /\ executed \in Seq(Id)
  /\ Len(ring) <= RingCap /\ Len(inbox) <= InCap /\ Len(outbox) <= OutCap
=============================================================================
