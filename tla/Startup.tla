------------------------------ MODULE Startup ------------------------------
(***************************************************************************)
(* How daemons come to be and how clients find one: the socket file and    *)
(* the accept loop of crates/daemon/src/main.rs (run), ensure_daemon and   *)
(* rpc of crates/cli, ensure_daemon and the reconnect loop of crates/tui.  *)
(*                                                                         *)
(* Every client that does not reach a daemon starts a process of its own,  *)
(* and the processes take the socket in several system calls.  A daemon    *)
(* leaves its socket file behind however it ends.  A CLI process makes one *)
(* request, a UI keeps its connection.  Waiting is left out: a client that *)
(* polls may do so at any time.                                            *)
(***************************************************************************)
EXTENDS Naturals, Sequences, FiniteSets

CONSTANTS
  Daemon,        \* processes that may be started, each once
  Cli, Ui,       \* the clients
  Permits,       \* sessions at a time: 32
  Polls,         \* attempts of ensure_daemon to connect: 50
  MaxKill,       \* bound: daemons that are killed
  Stale,         \* a socket file nobody listens on any more
  None

Client == Cli \cup Ui

ASSUME StartupAssumption ==
  /\ Cli \cap Ui = {} /\ None \notin Client \cup Daemon /\ Stale \notin Daemon /\ Stale # None
  /\ Permits \in Nat \ {0} /\ Polls \in Nat \ {0} /\ MaxKill \in Nat

VARIABLES
  dpc,           \* per daemon: where run() is
  file,          \* the socket file: the daemon that bound it, Stale or None
  backlog,       \* per daemon: connections not accepted, None if closed again
  serving,       \* per daemon: the clients it has a session with
  cpc,           \* per client: where it is
  server,        \* per client: the daemon it is connected to
  polls,         \* per client: attempts left
  kills,         \* daemons killed
  contested      \* history: a file was found stale with another daemon starting

vars == <<dpc, file, backlog, serving, cpc, server, polls, kills, contested>>
sockets == <<backlog, serving>>
clients == <<cpc, server, polls>>

Listening == {d \in Daemon : dpc[d] \in {"chmod", "serve"}}

\* The daemons between the first look at the socket file and the last.
Taking == {d \in Daemon : dpc[d] \in {"exists", "probe", "unlink", "bind", "listen", "chmod"}}

Goto(d, l) == dpc' = [dpc EXCEPT ![d] = l]

\* UnixStream::connect reaches file; the connection waits to be accepted.
Knock(x) == file \in Listening /\ backlog' = [backlog EXCEPT ![file] = Append(@, x)]
Refused  == file \notin Listening

-----------------------------------------------------------------------------
(***************************************************************************)
(* run().                                                                  *)
(***************************************************************************)

\* The adapter is found, and last_state is on its way to the strip.
Restore(d) ==
  /\ dpc[d] = "start"
  /\ Goto(d, "exists")
  /\ contested' = (contested \/ \E e \in Daemon : dpc[e] = "unlink")
  /\ UNCHANGED <<file, sockets, clients, kills>>

\* Connection::new() fails.
NoAdapter(d) ==
  /\ dpc[d] = "start"
  /\ Goto(d, "gone")
  /\ UNCHANGED <<file, sockets, clients, kills, contested>>

Exists(d) ==
  /\ dpc[d] = "exists"
  /\ Goto(d, IF file = None THEN "bind" ELSE "probe")
  /\ UNCHANGED <<file, sockets, clients, kills, contested>>

\* Mutant: a socket file that is there is taken to be stale.
ProbeSkipped(d) ==
  /\ dpc[d] = "probe"
  /\ Goto(d, "unlink")
  /\ UNCHANGED <<file, sockets, clients, kills, contested>>

\* Already running, or not.
Probe(d) ==
  /\ dpc[d] = "probe"
  /\ \/ Knock(None) /\ Goto(d, "gone")
     \/ Refused /\ Goto(d, "unlink") /\ UNCHANGED backlog
  /\ contested' = (contested \/ (Refused /\ Taking # {d}))
  /\ UNCHANGED <<file, serving, clients, kills>>

\* The calls that take the socket; an error of any ends the process.
Unlink(d) ==
  /\ dpc[d] = "unlink"
  /\ Goto(d, IF file = None THEN "gone" ELSE "bind")
  /\ file' = None
  /\ UNCHANGED <<sockets, clients, kills, contested>>

Bind(d) ==
  /\ dpc[d] = "bind"
  /\ Goto(d, IF file = None THEN "listen" ELSE "gone")
  /\ file' = IF file = None THEN d ELSE file
  /\ UNCHANGED <<sockets, clients, kills, contested>>

Listen(d) ==
  /\ dpc[d] = "listen"
  /\ Goto(d, "chmod")
  /\ UNCHANGED <<file, sockets, clients, kills, contested>>

\* The connections that wait for a daemon that ends are closed.
Chmod(d) ==
  /\ dpc[d] = "chmod"
  /\ \/ file # None /\ Goto(d, "serve") /\ UNCHANGED backlog
     \/ file = None /\ Goto(d, "gone") /\ backlog' = [backlog EXCEPT ![d] = <<>>]
  /\ UNCHANGED <<file, serving, clients, kills, contested>>

\* Mutants: there is no limit; a connection beyond the limit is closed.
AcceptAny(d) ==
  /\ dpc[d] = "serve" /\ backlog[d] # <<>>
  /\ backlog' = [backlog EXCEPT ![d] = Tail(@)]
  /\ serving' = [serving EXCEPT ![d] = @ \cup ({Head(backlog[d])} \ {None})]
  /\ UNCHANGED <<dpc, file, clients, kills, contested>>
AcceptOrClose(d) ==
  /\ dpc[d] = "serve" /\ backlog[d] # <<>>
  /\ backlog' = [backlog EXCEPT ![d] = Tail(@)]
  /\ IF Cardinality(serving[d]) < Permits
     THEN /\ serving' = [serving EXCEPT ![d] = @ \cup ({Head(backlog[d])} \ {None})]
          /\ UNCHANGED cpc
     ELSE /\ cpc' = [c \in Client |-> IF c = Head(backlog[d]) THEN "failed" ELSE cpc[c]]
          /\ UNCHANGED serving
  /\ UNCHANGED <<dpc, file, server, polls, kills, contested>>

\* The accept loop: no connection is accepted before the one accepted last has
\* a permit.  The session of a connection that is closed ends at once.
Accept(d) ==
  /\ dpc[d] = "serve" /\ backlog[d] # <<>> /\ Cardinality(serving[d]) < Permits
  /\ backlog' = [backlog EXCEPT ![d] = Tail(@)]
  /\ serving' = [serving EXCEPT ![d] = @ \cup ({Head(backlog[d])} \ {None})]
  /\ UNCHANGED <<dpc, file, clients, kills, contested>>

\* Mutant: the permit of a session that has answered is not given back.
AnswerKeepsPermit(d, c) ==
  /\ c \in serving[d] /\ cpc[c] = "asked"
  /\ cpc' = [cpc EXCEPT ![c] = "answered"]
  /\ UNCHANGED <<dpc, file, sockets, server, polls, kills, contested>>

\* A CLI process has its response and exits, which ends its session.
Answer(d, c) ==
  /\ c \in serving[d] /\ cpc[c] = "asked"
  /\ cpc' = [cpc EXCEPT ![c] = "answered"]
  /\ serving' = [serving EXCEPT ![d] = @ \ {c}]
  /\ UNCHANGED <<dpc, file, backlog, server, polls, kills, contested>>

Kill(d) ==
  /\ dpc[d] \notin {"none", "gone"} /\ kills < MaxKill
  /\ Goto(d, "gone") /\ kills' = kills + 1
  /\ backlog' = [backlog EXCEPT ![d] = <<>>] /\ serving' = [serving EXCEPT ![d] = {}]
  /\ UNCHANGED <<file, clients, contested>>

-----------------------------------------------------------------------------
(***************************************************************************)
(* Clients.                                                                *)
(***************************************************************************)

Step(c, l) == cpc' = [cpc EXCEPT ![c] = l]

\* A CLI process sends its request on the connection it gets; the UI closes it
\* and has the reconnect loop make another.
Reached(c) ==
  IF c \in Cli
  THEN Knock(c) /\ Step(c, "asked") /\ server' = [server EXCEPT ![c] = file]
  ELSE Knock(None) /\ Step(c, "connect") /\ UNCHANGED server

Ensure(c) ==
  /\ cpc[c] = "ensure" /\ Reached(c)
  /\ UNCHANGED <<dpc, file, serving, polls, kills, contested>>

\* The CLI starts a daemon on any error, the UI only when there is no file.
Spawn(c) ==
  /\ cpc[c] = "ensure" /\ Refused /\ (c \in Cli \/ file = None)
  /\ \E d \in Daemon : dpc[d] = "none" /\ Goto(d, "start")
  /\ Step(c, "poll")
  /\ UNCHANGED <<file, sockets, server, polls, kills, contested>>

UiWaits(c) ==
  /\ cpc[c] = "ensure" /\ Refused /\ c \in Ui /\ file # None
  /\ Step(c, "poll")
  /\ UNCHANGED <<dpc, file, sockets, server, polls, kills, contested>>

Poll(c) ==
  /\ cpc[c] = "poll"
  /\ \/ Reached(c) /\ UNCHANGED polls
     \/ /\ Refused
        /\ polls' = [polls EXCEPT ![c] = @ - 1]
        /\ IF polls[c] = 1 THEN Step(c, "failed") ELSE UNCHANGED cpc
        /\ UNCHANGED <<backlog, server>>
  /\ UNCHANGED <<dpc, file, serving, kills, contested>>

\* The reconnect loop of rpc_client.rs.
Reconnect(c) ==
  /\ cpc[c] = "connect"
  /\ Knock(c) /\ Step(c, "open") /\ server' = [server EXCEPT ![c] = file]
  /\ UNCHANGED <<dpc, file, serving, polls, kills, contested>>

\* The end of the stream: the CLI gives up, the UI tries again.
Lost(c) ==
  /\ cpc[c] \in {"asked", "open"} /\ dpc[server[c]] = "gone"
  /\ Step(c, IF c \in Cli THEN "failed" ELSE "connect")
  /\ server' = [server EXCEPT ![c] = None]
  /\ UNCHANGED <<dpc, file, sockets, polls, kills, contested>>

-----------------------------------------------------------------------------
Init ==
  /\ dpc = [d \in Daemon |-> "none"] /\ file \in {None, Stale}
  /\ backlog = [d \in Daemon |-> <<>>] /\ serving = [d \in Daemon |-> {}]
  /\ cpc = [c \in Client |-> "ensure"] /\ server = [c \in Client |-> None]
  /\ polls = [c \in Client |-> Polls]
  /\ kills = 0 /\ contested = FALSE

Start(d) ==
  Restore(d) \/ NoAdapter(d) \/ Exists(d) \/ Probe(d) \/ Unlink(d) \/ Bind(d) \/ Listen(d)
  \/ Chmod(d)

Run(d) == Start(d) \/ Accept(d) \/ \E c \in Cli : Answer(d, c)

Go(c) == Ensure(c) \/ Spawn(c) \/ UiWaits(c) \/ Poll(c) \/ Reconnect(c) \/ Lost(c)

Next == (\E d \in Daemon : Run(d) \/ Kill(d)) \/ (\E c \in Client : Go(c))

Spec == Init /\ [][Next]_vars

\* Processes go on.  A UI that polls a socket nobody takes over need not: it
\* ends, and is not started again.
FairSpec ==
  /\ Spec
  /\ \A d \in Daemon : WF_vars(Start(d)) /\ WF_vars(Accept(d))
  /\ \A d \in Daemon, c \in Cli : WF_vars(Answer(d, c))
  /\ \A c \in Client : WF_vars(Go(c))

-----------------------------------------------------------------------------
(***************************************************************************)
(* Properties.                                                             *)
(***************************************************************************)

\* Every variable keeps its type, and a daemon its permits.
TypeOK ==
  /\ dpc \in [Daemon -> {"none", "start", "exists", "probe", "unlink", "bind", "listen",
                         "chmod", "serve", "gone"}]
  /\ file \in Daemon \cup {Stale, None}
  /\ backlog \in [Daemon -> Seq(Client \cup {None})]
  /\ serving \in [Daemon -> SUBSET Client]
  /\ cpc \in [Client -> {"ensure", "poll", "asked", "connect", "open", "answered", "failed"}]
  /\ server \in [Client -> Daemon \cup {None}]
  /\ polls \in [Client -> 0..Polls] /\ kills \in 0..MaxKill /\ contested \in BOOLEAN
  /\ \A d \in Daemon : Cardinality(serving[d]) <= Permits

\* Unless a daemon found a stale file while another was starting, the one that
\* listens is the one the file leads to: there is no second one, and it can be
\* reached, whatever daemons are started, fail or are killed, at once or not.
ListenerReachable ==
  ~contested => \A d \in Daemon : dpc[d] \in {"listen", "chmod", "serve"} => file = d

\* A CLI process that reached a daemon is answered, however many sessions there
\* are and daemons that find the socket taken; only a kill can prevent it.
CallsAnswered ==
  ~contested /\ kills = 0 => \A c \in Cli : cpc[c] = "failed" => polls[c] = 0

\* Every CLI process comes to an end although permits are limited, as long as
\* the UIs, which keep theirs, do not hold all of them.
CallsEnd == \A c \in Cli : <>(cpc[c] \in {"answered", "failed"})

\* SPEC.md:39, "Single writer to the device": at most one daemon serves.
SingleWriter == \A d, e \in Daemon : dpc[d] = "serve" /\ dpc[e] = "serve" => d = e
=============================================================================
