# L-Lightning in TLA+

TLA+ models of the L-Lightning daemon: the program that owns the Bluetooth link
to an ELK-BLEDOM LED strip, takes JSON-RPC requests from a CLI and a touch UI,
runs light effects, and keeps presets and the last state on disk. The modules
are translated from the Rust sources under `src/`; paths below are relative to
it. TLC checks every module on small instances, and TLAPS proves the type
invariants, the safety properties and the refinements for every instance.

Check a model with `tlc -config MCConnection.cfg Connection.tla`, a proof with
`tlapm ConnectionProofs.tla`. `MCCommandLayer.cfg` and `MCCalibration.cfg` go with
the modules of the same name, which give a constant its function or sequence.

## 1. Inventory

### The parts and how they interact

    client session ──┐
    client session ──┤  Daemon (mutexes: current, presets, effect_handle, ...)
    effect task ─────┼──> CommandLayer::apply ──> pending ──> flush task
    calibration ─────┘            │                              │
                                  └───────> Connection::set <────┘
                                          try_send, capacity 8
                                                  │
                                          Fsm::run ──> GATT writes ──> strip
                                                  │
                              watch channel ──> broadcast ring ──> every client

| Component | Code | State | Operations |
|---|---|---|---|
| Connection state machine | `crates/core/src/connection.rs` | `ConnState` on a watch channel, command channel (8), `last_state`, peripheral, characteristic | `set`, `shutdown`, `state`, `watch`, and the task `Fsm::run` |
| GATT session, discovery | `crates/core/src/device.rs` | none of its own | `find_elk`, `establish_gatt`, `find_write_characteristic` |
| Command layer | `crates/core/src/command.rs` | `min_gap`, `pending`, `last_sent`, shutdown flag, flush task | `apply`, `set_gap`, `discover_min_gap`, `shutdown` |
| Request handlers | `crates/daemon/src/main.rs` | `current`, `presets`, `next_preset_id`, `effect_handle`, `effect_label` | one per JSON-RPC method |
| Effects | `crates/daemon/src/effect.rs` | the task's own `state`, a `JoinHandle` | `start`, `stop`, `is_finished`, one frame |
| Persistence | `config.rs`, saver task in `main.rs` | `config.toml`, `config.tmp`, channel of one `Config`, `pending` | `load`, `save`, the saver's `recv` and `tick` |
| Client sessions | `main.rs`, `handle_client`, `read_line_bounded` | line buffer, broadcast receiver (ring of 32) | read a line, answer, forward a notification, lag |
| Startup | `main.rs`, `run` | the socket file, 32 permits | restore `last_state`, take the socket, accept |
| Connection watcher | `main.rs`, `run` | last `ConnState` seen | forward a change |
| CLI | `crates/cli` | one connection, one call | start the daemon, call |
| TUI | `crates/tui` | one connection, a channel of requests, a channel of events, the state and presets shown, the id of the list awaited | start the daemon, reconnect, request, drain events |
| ELK packets, RPC types | `protocol.rs`, `rpc.rs` | none | pure |
| POC, touch spike | `poc/`, `ui/` | not part of the product | - |

There are no tests in the repository. `SPEC.md` states the intended behaviour,
and the findings below quote it.

### What is hard

* **Concurrency.** All tasks run on tokio's multi-threaded runtime. Handlers of
  different clients interleave at every mutex; state is cloned under a mutex
  and used after it is released (`main.rs:95-100`, `command.rs:45-50`).
* **Failure.** Scans, connects and writes to the strip fail or time out, and one that
  timed out may still have reached the strip. The link may drop between any two
  awaits. Most writes are sent without response: their `Ok` proves nothing. A
  failed write of `config.toml` is ignored.
* **Bounded channels.** `try_send` on the command channel and on the save
  channel drops the *newest* element.
* **Cancellation.** Effects are stopped by `abort()`, which takes effect at the
  task's next await, be it in the middle of `apply()`.
* **Time.** The gap between writes is kept with instants that are read before
  a mutex is waited for.
* **Back-pressure.** A session reads and writes in one loop, and so does the
  TUI's task: a full socket, a full ring or a missing permit makes one wait for
  the other, or both for each other. A read of 256 bytes may hold more than the
  line it is made for.
* **Processes.** Every client that reaches no daemon starts one, and a daemon
  takes its socket in several system calls.
* **Crashes.** `config.toml` is replaced through one temporary file that two
  writers share, and the daemon may be killed between any two system calls.

### What makes each part correct

| Component | Properties |
|---|---|
| Connection | handles held where used, no exit leaks the link; the strip shows `last_state` where that is known, and all of it after a connect; the state asked for last is not forgotten; the channel drains, Stop and dropped handles end the task |
| Command layer | the newest state is never lost and never overtaken; the gap is kept; a deferred state is flushed; calls return; shutdown ends |
| Effects, handlers | a command stops the effect; `get_state` names the one that runs; no handle of an aborted task; a fade ends, and on its target; the clients are told what there is |
| Calibration | the gap left in force was tested, at that gap; it ends |
| Persistence | the next id is above every id in use; an edit happens at one instant and survives once confirmed, as long as no file operation fails and the saver meets no edit |
| Sessions, TUI | requests are carried out in order and none twice; no request waits forever; the TUI settles on what was broadcast last, says when it has no connection, and gets one again |
| Startup | one daemon at a time, and the one the file leads to; a permit for every connected client and none besides; a call is answered; every call ends |

`PROJECT.json` lists the hazards behind these at the lines where they bite.

## 2. The modules

| Module | Models |
|---|---|
| `Connection` | `Fsm::run`, its handles and channel, link and strip as environment |
| `LatestWins` | abstract: what `CommandLayer` promises its callers |
| `PresetStore` | abstract: what an edit of the presets promises the client that asks for it |
| `RequestService` | abstract: what the TUI can rely on, over one connection and daemon after another |
| `CommandLayer` | `apply`, the flush task, `set_gap`, `shutdown`, the mutex of `pending`, time |
| `Persistence` | preset edits, the saving half of `set_*`, the saver, `config::load/save`, kill and restart |
| `Daemon` | the handlers that change the light, the effect tasks |
| `Session` | `handle_client`, `read_line_bounded`, the broadcast ring, the connection watcher, kill and restart |
| `Tui` | `rpc_client.rs` and the `App`, composed with `Session` |
| `Startup` | the socket file, `run` up to the accept loop and its permits; `ensure_daemon` of CLI and TUI, `rpc` |
| `Calibration` | `discover_min_gap` and the `calibrate` request |
| `MCCommandLayer`, `MCCalibration` | values of `Wants` and `Candidates` for TLC |
| `*Proofs` | the theorems about `Connection`, `CommandLayer`, `Persistence`, `Daemon`, `Startup`, `Calibration`, `Tui` |
| `QueueFacts` | lemmas about sequences used as queues, for `ConnectionProofs`, `StartupProofs` and `TuiProofs` |

How they fit together: `CommandLayer` implements `LatestWins`, on which `Daemon`
and `Calibration` build (their `newest`). `Persistence` implements `PresetStore`
as far as the code keeps what it promises, and `Tui` implements `RequestService`.
`Tui` extends `Session` and is one specification with it; to the session the
handlers of other clients, which `Daemon` has in detail, may broadcast anything
(`Elsewhere`), and to the command layer the connection is a variable that takes
what it is handed. `Startup` ends where `Session` begins, with an accepted
connection.

### Connection

An action is what `Fsm::run` does between two awaits, so a handle may queue a
command, and the link may drop, in between.

| Code | Model |
|---|---|
| `ConnState` in `state_tx` | `conn`; at the head of the loop (`pc = "loop"`) the branch depends on it alone |
| `cmd_tx`/`cmd_rx`, `Connection::set`, `shutdown` | `cmds`, `open`; `Set`, `Shutdown`, `DropHandles` |
| `scan_for_device` and the Scanning branch | `ScanBegin`, `ScanNothing`, `ScanFound`, `ScanGiveUp`, `ScanRetry`, `ScanError`; `rounds` counts the polls |
| `establish_gatt` | `GattBegin`, `GattConnect`, `GattReady`, `GattReset`, `GattGiveUp`; `rounds` counts the attempts |
| `finish_connect`, `replay_state` | `FinishNoChar`, `FinishReplay`, `WriteAcked`, `ReplayFailed`, `ReplayDone` |
| `write_delta` and the Connected branch | `ConnectedApply` computes the fields to write (`todo`); `WriteAcked` per field; `WriteDone`, `WriteTransient`, `WriteFatal` |
| `disconnect` | `Disconnect`, in `DisconnectToIdle` and `DisconnectToStop` |

`linked` and `strip` are the environment: `LinkLost` at any time, `PowerCycled`
to any state while no link is open. A call to `disconnect()` is taken to close
the link. A firmware that takes a write and does not act on it is not modelled.
Sleeps are left out: a timeout is an action that may happen. `doubt` is a
history variable: the fields about which nothing is known since the last
connect, failed write or skipped write. `Wanted` is the state asked for last,
wherever it is: the last one in the channel, else the one being written, else
`last_state`. `WantedKept` lists all that may change it. Two branches of the code are left out
because they cannot be taken: the rescan after a transient GATT error
(`connection.rs:187-190`; `establish_gatt` returns one fixed error that the test
for transient errors does not match) and the branches for a missing peripheral
or characteristic, which `HandlesHeld` shows to be dead.

### CommandLayer and LatestWins

Time is in ticks; an instant is modelled by its age, capped by `Horizon`. The
mutex of `pending` is tokio's, first come first served: `ahead[t]` is the set of
tasks that asked before `t`. The flush task sleeps a whole gap holding it
(`fpc = "hold"`, `command.rs:51`). A caller's steps: `Call` (takes `now`), `ReadGap`,
`Store` (with the mutex), then `Send` or `Defer`. `Abort` drops an effect task's
call at any await. `Patient` says that a caller that is able to run does so within
`Delay` ticks, unless it waits for the flush task's sleep; without it a `now`
could be arbitrarily old, which no scheduler does. `Connection::set` is the
variable `handed`. `Wants` gives each caller the states it may ask for.

`LatestWins` has two variables, the newest state put and the last one delivered,
and two actions, `Put` and `Deliver`. `DeliversLatest` is the refinement
`newest <- latest, delivered <- handed`: a superseded state is never handed
over, and none overtakes a newer one.

### Persistence

Presets are the set of their ids. An editor's request is `TakeId` (the counter's
own mutex), `Push` (under the mutex of presets, held until the answer: variable
`holder`), `config::save` in three system calls (`Create`, `WriteAll`, `Rename`),
`Answer`. A setter's is `SetCurrent`, `ClonePresets`, `TrySend`. The saver is
`SaverRecv`, `SaverTick`, then the same three system calls, `SaverSaved`. The
operating system is modelled where the two writers meet: they share `tmp`, a
descriptor keeps referring to a file that was renamed (`fd`), and a write into a
file already written may leave a torn one.

`config::save` discards what each operation returns, so each may fail and the next
follows in any case: an open that fails leaves the file as it was, one that a
killed save may have left; a write that fails or is short leaves the file empty,
torn or, where the text ends between two presets, a config with some of them
(`Cut`), and the rename puts that over `config.toml`; the client is answered. A
read that fails in `config::load` finds no file. `failed` records that one of
these has happened since the daemon was started, `crossed` that the saver's
write has met an edit: it carries presets cloned before the edit, or the edit is
made while it runs. They are the two things that lose confirmed edits (`Harmed`).
`acked` and `gone` are the edits confirmed; once there was harm a restart takes
out of them what the file lacks, for that is lost for good, while after a read
that failed the file still has it.

`Restart` is a kill at any point and the next start: memory is lost, files stay. A
power failure of the whole machine, which could undo what the kernel had
accepted, is not modelled. `MaxId` bounds the ids given out; a file edited by
hand is not modelled (see the plan).

`PresetStore` has the presets a restart finds (`stored`), the edits asked for
(`saves`, `deletes`), the edits confirmed (`acked`, `gone`) and whether the store
is `broken`: it then promises nothing until a crash ends it (`Recover`), and what
was lost is no longer confirmed. The mapping `Abstract` takes `broken` to be
`Harmed`, `stored` to be what `config::load` makes of the file, and the edits from the clients' stages (`AskedFor`): an edit takes effect at the rename,
and a kill before it loses the edit as a whole. The temporary file, the
descriptors, the mutex and the saver have no counterpart.

### Daemon

`newest` is the state put last into the command layer, the variable of the same
name in `LatestWins`; putting one is one action, which `CommandLayer` justifies:
it linearises `apply()` at the store. A handler is a sequence of steps between
which others run, one per mutex it takes:

* `Set` (with `StopCurrentEffect`), `Update`, `Apply`, then `Clean`, `Read`,
  `Notify` (the three mutexes of `get_state`, and the broadcast), `Reply`;
* `ApplyPreset` the same without stopping the effect; `Reconnect`, `Reapply`;
* `StartEffect`, `Initial`, `Spawn`, `StoreHandle`, `StoreLabel`, `Reply`.

An effect task is asleep, in a frame, or in its *last* frame: `abort()` takes a
sleeping task at once, while one that runs goes on to its next await, which may be
before or after its `apply()` (`Last`). Frames of `breathe`, `color_cycle` and
`strobe` may be any brightness, colour or power, which is what their arithmetic
yields over time; `fade_to` takes its exact steps. Brightness and one colour
channel are counted in few steps. A request that fails validation changes
nothing and is left out, as is `get_config`.

### Session and Tui

A line is a sequence of parts, and a read takes up to `Chunk` of them, so that a
chunk may hold more than one line, the end of one and the beginning of another,
or all of one.

| Code | Model |
|---|---|
| the socket, both directions | `link`, `inbox` (parts, at most `InCap`), `outbox` (lines, at most `OutCap`) |
| `read_line_bounded`, then `dispatch` and `write_all` | `Read`: `filled` is how far the `BufReader` had been filled; what is left of the chunk is dropped; a line without its beginning is answered with an error |
| `notify_rx.recv()` | `Forward`, `Lag`; `ring` is the receiver's part of the channel |
| `notify_tx.send` | `Broadcast`, in `Execute`, `Elsewhere` and `Watch` |
| `spawn_connection_watcher` | `ConnChanges`, `Watch`: the watch channel keeps the newest value only |
| `RpcClient::connect` | `Connect`, `Receive`, `End`, `Send`, `SendWaits`, `SendFails`; `writing`: the task is in `write_all` |
| `App::drain_events`, `RpcClient::request`, the buttons | `Drain`; `Request` in `Control`, `Refresh`, `Save`; `Init` makes the two requests of `App::new` |
| a daemon that is killed | `Crash`: what it had written stays readable (`link = "half"`), the rest is lost; `Restart` |

One round of the session's loop is one action, since its only waiting is for
room in the socket, at its end. The TUI's task likewise awaits `write_all` within a
branch of its `select!`: while there is no room for the request (`SendWaits`) it
receives nothing, until there is, or the daemon is gone. `Jammed` is the state in
which each side waits for the other. The TUI ignores the response to `get_state`
(`drain_events` looks at list responses only), so `state` is `None`, a made-up
value, until the first broadcast. `executed` and `last` are history variables.

`RequestService` knows of no connection, socket or daemon: there are requests
that wait, answers under way, and loss of any of them at any time. The mapping
`Abstract` collects them wherever they are: `Waiting` is the requests in the App's
channel and those whose line, or a part of it, is in the socket, `Replies` the
responses in the socket back and in the channel of events. That a read drops the
rest of its chunk, and that a kill or a lost connection drops what was under way,
is then one action, `Lose`; that none of it makes a request run twice, late or
under another's number is what the refinement `Serves` says.

### Startup

A daemon is a process: `dpc[d]` is where `run()` is, one action per system call
on the socket (`Exists`, `Probe`, `Unlink`, `Bind`, `Listen`, `Chmod`), then
`Accept` with a permit and `Answer`. `file` is the daemon whose bind made the
socket file, or `Stale`. A connection waits in the `backlog` of the daemon the
file led to, `None` standing for one that is closed again (`Probe`, and the
TUI's `ensure_daemon`). A CLI process is `Ensure`, `Spawn`, `Poll`, then waits
for `Answer` or `Lost`; the TUI starts a daemon only if there is no file
(`UiWaits` otherwise) and reconnects (`Reconnect`). `contested` is a history
variable: a file was found stale while another daemon was on its way.

### Calibration

`Request` starts a task; `GiveUp`, `Reached`, `Wake` are the attempts to find the link
up, `Try`, `ApplyTest`, `Passed`, `Failed` the loop over the candidates, `Settle` the
`set_gap` of the request's task. Tasks share `min_gap` and `newest`. The connection is
any state at any time. `paced`, `found`, `measured`, `failed`, `overlapped` are history
variables: they record at which gap the tests were run.

## 3. The runs

Passing runs. Deadlock is checked in all but `MCStartup`, where everything may come
to rest: clients that have ended, and no daemon.

| Run | States | Shows |
|---|---|---|
| `MCConnection` | 427 k | `TypeOK`, `HandlesHeld`, `StripFollowsLastState`, `ConnectShows`, `WantedKept`, `ChannelDrains`, `EndHonoured`: dark and lit, two colours, channel of 1, 1 poll, 1 attempt |
| `MCCommandLayer` | 634 k | `TypeOK`, `NothingLost`, `FlushKeepsGap`, `DeliversLatest` (the refinement of `LatestWins`), `PendingFlushed`, `AppliesReturn`, `ShutdownJoins`: a client and an abortable effect with a state each, gaps 1 and 2 |
| `MCPersistence` | 2.02 M | `TypeOK`, `IdsFresh`, `EditsDurable`, `EditsAtomic` (the refinement of `PresetStore`): two editors, a setter, the saver, two ids; every file operation may fail |
| `MCDaemon` | 387 k | `TypeOK`, `StopsEffects`, `StateNamesEffect`, `HandleNotAborted`, `SetNotified`, `FadeEnds`: one client, a breathing effect and fades |
| `MCTui` | 1.07 M | `TypeOK`, `Serves` (the refinement of `RequestService`), `ShowsNewest`, `StatusHonest`, `ListCoversSaves`, `Reconnects`, `NoRequestStarves`: four requests, one kill, a socket with room for three parts one way and one line the other, ring and event channel of 1 |
| `MCStartup` | 744 k | `TypeOK`, `ListenerReachable`, `CallsAnswered`, `CallsEnd`: three daemons, two CLI processes, a TUI, two permits, one kill |
| `MCCalibration` | 182 k | `TypeOK`, `GapTested`, `GapMeasured`, `CalibrationEnds`: two calibrations, three candidates |

Runs that exhibit a disagreement between the code and `SPEC.md`; each checks one
property and TLC finds it violated:

| Run | The code, against `SPEC.md` |
|---|---|
| `MCLostPreset` | the saver truncates `config.tmp` between the write and the rename of an edit: `config.toml` is empty, the edit confirmed (`SPEC.md:77-80`) |
| `MCLostEdit` | the write of a second preset fails, and the rename puts what it left over `config.toml`, where the first was (`SPEC.md:77-80`) |
| `MCOrphanEffect` | of two `start_effect` that overlap the second stops nothing and stores its handle over that of the first, whose task no command stops (`SPEC.md:95`) |
| `MCPipelined` | of two requests written behind each other the second is dropped (`SPEC.md:46`) |
| `MCSingleWriter` | a daemon that meets the socket of another between bind and listen takes it for stale and removes it; both serve (`SPEC.md:39`) |

### Bounds, and why they are enough

* **Connection.** One poll and one attempt already give every path of the two
  loops: success, another round, giving up. A channel of 1 is full after one
  command; the safety properties are theorems for any capacity. Two levels (dark
  and lit) and two colours separate all the fields that `write_delta` and
  `replay_state` compare.
* **CommandLayer.** A caller that returns and one that is aborted, each with a
  state of its own, so that a state shows who asked for it; gaps that grow and
  shrink, and a horizon past two gaps and a delay, beyond which ages compare
  alike. The assumption `Delay + 2 * MaxGap <= Horizon` states it.
* **Persistence.** Two editors for two saves that overlap, whose ids are taken in
  one order and pushed in the other, one setter and the saver for the races on the
  temporary file; `MaxId = 2` allows a save, a delete and a reuse after restart.
  One device state suffices, for no property of the run looks at it. Files fail
  and daemons are killed without a bound.
* **Daemon.** One effect task may be in its last frame while its successor
  runs, so two are alive at a time. Brightness 0..2 gives a fade that needs two
  frames, up and down. `color_cycle` and `strobe` differ from `breathe` only in
  the field a frame replaces; the runs leave them out, the theorems have them.
  With two clients `NoOrphan` is false (`MCOrphanEffect`), and `StopsEffects` with it;
  the theorems say, for any number of clients, how far apart their requests must be for each of the
  run's properties.

* **Tui.** Four requests are the two of `App::new` and a Save, which is two
  more, or two others: a chunk of three parts may then take the end of one line
  and the beginning of the next. `InCap = 3` is one part less than the
  shortest four requests have, so that one of them may have to wait, and `Jammed`
  is reached. Capacities of 1 make the other queues full as early as can be. One kill gives a session before and one after. One state suffices,
  for a state shown is compared with `None` and with the last one; connection
  labels are two.
* **Startup.** Two daemons may race and a third may come when one of them is
  killed. Two permits of which the TUI holds one make the two CLI processes wait
  for each other; `Polls = 1` lets a client run out of attempts at any time.
* **Calibration.** Two tasks, at once or in turn; three candidates give a first,
  a middle and a last one. Three test states and three attempts are the code's.

The theorems of section 5 hold without these bounds.

### Fairness, and why the code justifies it

* **Connection.** `WF(Run)`: the runtime polls a ready task, and every await of
  `Fsm::run` has a timeout or is a sleep, the calls to the Bluetooth stack
  excepted, which are assumed to return. A wait in Idle for a command is no
  step. `SF(ScanFound \/ ScanGiveUp \/ ScanError)` is an assumption about the
  adapter: not every scan ends in a transient error. The code retries these
  without a bound, so without it a command, or Stop, may wait forever.
* **CommandLayer.** `WF(Flush)`, `WF(Tick)`, `WF(Apply(c))`: tasks are polled
  and time passes. Calls, aborts, gaps and shutdowns need never happen.
* **Daemon.** `WF(Frame(e))`: effect tasks are polled. A request need never come.
* **Tui.** `SF(Read)`: tokio's `select!` picks among the branches that are ready
  at random, so a line that is there time and again is read, though
  notifications keep coming; a `biased` select would not give this (that is the
  mutant of `NoRequestStarves`). `WF` of `Forward \/ Lag`, `Subscribe`, of what
  the TUI's task does on its socket, of `Send \/ SendWaits` and of `Drain`: tasks
  are polled and the UI draws a frame every 100 ms. Nobody need restart a daemon:
  `Reconnects` and `NoRequestStarves` assume one that stays up. The exception in
  `NoRequestStarves`, `<>[]Jammed`, is that each of the two waits for the other and
  neither can move; without it TLC finds the property violated.
* **Startup.** `WF` of `Start(d)`, `Accept(d)`, `Answer(d, c)`, `Go(c)`:
  processes go on. A kill need never come.
* **Calibration.** `WF(Calibrate(t))`: the runtime polls the task, and its sleeps end.

## 4. Findings

The five runs of the second table are listed in `PROJECT.json` under
`findings`, each with the line of code and the line of `SPEC.md`. Their common
cause is a check and an act with a gap between them: a file written and then
renamed that another writer has truncated in between, a handle stopped and then
replaced, a socket probed and then removed. In `MCPipelined` it is bytes read that nobody keeps, in `MCLostEdit` an error that nobody looks at.

The models show some more, for which no run is kept; `PROJECT.json` has most of
them as hazards:

* the UI awaits `write_all` within a branch of its `select!` (`rpc_client.rs:135`),
  and the session writes responses and notifications from the loop that reads
  (`main.rs:435`, `451`): with both directions of the socket full neither reads
  again, and the requests wait forever. `MCTui` reaches this state (`Jammed`);
  in the code it takes as many bytes as a Unix socket buffers each way;
* the saver may write presets cloned up to two seconds ago over an edit made
  since (`main.rs:330`): besides the shared temporary file of `MCLostPreset` this
  is the other way the saver's write loses an edit;
* a `config.toml` that is there but cannot be read is taken for none
  (`config.rs:62`), and the next save replaces it;
* of two daemons that find the same stale file the second, too, may remove the
  socket the first has bound: a longer way to what `MCSingleWriter` shows;
* `set()` ignores the error of `try_send`: when the command channel is full it is
  the newest state that is dropped and the old ones that stay
  (`connection.rs:95`; `SPEC.md:88-89`: "queue the latest desired state");
* two hand-overs may follow each other at once: the flush task decides by an
  elapsed time that a caller has made stale (`command.rs:46`; `SPEC.md:71`);
* two clients' states may reach the strip in the other order than they were
  taken, so that `get_state` and the light disagree (`main.rs:100`;
  `SPEC.md:125`);
* the TUI shows, and Save stores, made-up values until the first broadcast: the
  response to its `get_state` is ignored (`app.rs:62`), and after a reconnect it
  does not ask again (`rpc_client.rs:113`);
* a daemon that finds the socket taken has by then put `last_state` on the strip
  (`main.rs:345`);
* a calibration leaves its last test state on the light, two at once judge each
  other's gaps, and one that fails at its first candidate leaves that in force
  (`command.rs:164-192`);
* an id is used again when its preset was deleted and the daemon restarted
  (`main.rs:63`);

* a `last_state` that is off, or dark, is not replayed on connect
  (`connection.rs:373`; `SPEC.md:87` has no such exception);
* after a write failure the task goes to Idle, the command is lost, and nothing
  reconnects until the next command (`connection.rs:213-216`; `SPEC.md:88-89`);
* of two quick changes the second is never saved: the save channel is full
  (`main.rs:279`);
* `apply_preset` does not stop a running effect (`main.rs:203`; `SPEC.md:95`);
* the last frame of an aborted effect may be put after the command that stopped
  it (`effect.rs:31`);
* a fade started after another effect starts from `current`, which frames do not
  update, and may end off its target (`main.rs:144`);
* starting, stopping and ending an effect notifies nobody (`main.rs:669`;
  `SPEC.md:67`).

## 5. The proofs

For every module an inductive invariant `IInv` is proved in its `*Proofs` module:
`Init => IInv`, and `IInv /\ [Next]_vars => IInv'`, with one step per action.

* **ConnectionProofs**: `TypeCorrect`, `HandlesAlwaysHeld`, `StripFollows`,
  `ReplayIsWhole`, `WantedIsKept`, `WantedReachesStrip`. `HandlesHeld` is not
  inductive: it says nothing of the states between. `Phases` ties `conn`,
  `peripheral` and `linked` to `pc` in every state, and `StripTracks` says what each
  field of the strip shows in the middle of a write, the old value or the new one:
  that is what makes the comparison with `last_state` come out when the write is
  over. In a replay of a state that shows a light every field in doubt is still to
  be written; a connect ends with none to write, so the strip shows all of it, and
  `ReplayIsWhole` shows that no other step ends one. `WantedIsKept` is a statement
  about the channel's end: lemmas say what the last `Apply` of a queue is after an
  append, a tail, a stop (`LastAppended`, `LastOfTail`, `LastApply`), and one step
  per action says that the state taken from the channel is the one in the making.
  `WantedReachesStrip` joins the two: connected over a live link, with nothing
  waiting and nothing in doubt, the strip shows what was asked for last.
* **CommandLayerProofs**: `TypeCorrect`, `NewestKept`, `FlushGap`, `Implements`.
  The queue of the mutex is the strengthening: `Mutex` says that `ahead` orders the
  tasks that wait, so that at most one holds it, and who is in the middle of what.
  For the gap, `Owing`: while the flush task sleeps with the mutex, the ticks since
  its hand-over and those it has still to sleep add up to what it owes, and nobody
  else can store. `Implements` is a step-by-step refinement proof.
* **PersistenceProofs**: `TypeCorrect`, `IdsAlwaysFresh`. A config on its way to
  the file may be older than the presets in memory; `Sources` bounds the ids of
  every config that may yet reach the file, the temporary file included once a
  writer has truncated it. What an earlier run of the daemon left in it is not
  bounded, and need not be; a failed open may bring it into the file, so `IdsFresh`
  speaks of the file only until there is harm. `FileKeepsParsing`,
  `EditsStayDurable` and `EditsAreAtomic` have no hypothesis: they hold of any
  number of editors and setters, as long as no file operation fails and the saver
  meets no edit, which the properties say themselves, and `MCLostEdit` and
  `MCLostPreset` show that both are needed. The first two rest on `EInv`: without
  harm the mutex of presets makes the writer unique (`Locked`, `Unlocked`), and
  `Stage` and `SaverStage` say what the temporary file and the file hold at each of
  the three operations. A saver that met no edit writes the presets in memory, so
  it changes none in the file. `EditsAreAtomic` is the refinement of
  `PresetStore`, action by action: the rename is `Save` or `Delete`, `TakeId` and
  `Delete` ask, `Answer` confirms, a restart is `Crash` or, after harm,
  `Recover`; a step that does harm breaks the store, and all else is a stutter.
  `EditorsAlone`: without setters the saver has nothing to write, so only a failed
  operation loses an edit.
* **DaemonProofs**: for any number of clients throughout. `TypeCorrect` and
  `HandlesNotAborted` need nothing more. `NoEffectOrphaned` and `StopReachesAll`
  assume that no two `start_effect` overlap (`StartsApart`): nothing then runs that
  the next command does not stop. `CommandStopsEffects` and `RunningEffectNamed`
  assume that nobody else is served while an effect is started (`StartsAlone`).
  The lemma `SetsAreNotified` adds that the notification sent last is not one that
  a change has overtaken since its `get_state` (`SentInOrder`), which is the
  property's own hazard: the lemma serves for `SingleClient`, where both hold
  and no hypothesis is left. `MCOrphanEffect` shows that `StartsApart` is needed.
  `FadesApproach` is what liveness leaves to a safety proof: each frame of a fade is closer to its target (`Distance`), so it
  ends, and only a stop ends it elsewhere. `Kept` says that no handle, stored or
  just returned by `effect::start`, refers to a task whose abort is under way, and
  that two handles never name one task; `Bare` that whoever starts an effect finds
  none stored; `Owned` that every running task has a handle, and which label goes
  with it. `Told` ties what a handler has read for a notification to `current`.

* **StartupProofs**: `TypeCorrect`, `ReachableListener`, `EveryCallAnswered`,
  `OneServes`, `EndsAlwaysMatch`.
  `ListenerReachable` is not inductive: a daemon about to unlink could take the
  file from one that listens. `Unlinking` says that without `contested` every
  other daemon is then gone or has not looked at the socket yet; a bind that
  succeeds finds no file and so, by the property itself, no listener. `Attended`
  says that without kills the daemon a call waits for is accepting connections
  or about to. `OneServes` is the other side of `MCSingleWriter`: the contest it
  exhibits is the only way to two daemons that serve. `EndsAlwaysMatch` compares
  the two ends of every connection, and TLC checked it before it was proved: what a
  daemon holds, a permit or a place in its queue, it holds for the clients
  connected to it and no other, once each (`Once`). It needs `Idle`, that a daemon
  that does not listen yet holds nothing, since its end is then no client's loss.
* **CalibrationProofs**: `TypeCorrect`, `GapsTested`, `GapsMeasured`. A task that is
  about to settle holds a gap that was found good; `GapsMeasured` needs `Alone`, that
  without overlap at most one task runs, and that the gap in force is then that
  task's candidate while it tests, and uses that the candidates decrease, so that a gap
  that passed is none that failed since.
* **TuiProofs**: `TypeCorrect`, `CarriedOutInOrder`, `StatusIsHonest`,
  `ListIsWhole`, `NewestIsShown`, `ServiceIsKept`, for any capacities, any number of requests and
  kills and any chunk, under nothing but the assumptions. None of the properties
  says where a request or an event is while it is under way, so the invariant
  does. `Waiting` is the set of requests in the App's channel or in the socket,
  `Answers` that of the responses on their way back. `Queued` orders the queues,
  the parts of one line included, since a read drops the rest of its chunk; with
  it the lemma `Flow` reduces every step to four kinds: something is lost, a
  request of `Waiting` below all others is carried out, an answer is looked at,
  or requests above all others are made. `Ahead` and `Listing` follow from these
  four alone: the list awaited has a number above every save that waits, so its
  answer has every preset. `ServiceIsKept` shows that the four kinds are the
  actions of `RequestService`. `OnItsWay` places the newest notification in the ring,
  the socket, the channel of events or on the screen, with only responses behind
  it; `Status` puts the loss of the connection last in the channel of events.

The assumptions are the `ASSUME` of each module (finite ranges, distinct model
values, positive bounds); TLC evaluates them in every run.

**Model-checked only**: the liveness properties (`ChannelDrains`,
`EndHonoured`, `PendingFlushed`, `AppliesReturn`,
`ShutdownJoins`, `FadeEnds`, `Reconnects`, `NoRequestStarves`,
`CallsEnd`, `CalibrationEnds`), which are out of reach of the prover; of
`FadeEnds` the measure is proved (`FadesApproach`). Every invariant, action property and refinement of a passing
run is proved, some under the conditions named above.

## 6. Not modelled, and the plan

The modules of section 2 are complete as far as they go. Ahead, by importance:

| Module | Content | Runs and theorems |
|---|---|---|
| `Pipeline` | composes `LatestWins` with `Connection`: from `apply()` to the channel, with the loss when it is full; from the channel to the strip it is `WantedIsKept` and `WantedReachesStrip` | what the strip shows when everything is quiet, and after which losses |
| `PresetIds` | the reassignment of duplicate and zero ids in `Daemon::new` as a recursive function | which files come out with unique ids; the next id above all |

Left out of the modelled parts:

* **Sessions.** A line comes in one piece: a read cancelled in mid-line by a
  notification, which would drop what was read of it, needs a client whose line
  arrives in several segments. Lines above 64 KB end the session.
* **TUI.** Widgets, the debounce of the sliders, deleting presets, quitting (the UI
  process ends and its session with it), the length of the backoff.
* **CLI.** That a notification may be the first line it reads; parsing of
  arguments and printing.
* **Handlers.** Validation of parameters, `get_config` and `set_config`, which change no
  state that any other part reads.
* **Persistence.** A parse error whose rename to `config.toml.bak` fails, which
  leaves the file to be found again at the next start; directories that cannot be made,
  which is an open that fails.
* **Sessions and presets.** `Session` has a list of presets that a restart keeps:
  that a failed write loses some is `Persistence`'s, and what the TUI shows of
  that is not compared.
* **Sockets.** A request or a line is written whole or not at all: a `write_all`
  that has written a part when the connection is lost is one that has failed.
* **Command layer.** A state handed over twice is a stutter of `LatestWins`.
* **Power failures**, which could undo what the kernel had accepted.

Left out for good: the packet layouts of `protocol.rs` and the types of `rpc.rs`
(pure data), the arithmetic of the effects beyond its range (floating point),
the POC and the touch spike, which are not part of the product.
