------------------------------- MODULE Daemon -------------------------------
(***************************************************************************)
(* The request handlers of crates/daemon/src/main.rs that change what the  *)
(* light shows, and the effect tasks of crates/daemon/src/effect.rs.       *)
(*                                                                         *)
(* Every client has a session task of its own and the sessions share one   *)
(* Daemon, so the handlers interleave at every mutex they take.  `newest'  *)
(* is the state put last into the command layer, the variable of           *)
(* LatestWins that CommandLayer implements.  Saving is in Persistence.tla. *)
(* Brightness and one colour channel are counted in few steps.  What a     *)
(* reply carries is left out; that making it cleans up an effect is not.   *)
(***************************************************************************)
EXTENDS Naturals

CONSTANTS
  Client,          \* the client sessions
  Effect,          \* effect tasks; no more than these are alive at a time
  Kind,            \* kinds of effect that are started
  MaxBrightness,
  MaxRgb,
  None             \* Option::None

Brightness == 0..MaxBrightness
Rgb        == 0..MaxRgb
State      == [power : BOOLEAN, brightness : Brightness, rgb : Rgb]
Lit        == {s \in State : s.power}

\* What a command changes: one field, or all of them (a preset).
Change == [power : BOOLEAN] \cup [brightness : Brightness] \cup [rgb : Rgb]
Params == [kind : Kind, target : Lit \cup {None}]

\* A running effect: asleep, in a frame, or in a frame that will be its last.
Running == [at : {"asleep", "frame", "last"}, kind : Kind, target : Lit \cup {None},
            state : State]

ASSUME DaemonAssumption ==
  /\ Kind \subseteq {"breathe", "color_cycle", "strobe", "fade_to"}
  /\ MaxBrightness \in Nat /\ MaxRgb \in Nat
  /\ None \notin State \cup Change \cup Params \cup Effect \cup Kind \cup Running

VARIABLES
  current,         \* Daemon::current
  effect_handle,   \* the effect task that a handle is kept of, or None
  effect_label,    \* its kind, or None
  newest,          \* the state put last into the command layer, or None
  notified,        \* the state notification broadcast last
  pc,              \* per session: where its handler is
  arg,             \* per session: the parameters of the request
  snap,            \* per session: the clone it took of current
  started,         \* per session: the task it has spawned
  task,            \* per effect task: where it is and its locals, or None
  request          \* history: the request received last

shared  == <<current, effect_handle, effect_label>>
handler == <<pc, arg, snap, started>>
vars    == <<shared, newest, notified, handler, task, request>>

-----------------------------------------------------------------------------
(***************************************************************************)
(* Effect tasks.                                                           *)
(***************************************************************************)

\* Mutant: the step never goes down.
StepUp(x, y) == IF x = y THEN x ELSE x + 1

Step(x, y) == IF x < y THEN x + 1 ELSE IF x > y THEN x - 1 ELSE x

Toward(s, t) ==
  [power |-> t.power, brightness |-> Step(s.brightness, t.brightness),
   rgb |-> Step(s.rgb, t.rgb)]

\* Mutant: a fade that has reached its target goes on.
FramesForever(k, s, t) ==
  CASE k = "breathe"     -> {[s EXCEPT !.brightness = b, !.power = b > 0] : b \in Brightness}
    [] k = "color_cycle" -> {[s EXCEPT !.rgb = x, !.power = TRUE] : x \in Rgb}
    [] k = "strobe"      -> {[s EXCEPT !.power = p] : p \in BOOLEAN}
    [] k = "fade_to"     -> IF t = None THEN {} ELSE {Toward(s, t)}

\* The frames that may follow state s, whatever time has passed; none when a
\* fade has reached its target.
Frames(k, s, t) ==
  CASE k = "breathe"     -> {[s EXCEPT !.brightness = b, !.power = b > 0] : b \in Brightness}
    [] k = "color_cycle" -> {[s EXCEPT !.rgb = x, !.power = TRUE] : x \in Rgb}
    [] k = "strobe"      -> {[s EXCEPT !.power = p] : p \in BOOLEAN}
    [] k = "fade_to"     -> IF t = None \/ s = t THEN {} ELSE {Toward(s, t)}

At(e) == IF task[e] = None THEN "off" ELSE task[e].at

FramesOf(e) == Frames(task[e].kind, task[e].state, task[e].target)

\* The sleep is over and the task computes a frame ...
Wake(e) ==
  /\ At(e) = "asleep"
  /\ \E s \in FramesOf(e) : task' = [task EXCEPT ![e].state = s, ![e].at = "frame"]
  /\ UNCHANGED <<shared, newest, notified, handler, request>>

\* ... or ends.
Break(e) ==
  /\ At(e) = "asleep" /\ FramesOf(e) = {}
  /\ task' = [task EXCEPT ![e] = None]
  /\ UNCHANGED <<shared, newest, notified, handler, request>>

\* apply(state), and back to sleep.
Put(e) ==
  /\ At(e) = "frame"
  /\ newest' = task[e].state
  /\ task' = [task EXCEPT ![e].at = "asleep"]
  /\ UNCHANGED <<shared, notified, handler, request>>

\* An abort reaches a task that runs at its next await: after the apply, or
\* before it when the task has to wait for the mutex of the command layer.
Last(e) ==
  /\ At(e) = "last"
  /\ newest' \in {newest, task[e].state}
  /\ task' = [task EXCEPT ![e] = None]
  /\ UNCHANGED <<shared, notified, handler, request>>

-----------------------------------------------------------------------------
(***************************************************************************)
(* Handlers: the steps they share.                                         *)
(***************************************************************************)

\* EffectHandle::stop.
Stop(e) ==
  CASE At(e) = "asleep" -> task' = [task EXCEPT ![e] = None]
    [] At(e) = "frame"  -> task' = [task EXCEPT ![e].at = "last"]
    [] OTHER            -> UNCHANGED task

\* Mutant: the handle is taken and dropped, which detaches the task.
StopForgets ==
  /\ UNCHANGED task
  /\ effect_handle' = None /\ effect_label' = None

\* Mutant: the handle is used where it is, and not taken.
StopKeepsHandle ==
  /\ IF effect_handle = None THEN UNCHANGED task ELSE Stop(effect_handle)
  /\ UNCHANGED effect_handle /\ effect_label' = None

\* stop_current_effect, under the mutex of effect_handle.
StopCurrentEffect ==
  /\ IF effect_handle = None THEN UNCHANGED task ELSE Stop(effect_handle)
  /\ effect_handle' = None /\ effect_label' = None

Finished == effect_handle # None /\ task[effect_handle] = None

\* Mutant: the label of an effect that has ended is kept.
ForgetFinishedKeepsLabel ==
  /\ effect_handle' = IF Finished THEN None ELSE effect_handle
  /\ UNCHANGED effect_label

\* The first block of get_state.
ForgetFinished ==
  /\ effect_handle' = IF Finished THEN None ELSE effect_handle
  /\ effect_label' = IF Finished THEN None ELSE effect_label

\* get_state, for the reply.
Reply(c) ==
  /\ pc[c] = "reply"
  /\ ForgetFinished
  /\ pc' = [pc EXCEPT ![c] = "idle"]
  /\ UNCHANGED <<current, newest, notified, arg, snap, started, task, request>>

-----------------------------------------------------------------------------
(***************************************************************************)
(* set_power, set_brightness, set_color, apply_preset, reconnect.          *)
(***************************************************************************)

Set(c, change) ==
  /\ pc[c] = "idle"
  /\ StopCurrentEffect
  /\ arg' = [arg EXCEPT ![c] = change]
  /\ pc' = [pc EXCEPT ![c] = "update"]
  /\ request' = "set"
  /\ UNCHANGED <<current, newest, notified, snap, started>>

ApplyPreset(c, preset) ==
  /\ pc[c] = "idle"
  /\ arg' = [arg EXCEPT ![c] = preset]
  /\ pc' = [pc EXCEPT ![c] = "update"]
  /\ request' = "preset"
  /\ UNCHANGED <<shared, newest, notified, snap, started, task>>

\* State s with the fields in change replaced.
Changed(s, change) ==
  [f \in {"power", "brightness", "rgb"} |-> IF f \in DOMAIN change THEN change[f] ELSE s[f]]

Update(c) ==
  /\ pc[c] = "update"
  /\ current' = Changed(current, arg[c])
  /\ snap' = [snap EXCEPT ![c] = current']
  /\ arg' = [arg EXCEPT ![c] = None]
  /\ pc' = [pc EXCEPT ![c] = "apply"]
  /\ UNCHANGED <<effect_handle, effect_label, newest, notified, started, task, request>>

Apply(c) ==
  /\ pc[c] = "apply"
  /\ newest' = snap[c]
  /\ snap' = [snap EXCEPT ![c] = None]
  /\ pc' = [pc EXCEPT ![c] = "clean"]
  /\ UNCHANGED <<shared, notified, arg, started, task, request>>

\* get_state, for the notification: three mutexes, one after the other.
Clean(c) ==
  /\ pc[c] = "clean"
  /\ ForgetFinished
  /\ pc' = [pc EXCEPT ![c] = "read"]
  /\ UNCHANGED <<current, newest, notified, arg, snap, started, task, request>>

\* Mutant: the notification says what the command layer was told last.
ReadNewest(c) ==
  /\ pc[c] = "read"
  /\ snap' = [snap EXCEPT ![c] = newest]
  /\ pc' = [pc EXCEPT ![c] = "notify"]
  /\ UNCHANGED <<shared, newest, notified, arg, started, task, request>>

Read(c) ==
  /\ pc[c] = "read"
  /\ snap' = [snap EXCEPT ![c] = current]
  /\ pc' = [pc EXCEPT ![c] = "notify"]
  /\ UNCHANGED <<shared, newest, notified, arg, started, task, request>>

Notify(c) ==
  /\ pc[c] = "notify"
  /\ notified' = [state |-> snap[c], effect |-> effect_label]
  /\ snap' = [snap EXCEPT ![c] = None]
  /\ pc' = [pc EXCEPT ![c] = "reply"]
  /\ UNCHANGED <<shared, newest, arg, started, task, request>>

Reconnect(c) ==
  /\ pc[c] = "idle"
  /\ snap' = [snap EXCEPT ![c] = current]
  /\ pc' = [pc EXCEPT ![c] = "reapply"]
  /\ request' = "reconnect"
  /\ UNCHANGED <<shared, newest, notified, arg, started, task>>

Reapply(c) ==
  /\ pc[c] = "reapply"
  /\ newest' = snap[c]
  /\ snap' = [snap EXCEPT ![c] = None]
  /\ pc' = [pc EXCEPT ![c] = "reply"]
  /\ UNCHANGED <<shared, notified, arg, started, task, request>>

-----------------------------------------------------------------------------
(***************************************************************************)
(* start_effect, stop_effect, get_state.                                   *)
(***************************************************************************)

StartEffect(c, params) ==
  /\ pc[c] = "idle"
  /\ params.kind = "fade_to" <=> params.target # None
  /\ StopCurrentEffect
  /\ arg' = [arg EXCEPT ![c] = params]
  /\ pc' = [pc EXCEPT ![c] = "initial"]
  /\ request' = "start"
  /\ UNCHANGED <<current, newest, notified, snap, started>>

Initial(c) ==
  /\ pc[c] = "initial"
  /\ snap' = [snap EXCEPT ![c] = current]
  /\ pc' = [pc EXCEPT ![c] = "spawn"]
  /\ UNCHANGED <<shared, newest, notified, arg, started, task, request>>

\* A task that nothing refers to any more stands for one that is new.
New(e) == task[e] = None /\ effect_handle # e /\ \A c \in Client : started[c] # e

Spawn(c, e) ==
  /\ pc[c] = "spawn" /\ New(e)
  /\ task' = [task EXCEPT ![e] = [at |-> "asleep", kind |-> arg[c].kind,
                                  target |-> arg[c].target, state |-> snap[c]]]
  /\ started' = [started EXCEPT ![c] = e]
  /\ snap' = [snap EXCEPT ![c] = None]
  /\ pc' = [pc EXCEPT ![c] = "handle"]
  /\ UNCHANGED <<shared, newest, notified, arg, request>>

\* The handle is stored; one that is overwritten detaches its task ...
StoreHandle(c) ==
  /\ pc[c] = "handle"
  /\ effect_handle' = started[c]
  /\ started' = [started EXCEPT ![c] = None]
  /\ pc' = [pc EXCEPT ![c] = "label"]
  /\ UNCHANGED <<current, effect_label, newest, notified, arg, snap, task, request>>

\* ... and then the label.
StoreLabel(c) ==
  /\ pc[c] = "label"
  /\ effect_label' = arg[c].kind
  /\ arg' = [arg EXCEPT ![c] = None]
  /\ pc' = [pc EXCEPT ![c] = "reply"]
  /\ UNCHANGED <<current, effect_handle, newest, notified, snap, started, task, request>>

StopEffect(c) ==
  /\ pc[c] = "idle"
  /\ StopCurrentEffect
  /\ pc' = [pc EXCEPT ![c] = "reply"]
  /\ request' = "stop"
  /\ UNCHANGED <<current, newest, notified, arg, snap, started>>

GetState(c) ==
  /\ pc[c] = "idle"
  /\ pc' = [pc EXCEPT ![c] = "reply"]
  /\ UNCHANGED <<shared, newest, notified, arg, snap, started, task, request>>

-----------------------------------------------------------------------------

\* run() has restored last_state; one that shows light, or would with the power
\* on, is put into the command layer.
Init ==
  /\ current \in State
  /\ newest = IF current.power \/ current.brightness > 0 THEN current ELSE None
  /\ effect_handle = None /\ effect_label = None
  /\ notified = [state |-> current, effect |-> None]
  /\ pc = [c \in Client |-> "idle"] /\ arg = [c \in Client |-> None]
  /\ snap = [c \in Client |-> None] /\ started = [c \in Client |-> None]
  /\ task = [e \in Effect |-> None]
  /\ request = "none"

Request(c) ==
  \/ \E change \in Change : Set(c, change)
  \/ \E preset \in Lit : ApplyPreset(c, preset)
  \/ \E params \in Params : StartEffect(c, params)
  \/ Reconnect(c) \/ StopEffect(c) \/ GetState(c)

Handle(c) ==
  \/ Update(c) \/ Apply(c) \/ Clean(c) \/ Read(c) \/ Notify(c)
  \/ Reapply(c)
  \/ Initial(c) \/ (\E e \in Effect : Spawn(c, e)) \/ StoreHandle(c) \/ StoreLabel(c)
  \/ Reply(c)

Frame(e) == Wake(e) \/ Break(e) \/ Put(e) \/ Last(e)

Next == (\E c \in Client : Request(c) \/ Handle(c)) \/ (\E e \in Effect : Frame(e))

Spec == Init /\ [][Next]_vars

\* The runtime polls every effect task that is ready.
FairSpec == Spec /\ \A e \in Effect : WF_vars(Frame(e))

-----------------------------------------------------------------------------
(***************************************************************************)
(* Properties.                                                             *)
(***************************************************************************)

\* Every variable keeps its type; no frame leaves the range of its field.
TypeOK ==
  /\ current \in State /\ newest \in State \cup {None}
  /\ effect_handle \in Effect \cup {None} /\ effect_label \in Kind \cup {None}
  /\ notified \in [state : State, effect : Kind \cup {None}]
  /\ pc \in [Client -> {"idle", "update", "apply", "clean", "read", "notify", "reapply",
                        "initial", "spawn", "handle", "label", "reply"}]
  /\ arg \in [Client -> Change \cup State \cup Params \cup {None}]
  /\ snap \in [Client -> State \cup {None}]
  /\ started \in [Client -> Effect \cup {None}]
  /\ task \in [Effect -> Running \cup {None}]
  /\ request \in {"none", "set", "preset", "reconnect", "start", "stop"}

AllIdle == \A c \in Client : pc[c] = "idle"
Live(e) == At(e) \in {"asleep", "frame"}

\* SPEC.md:95: once a set_* or stop_effect request has been answered no effect
\* task goes on writing frames, whenever it was started.
StopsEffects == AllIdle /\ request \in {"set", "stop"} => \A e \in Effect : ~Live(e)

\* SPEC.md:95: a manual command or stop_effect can reach every effect that runs:
\* it is the one there is a handle of, or one that a client has started and is
\* about to keep the handle of.
NoOrphan ==
  \A e \in Effect : Live(e) => e = effect_handle \/ \E c \in Client : started[c] = e

\* The effect that get_state names is the one that writes frames: a task goes
\* on only under the handle and the label, and none is named without a handle.
StateNamesEffect ==
  AllIdle =>
    /\ \A e \in Effect : Live(e) => effect_handle = e /\ effect_label = task[e].kind
    /\ effect_handle = None => effect_label = None

\* A task is aborted once for good: no handle is kept of a task whose abort is
\* under way, which a later get_state or stop would take for a running one.
HandleNotAborted ==
  /\ effect_handle # None => At(effect_handle) # "last"
  /\ \A c \in Client : started[c] # None => At(started[c]) # "last"

\* A fade comes to an end, from any state to any target, however the clients
\* go on: its task ends and gives the command layer back.
FadeEnds == \A e \in Effect : Live(e) /\ task[e].kind = "fade_to" ~> ~Live(e)

\* Once a set_* request has been answered, every client has been told what
\* get_state now answers, of the effect that was stopped included.
SetNotified ==
  AllIdle /\ request = "set" => notified = [state |-> current, effect |-> effect_label]
=============================================================================
