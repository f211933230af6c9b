---------------------------- MODULE DaemonProofs ----------------------------
(***************************************************************************)
(* The handlers and the effect tasks, for any number of clients and tasks  *)
(* and any ranges of brightness and colour: types, and that no handle is   *)
(* kept of an aborted task, however the sessions interleave.  The other    *)
(* properties are false when they interleave freely; what is proved is how *)
(* far apart the handlers have to be for each:                             *)
(*   StartsApart   no two start_effect at a time: nothing runs that no     *)
(*                 command reaches;                                        *)
(*   StartsAlone   nothing else during a start_effect: what runs is what   *)
(*                 get_state names, and a command stops it;                *)
(*   SentInOrder   notifications that are overtaken are not sent last:     *)
(*                 with StartsAlone, every client is told what was set.    *)
(* With a single client the three are the case.                            *)
(***************************************************************************)
EXTENDS Daemon, TLAPS

\* What a handler has at hand where it is.
Locals ==
  \A c \in Client :
    /\ pc[c] \in {"apply", "notify", "reapply", "spawn"} => snap[c] \in State
    /\ pc[c] = "update" => arg[c] \in Change \cup State
    /\ pc[c] \in {"initial", "spawn", "handle", "label"} => arg[c] \in Params
    /\ pc[c] = "handle" <=> started[c] # None

\* A task that is kept by somebody is kept by one, and is not aborted.
Kept ==
  /\ effect_handle # None => At(effect_handle) # "last"
  /\ \A c \in Client : started[c] # None =>
       /\ At(started[c]) # "last"
       /\ started[c] # effect_handle
       /\ \A d \in Client : d # c => started[d] # started[c]

IInv == TypeOK /\ Locals /\ Kept

\* start_effect between stopping the old effect and storing the new handle.
Starting(c) == pc[c] \in {"initial", "spawn", "handle"}

\* No two clients start an effect at the same time.
StartsApart == \A c, d \in Client : Starting(c) /\ Starting(d) => c = d

\* While a client starts an effect, no other client is being served.
StartsAlone ==
  \A c, d \in Client : (Starting(c) \/ pc[c] = "label") /\ pc[d] # "idle" => c = d

\* A handler that has yet to send a notification of the state there is.
ToNotify(c) ==
  \/ pc[c] \in {"apply", "clean", "read"}
  \/ pc[c] = "notify" /\ snap[c] = current

\* A notification that another change has overtaken, between get_state and the
\* send, is not the last one: it is sent before that of the change.
SentInOrder == (\E c \in Client : pc[c] = "notify") => \E d \in Client : ToNotify(d)

\* Whoever starts an effect has stopped the one before.
Bare == (\E c \in Client : Starting(c)) => effect_handle = None

\* A step that stops the effect leaves none running but those of start_effect
\* requests that are not yet answered.
StopsAll ==
  (\E c \in Client : \/ StopEffect(c)
                    \/ \E change \in Change : Set(c, change)
                    \/ \E params \in Params : StartEffect(c, params))
    => (\A e \in Effect : Live(e)' => \E c \in Client : started[c] = e)

\* A fade has a target.
AimedRequests ==
  \A c \in Client :
    pc[c] \in {"initial", "spawn"} /\ arg[c].kind = "fade_to" => arg[c].target # None

AimedTasks ==
  \A e \in Effect :
    task[e] # None /\ task[e].kind = "fade_to" => task[e].target # None

Aimed == AimedRequests /\ AimedTasks

\* How many frames a fade is away from its target, at most.
Gap(x, y) == IF x < y THEN y - x ELSE x - y

Distance(s, t) ==
  Gap(s.brightness, t.brightness) + Gap(s.rgb, t.rgb) + IF s.power = t.power THEN 0 ELSE 1

\* A step leaves a fade where it is, brings it closer to its target, or ends it:
\* there, or because it has been stopped.
Approaches ==
  \A e \in Effect : task[e] # None /\ task[e].kind = "fade_to" =>
    IF task'[e] # None
      THEN /\ task'[e].kind = "fade_to" /\ task'[e].target = task[e].target
           /\ \/ task'[e].state = task[e].state
              \/ Distance(task'[e].state, task[e].target)
                   < Distance(task[e].state, task[e].target)
      ELSE \/ task[e].state = task[e].target
           \/ At(e) = "last"
           \/ effect_handle = e /\ effect_handle' = None

\* The effects that run are kept, named, and not kept on by a request that
\* stops them.
Owned ==
  /\ \A c \in Client : Starting(c) \/ pc[c] = "label" => request = "start"
  /\ \A c \in Client : pc[c] = "label" => effect_handle # None
  /\ effect_handle = None => effect_label = None
  /\ request \in {"set", "stop"} => effect_handle = None
  /\ \A e \in Effect : Live(e) =>
       \/ /\ e = effect_handle /\ task[e].kind = effect_label
          /\ \A c \in Client : pc[c] # "label"
       \/ /\ e = effect_handle
          /\ \E c \in Client : pc[c] = "label" /\ task[e].kind = arg[c].kind
       \/ \E c \in Client : started[c] = e /\ task[e].kind = arg[c].kind

\* The clients have been told the state, or will be, and so of the effect that an
\* unanswered set_* has stopped.
Told ==
  /\ notified.state = current \/ \E c \in Client : ToNotify(c)
  /\ request = "set" =>
       \/ notified.effect = None
       \/ \E c \in Client : pc[c] \in {"update", "apply", "clean", "read", "notify"}

-----------------------------------------------------------------------------
(***************************************************************************)
(* Frames and changes stay within the states.                              *)
(***************************************************************************)

\* A command changes a state to a state.
LEMMA ChangedIsState ==
  ASSUME NEW s \in State, NEW change \in Change \cup State
  PROVE  Changed(s, change) \in State
BY DEF Changed, State, Change

\* A frame is a state, whatever the effect.
LEMMA FrameIsState ==
  ASSUME NEW k \in Kind, NEW s \in State, NEW t \in Lit \cup {None},
         NEW f \in Frames(k, s, t)
  PROVE  f \in State
<1>1. \A x, y \in Nat : \A m \in Nat : x <= m /\ y <= m => Step(x, y) \in 0..m
  BY DEF Step
<1>2. ASSUME t # None PROVE Toward(s, t) \in State
  <2>1. s \in State /\ t \in State
    BY <1>2 DEF Lit
  <2>2. Step(s.brightness, t.brightness) \in Brightness
    BY <1>1, <2>1, DaemonAssumption DEF State, Brightness
  <2>3. Step(s.rgb, t.rgb) \in Rgb
    BY <1>1, <2>1, DaemonAssumption DEF State, Rgb
  <2>4. QED
    BY <2>1, <2>2, <2>3 DEF Toward, State
<1>3. CASE k = "breathe"
  <2>1. PICK b \in Brightness : f = [s EXCEPT !.brightness = b, !.power = b > 0]
    BY <1>3 DEF Frames
  <2> DEFINE p == b > 0
  <2>2. p \in BOOLEAN /\ f = [s EXCEPT !.brightness = b, !.power = p]
    BY <2>1
  <2> HIDE DEF p
  <2>3. QED
    BY <2>2 DEF State
<1>4. CASE k = "color_cycle"
  BY <1>4 DEF Frames, State
<1>5. CASE k = "strobe"
  BY <1>5 DEF Frames, State
<1>6. CASE k = "fade_to"
  BY <1>2, <1>6 DEF Frames
<1>7. QED
  BY <1>3, <1>4, <1>5, <1>6, DaemonAssumption

\* A frame of a fade is closer to its target, in natural numbers.
LEMMA TowardIsCloser ==
  ASSUME NEW s \in State, NEW t \in Lit, s # t
  PROVE  /\ Distance(s, t) \in Nat /\ Distance(Toward(s, t), t) \in Nat
         /\ Distance(Toward(s, t), t) < Distance(s, t)
<1>1. \A x, y \in Nat : /\ Gap(x, y) \in Nat /\ Gap(Step(x, y), y) \in Nat
                        /\ Gap(Step(x, y), y) <= Gap(x, y)
                        /\ x # y => Gap(Step(x, y), y) < Gap(x, y)
  BY DEF Gap, Step
<1>2. /\ s.brightness \in Nat /\ s.rgb \in Nat
      /\ t.brightness \in Nat /\ t.rgb \in Nat
  BY DaemonAssumption DEF State, Lit, Brightness, Rgb
<1>3. s.power # t.power \/ s.brightness # t.brightness \/ s.rgb # t.rgb
  BY DEF State, Lit
<1>4. /\ Toward(s, t).power = t.power
      /\ Toward(s, t).brightness = Step(s.brightness, t.brightness)
      /\ Toward(s, t).rgb = Step(s.rgb, t.rgb)
  BY DEF Toward
<1> DEFINE b == Gap(s.brightness, t.brightness)
           c == Gap(s.rgb, t.rgb)
           bb == Gap(Step(s.brightness, t.brightness), t.brightness)
           cc == Gap(Step(s.rgb, t.rgb), t.rgb)
           p == IF s.power = t.power THEN 0 ELSE 1
<1>5. /\ b \in Nat /\ c \in Nat /\ bb \in Nat /\ cc \in Nat /\ bb <= b /\ cc <= c
      /\ p \in {0, 1} /\ (p = 1 \/ bb < b \/ cc < c)
  BY <1>1, <1>2, <1>3
<1>6. Distance(s, t) = b + c + p /\ Distance(Toward(s, t), t) = bb + cc + 0
  BY <1>4 DEF Distance
<1> HIDE DEF b, c, bb, cc, p
<1>7. QED
  BY <1>5, <1>6

-----------------------------------------------------------------------------

\* What a step does to the effect tasks: nothing, or it stops the one there is a
\* handle of, spawns one, or is a step of a task.
LEMMA TaskSteps ==
  ASSUME [Next]_vars
  PROVE  \/ UNCHANGED task
         \/ effect_handle # None /\ Stop(effect_handle) /\ effect_handle' = None
         \/ \E c \in Client, e \in Effect : Spawn(c, e)
         \/ \E e \in Effect : Frame(e)
<1> USE DEF StopCurrentEffect
<1>1. ASSUME NEW c \in Client, Request(c)
      PROVE  \/ UNCHANGED task
             \/ effect_handle # None /\ Stop(effect_handle) /\ effect_handle' = None
  BY <1>1 DEF Request, Set, ApplyPreset, StartEffect, Reconnect, StopEffect, GetState
<1>2. ASSUME NEW c \in Client, Handle(c), \A e \in Effect : ~Spawn(c, e)
      PROVE  UNCHANGED task
  BY <1>2 DEF Handle, Update, Apply, Clean, Read, Notify, Reapply, Initial, StoreHandle,
     StoreLabel, Reply
<1>3. QED
  BY <1>1, <1>2 DEF Next, vars

\* Every step keeps the types.
LEMMA TypeStep ==
  ASSUME IInv, [Next]_vars
  PROVE  TypeOK'
<1> USE DaemonAssumption DEF IInv, TypeOK, Locals
<1>1. ASSUME NEW c \in Client, NEW change \in Change, Set(c, change)
      PROVE  TypeOK'
  BY <1>1 DEF Set, StopCurrentEffect, Stop, At, Running
<1>2. ASSUME NEW c \in Client, NEW preset \in Lit, ApplyPreset(c, preset)
      PROVE  TypeOK'
  BY <1>2 DEF ApplyPreset, shared, Lit
<1>3. ASSUME NEW c \in Client, NEW params \in Params, StartEffect(c, params)
      PROVE  TypeOK'
  BY <1>3 DEF StartEffect, StopCurrentEffect, Stop, At, Running
<1>4. ASSUME NEW c \in Client, Reconnect(c)
      PROVE  TypeOK'
  BY <1>4 DEF Reconnect, shared
<1>5. ASSUME NEW c \in Client, StopEffect(c)
      PROVE  TypeOK'
  BY <1>5 DEF StopEffect, StopCurrentEffect, Stop, At, Running
<1>6. ASSUME NEW c \in Client, GetState(c)
      PROVE  TypeOK'
  BY <1>6 DEF GetState, shared
<1>7. ASSUME NEW c \in Client, Update(c)
      PROVE  TypeOK'
  BY <1>7, ChangedIsState DEF Update
<1>8. ASSUME NEW c \in Client, Apply(c)
      PROVE  TypeOK'
  BY <1>8 DEF Apply, shared
<1>9. ASSUME NEW c \in Client, Clean(c)
      PROVE  TypeOK'
  BY <1>9 DEF Clean, ForgetFinished, Finished
<1>10. ASSUME NEW c \in Client, Read(c)
      PROVE  TypeOK'
  BY <1>10 DEF Read, shared
<1>11. ASSUME NEW c \in Client, Notify(c)
      PROVE  TypeOK'
  BY <1>11 DEF Notify, shared
<1>12. ASSUME NEW c \in Client, Reapply(c)
      PROVE  TypeOK'
  BY <1>12 DEF Reapply, shared
<1>13. ASSUME NEW c \in Client, Initial(c)
      PROVE  TypeOK'
  BY <1>13 DEF Initial, shared
<1>14. ASSUME NEW c \in Client, NEW e \in Effect, Spawn(c, e)
      PROVE  TypeOK'
  BY <1>14 DEF Spawn, shared, New, Running, Params
<1>15. ASSUME NEW c \in Client, StoreHandle(c)
      PROVE  TypeOK'
  BY <1>15 DEF StoreHandle
<1>16. ASSUME NEW c \in Client, StoreLabel(c)
      PROVE  TypeOK'
  BY <1>16 DEF StoreLabel, Params
<1>17. ASSUME NEW c \in Client, Reply(c)
      PROVE  TypeOK'
  BY <1>17 DEF Reply, ForgetFinished, Finished
<1>18. ASSUME NEW e \in Effect, Wake(e)
      PROVE  TypeOK'
  BY <1>18, FrameIsState DEF Wake, shared, handler, At, FramesOf, Running
<1>19. ASSUME NEW e \in Effect, Break(e)
      PROVE  TypeOK'
  BY <1>19 DEF Break, shared, handler, At
<1>20. ASSUME NEW e \in Effect, Put(e)
      PROVE  TypeOK'
  BY <1>20 DEF Put, shared, handler, At, Running
<1>21. ASSUME NEW e \in Effect, Last(e)
      PROVE  TypeOK'
  BY <1>21 DEF Last, shared, handler, At, Running
<1>22. CASE UNCHANGED vars
  BY <1>22 DEF vars, shared, handler
<1>23. QED
  BY <1>1, <1>2, <1>3, <1>4, <1>5, <1>6, <1>7, <1>8, <1>9, <1>10, <1>11,
     <1>12, <1>13, <1>14, <1>15, <1>16, <1>17, <1>18, <1>19, <1>20, <1>21,
     <1>22
  DEF Next, Request, Handle, Frame

\* Every step keeps what the handlers have at hand.
LEMMA LocalsStep ==
  ASSUME IInv, TypeOK', [Next]_vars
  PROVE  Locals'
<1> USE DaemonAssumption DEF IInv, TypeOK, Locals
<1>1. ASSUME NEW c \in Client, NEW change \in Change, Set(c, change)
      PROVE  Locals'
  BY <1>1 DEF Set, StopCurrentEffect
<1>2. ASSUME NEW c \in Client, NEW preset \in Lit, ApplyPreset(c, preset)
      PROVE  Locals'
  BY <1>2 DEF ApplyPreset, shared, Lit
<1>3. ASSUME NEW c \in Client, NEW params \in Params, StartEffect(c, params)
      PROVE  Locals'
  BY <1>3 DEF StartEffect, StopCurrentEffect
<1>4. ASSUME NEW c \in Client, Reconnect(c)
      PROVE  Locals'
  BY <1>4 DEF Reconnect, shared
<1>5. ASSUME NEW c \in Client, StopEffect(c)
      PROVE  Locals'
  BY <1>5 DEF StopEffect, StopCurrentEffect
<1>6. ASSUME NEW c \in Client, GetState(c)
      PROVE  Locals'
  BY <1>6 DEF GetState, shared
<1>7. ASSUME NEW c \in Client, Update(c)
      PROVE  Locals'
  BY <1>7, ChangedIsState DEF Update
<1>8. ASSUME NEW c \in Client, Apply(c)
      PROVE  Locals'
  BY <1>8 DEF Apply, shared
<1>9. ASSUME NEW c \in Client, Clean(c)
      PROVE  Locals'
  BY <1>9 DEF Clean
<1>10. ASSUME NEW c \in Client, Read(c)
      PROVE  Locals'
  BY <1>10 DEF Read, shared
<1>11. ASSUME NEW c \in Client, Notify(c)
      PROVE  Locals'
  BY <1>11 DEF Notify, shared
<1>12. ASSUME NEW c \in Client, Reapply(c)
      PROVE  Locals'
  BY <1>12 DEF Reapply, shared
<1>13. ASSUME NEW c \in Client, Initial(c)
      PROVE  Locals'
  BY <1>13 DEF Initial, shared
<1>14. ASSUME NEW c \in Client, NEW e \in Effect, Spawn(c, e)
      PROVE  Locals'
  BY <1>14 DEF Spawn, shared, New
<1>15. ASSUME NEW c \in Client, StoreHandle(c)
      PROVE  Locals'
  BY <1>15 DEF StoreHandle
<1>16. ASSUME NEW c \in Client, StoreLabel(c)
      PROVE  Locals'
  BY <1>16 DEF StoreLabel
<1>17. ASSUME NEW c \in Client, Reply(c)
      PROVE  Locals'
  BY <1>17 DEF Reply
<1>18. ASSUME NEW e \in Effect, Wake(e)
      PROVE  Locals'
  BY <1>18 DEF Wake, shared, handler, At
<1>19. ASSUME NEW e \in Effect, Break(e)
      PROVE  Locals'
  BY <1>19 DEF Break, shared, handler, At
<1>20. ASSUME NEW e \in Effect, Put(e)
      PROVE  Locals'
  BY <1>20 DEF Put, shared, handler, At
<1>21. ASSUME NEW e \in Effect, Last(e)
      PROVE  Locals'
  BY <1>21 DEF Last, shared, handler, At
<1>22. CASE UNCHANGED vars
  BY <1>22 DEF vars, shared, handler
<1>23. QED
  BY <1>1, <1>2, <1>3, <1>4, <1>5, <1>6, <1>7, <1>8, <1>9, <1>10, <1>11,
     <1>12, <1>13, <1>14, <1>15, <1>16, <1>17, <1>18, <1>19, <1>20, <1>21,
     <1>22
  DEF Next, Request, Handle, Frame

\* Every step keeps the aborted tasks out of the handles.
LEMMA KeptStep ==
  ASSUME IInv, TypeOK', Locals', [Next]_vars
  PROVE  Kept'
<1> USE DaemonAssumption DEF IInv, TypeOK, Locals, Kept, At
<1>1. ASSUME NEW c \in Client, NEW change \in Change, Set(c, change)
      PROVE  Kept'
  BY <1>1 DEF Set, StopCurrentEffect, Stop, At, Running
<1>2. ASSUME NEW c \in Client, NEW preset \in Lit, ApplyPreset(c, preset)
      PROVE  Kept'
  BY <1>2 DEF ApplyPreset, shared
<1>3. ASSUME NEW c \in Client, NEW params \in Params, StartEffect(c, params)
      PROVE  Kept'
  BY <1>3 DEF StartEffect, StopCurrentEffect, Stop, At, Running
<1>4. ASSUME NEW c \in Client, Reconnect(c)
      PROVE  Kept'
  BY <1>4 DEF Reconnect, shared
<1>5. ASSUME NEW c \in Client, StopEffect(c)
      PROVE  Kept'
  BY <1>5 DEF StopEffect, StopCurrentEffect, Stop, At, Running
<1>6. ASSUME NEW c \in Client, GetState(c)
      PROVE  Kept'
  BY <1>6 DEF GetState, shared
<1>7. ASSUME NEW c \in Client, Update(c)
      PROVE  Kept'
  BY <1>7 DEF Update
<1>8. ASSUME NEW c \in Client, Apply(c)
      PROVE  Kept'
  BY <1>8 DEF Apply, shared
<1>9. ASSUME NEW c \in Client, Clean(c)
      PROVE  Kept'
  BY <1>9 DEF Clean, ForgetFinished, Finished
<1>10. ASSUME NEW c \in Client, Read(c)
      PROVE  Kept'
  BY <1>10 DEF Read, shared
<1>11. ASSUME NEW c \in Client, Notify(c)
      PROVE  Kept'
  BY <1>11 DEF Notify, shared
<1>12. ASSUME NEW c \in Client, Reapply(c)
      PROVE  Kept'
  BY <1>12 DEF Reapply, shared
<1>13. ASSUME NEW c \in Client, Initial(c)
      PROVE  Kept'
  BY <1>13 DEF Initial, shared
<1>14. ASSUME NEW c \in Client, NEW e \in Effect, Spawn(c, e)
      PROVE  Kept'
  BY <1>14 DEF Spawn, shared, New, Running
<1>15. ASSUME NEW c \in Client, StoreHandle(c)
      PROVE  Kept'
  BY <1>15 DEF StoreHandle
<1>16. ASSUME NEW c \in Client, StoreLabel(c)
      PROVE  Kept'
  BY <1>16 DEF StoreLabel
<1>17. ASSUME NEW c \in Client, Reply(c)
      PROVE  Kept'
  BY <1>17 DEF Reply, ForgetFinished, Finished
<1>18. ASSUME NEW e \in Effect, Wake(e)
      PROVE  Kept'
  BY <1>18 DEF Wake, shared, handler, At, Running
<1>19. ASSUME NEW e \in Effect, Break(e)
      PROVE  Kept'
  BY <1>19 DEF Break, shared, handler, At
<1>20. ASSUME NEW e \in Effect, Put(e)
      PROVE  Kept'
  BY <1>20 DEF Put, shared, handler, At, Running
<1>21. ASSUME NEW e \in Effect, Last(e)
      PROVE  Kept'
  BY <1>21 DEF Last, shared, handler, At, Running
<1>22. CASE UNCHANGED vars
  BY <1>22 DEF vars, shared, handler
<1>23. QED
  BY <1>1, <1>2, <1>3, <1>4, <1>5, <1>6, <1>7, <1>8, <1>9, <1>10, <1>11,
     <1>12, <1>13, <1>14, <1>15, <1>16, <1>17, <1>18, <1>19, <1>20, <1>21,
     <1>22
  DEF Next, Request, Handle, Frame

\* A step leaves none behind, as long as no two clients start an effect.
LEMMA ReachedStep ==
  ASSUME IInv, IInv', StartsApart, StartsApart', Bare, NoOrphan, [Next]_vars
  PROVE  Bare' /\ NoOrphan'
<1> USE DaemonAssumption DEF IInv, TypeOK, Locals, Kept, StartsApart, Starting,
       Bare, NoOrphan, Live, At
<1>1. ASSUME NEW c \in Client, NEW change \in Change, Set(c, change)
      PROVE  Bare' /\ NoOrphan'
  BY <1>1 DEF Set, StopCurrentEffect, Stop, Running
<1>2. ASSUME NEW c \in Client, NEW preset \in Lit, ApplyPreset(c, preset)
      PROVE  Bare' /\ NoOrphan'
  BY <1>2 DEF ApplyPreset, shared
<1>3. ASSUME NEW c \in Client, NEW params \in Params, StartEffect(c, params)
      PROVE  Bare' /\ NoOrphan'
  BY <1>3 DEF StartEffect, StopCurrentEffect, Stop, Running
<1>4. ASSUME NEW c \in Client, Reconnect(c)
      PROVE  Bare' /\ NoOrphan'
  BY <1>4 DEF Reconnect, shared
<1>5. ASSUME NEW c \in Client, StopEffect(c)
      PROVE  Bare' /\ NoOrphan'
  BY <1>5 DEF StopEffect, StopCurrentEffect, Stop, Running
<1>6. ASSUME NEW c \in Client, GetState(c)
      PROVE  Bare' /\ NoOrphan'
  BY <1>6 DEF GetState, shared
<1>7. ASSUME NEW c \in Client, Update(c)
      PROVE  Bare' /\ NoOrphan'
  BY <1>7 DEF Update
<1>8. ASSUME NEW c \in Client, Apply(c)
      PROVE  Bare' /\ NoOrphan'
  BY <1>8 DEF Apply, shared
<1>9. ASSUME NEW c \in Client, Clean(c)
      PROVE  Bare' /\ NoOrphan'
  BY <1>9 DEF Clean, ForgetFinished, Finished
<1>10. ASSUME NEW c \in Client, Read(c)
      PROVE  Bare' /\ NoOrphan'
  BY <1>10 DEF Read, shared
<1>11. ASSUME NEW c \in Client, Notify(c)
      PROVE  Bare' /\ NoOrphan'
  BY <1>11 DEF Notify, shared
<1>12. ASSUME NEW c \in Client, Reapply(c)
      PROVE  Bare' /\ NoOrphan'
  BY <1>12 DEF Reapply, shared
<1>13. ASSUME NEW c \in Client, Initial(c)
      PROVE  Bare' /\ NoOrphan'
  BY <1>13 DEF Initial, shared
<1>14. ASSUME NEW c \in Client, NEW e \in Effect, Spawn(c, e)
      PROVE  Bare' /\ NoOrphan'
  BY <1>14 DEF Spawn, shared, New, Running, Params
<1>15. ASSUME NEW c \in Client, StoreHandle(c)
      PROVE  Bare' /\ NoOrphan'
  BY <1>15 DEF StoreHandle
<1>16. ASSUME NEW c \in Client, StoreLabel(c)
      PROVE  Bare' /\ NoOrphan'
  BY <1>16 DEF StoreLabel
<1>17. ASSUME NEW c \in Client, Reply(c)
      PROVE  Bare' /\ NoOrphan'
  BY <1>17 DEF Reply, ForgetFinished, Finished
<1>18. ASSUME NEW e \in Effect, Wake(e)
      PROVE  Bare' /\ NoOrphan'
  BY <1>18 DEF Wake, shared, handler, Running
<1>19. ASSUME NEW e \in Effect, Break(e)
      PROVE  Bare' /\ NoOrphan'
  BY <1>19 DEF Break, shared, handler
<1>20. ASSUME NEW e \in Effect, Put(e)
      PROVE  Bare' /\ NoOrphan'
  BY <1>20 DEF Put, shared, handler, Running
<1>21. ASSUME NEW e \in Effect, Last(e)
      PROVE  Bare' /\ NoOrphan'
  BY <1>21 DEF Last, shared, handler, Running
<1>22. CASE UNCHANGED vars
  BY <1>22 DEF vars, shared, handler
<1>23. QED
  BY <1>1, <1>2, <1>3, <1>4, <1>5, <1>6, <1>7, <1>8, <1>9, <1>10, <1>11,
     <1>12, <1>13, <1>14, <1>15, <1>16, <1>17, <1>18, <1>19, <1>20, <1>21,
     <1>22
  DEF Next, Request, Handle, Frame

\* A step keeps the effects owned, as long as starting one is done alone.
LEMMA OwnedStep ==
  ASSUME IInv, IInv', StartsAlone, StartsAlone', Bare, Owned, [Next]_vars
  PROVE  Owned'
<1> USE DaemonAssumption DEF IInv, TypeOK, Locals, Kept, StartsAlone, Starting,
       Bare, Owned, Live, At
<1>1. ASSUME NEW c \in Client, NEW change \in Change, Set(c, change)
      PROVE  Owned'
  BY <1>1 DEF Set, StopCurrentEffect, Stop, Running
<1>2. ASSUME NEW c \in Client, NEW preset \in Lit, ApplyPreset(c, preset)
      PROVE  Owned'
  BY <1>2 DEF ApplyPreset, shared
<1>3. ASSUME NEW c \in Client, NEW params \in Params, StartEffect(c, params)
      PROVE  Owned'
  BY <1>3 DEF StartEffect, StopCurrentEffect, Stop, Running
<1>4. ASSUME NEW c \in Client, Reconnect(c)
      PROVE  Owned'
  BY <1>4 DEF Reconnect, shared
<1>5. ASSUME NEW c \in Client, StopEffect(c)
      PROVE  Owned'
  BY <1>5 DEF StopEffect, StopCurrentEffect, Stop, Running
<1>6. ASSUME NEW c \in Client, GetState(c)
      PROVE  Owned'
  BY <1>6 DEF GetState, shared
<1>7. ASSUME NEW c \in Client, Update(c)
      PROVE  Owned'
  BY <1>7 DEF Update
<1>8. ASSUME NEW c \in Client, Apply(c)
      PROVE  Owned'
  BY <1>8 DEF Apply, shared
<1>9. ASSUME NEW c \in Client, Clean(c)
      PROVE  Owned'
  BY <1>9 DEF Clean, ForgetFinished, Finished
<1>10. ASSUME NEW c \in Client, Read(c)
      PROVE  Owned'
  BY <1>10 DEF Read, shared
<1>11. ASSUME NEW c \in Client, Notify(c)
      PROVE  Owned'
  BY <1>11 DEF Notify, shared
<1>12. ASSUME NEW c \in Client, Reapply(c)
      PROVE  Owned'
  BY <1>12 DEF Reapply, shared
<1>13. ASSUME NEW c \in Client, Initial(c)
      PROVE  Owned'
  BY <1>13 DEF Initial, shared
<1>14. ASSUME NEW c \in Client, NEW e \in Effect, Spawn(c, e)
      PROVE  Owned'
  BY <1>14 DEF Spawn, shared, New, Running, Params
<1>15. ASSUME NEW c \in Client, StoreHandle(c)
      PROVE  Owned'
  BY <1>15 DEF StoreHandle
<1>16. ASSUME NEW c \in Client, StoreLabel(c)
      PROVE  Owned'
  BY <1>16 DEF StoreLabel
<1>17. ASSUME NEW c \in Client, Reply(c)
      PROVE  Owned'
  BY <1>17 DEF Reply, ForgetFinished, Finished
<1>18. ASSUME NEW e \in Effect, Wake(e)
      PROVE  Owned'
  BY <1>18 DEF Wake, shared, handler, Running
<1>19. ASSUME NEW e \in Effect, Break(e)
      PROVE  Owned'
  BY <1>19 DEF Break, shared, handler
<1>20. ASSUME NEW e \in Effect, Put(e)
      PROVE  Owned'
  BY <1>20 DEF Put, shared, handler, Running
<1>21. ASSUME NEW e \in Effect, Last(e)
      PROVE  Owned'
  BY <1>21 DEF Last, shared, handler, Running
<1>22. CASE UNCHANGED vars
  BY <1>22 DEF vars, shared, handler
<1>23. QED
  BY <1>1, <1>2, <1>3, <1>4, <1>5, <1>6, <1>7, <1>8, <1>9, <1>10, <1>11,
     <1>12, <1>13, <1>14, <1>15, <1>16, <1>17, <1>18, <1>19, <1>20, <1>21,
     <1>22
  DEF Next, Request, Handle, Frame

\* A step leaves the clients told, as long as notifications are sent in order.
LEMMA ToldStep ==
  ASSUME IInv, IInv', SentInOrder, Owned, Owned', Told, [Next]_vars
  PROVE  Told'
<1> USE DEF IInv, TypeOK, Owned, Told, ToNotify
<1>1. ASSUME NEW c \in Client, NEW change \in Change, Set(c, change)
      PROVE  Told'
  BY <1>1 DEF Set, StopCurrentEffect, Stop, Running
<1>2. ASSUME NEW c \in Client, NEW preset \in Lit, ApplyPreset(c, preset)
      PROVE  Told'
  BY <1>2 DEF ApplyPreset, shared
<1>3. ASSUME NEW c \in Client, NEW params \in Params, StartEffect(c, params)
      PROVE  Told'
  BY <1>3 DEF StartEffect, StopCurrentEffect, Stop, Running
<1>4. ASSUME NEW c \in Client, Reconnect(c)
      PROVE  Told'
  BY <1>4 DEF Reconnect, shared
<1>5. ASSUME NEW c \in Client, StopEffect(c)
      PROVE  Told'
  BY <1>5 DEF StopEffect, StopCurrentEffect, Stop, Running
<1>6. ASSUME NEW c \in Client, GetState(c)
      PROVE  Told'
  BY <1>6 DEF GetState, shared
<1>7. ASSUME NEW c \in Client, Update(c)
      PROVE  Told'
  BY <1>7 DEF Update
<1>8. ASSUME NEW c \in Client, Apply(c)
      PROVE  Told'
  BY <1>8 DEF Apply, shared
<1>9. ASSUME NEW c \in Client, Clean(c)
      PROVE  Told'
  BY <1>9 DEF Clean, ForgetFinished, Finished
<1>10. ASSUME NEW c \in Client, Read(c)
      PROVE  Told'
  BY <1>10 DEF Read, shared
<1>11. ASSUME NEW c \in Client, Notify(c)
      PROVE  Told'
  BY <1>11 DEF Notify, shared, SentInOrder
<1>12. ASSUME NEW c \in Client, Reapply(c)
      PROVE  Told'
  BY <1>12 DEF Reapply, shared
<1>13. ASSUME NEW c \in Client, Initial(c)
      PROVE  Told'
  BY <1>13 DEF Initial, shared
<1>14. ASSUME NEW c \in Client, NEW e \in Effect, Spawn(c, e)
      PROVE  Told'
  BY <1>14 DEF Spawn, shared, New, Running, Params
<1>15. ASSUME NEW c \in Client, StoreHandle(c)
      PROVE  Told'
  BY <1>15 DEF StoreHandle
<1>16. ASSUME NEW c \in Client, StoreLabel(c)
      PROVE  Told'
  BY <1>16 DEF StoreLabel
<1>17. ASSUME NEW c \in Client, Reply(c)
      PROVE  Told'
  BY <1>17 DEF Reply, ForgetFinished, Finished
<1>18. ASSUME NEW e \in Effect, Wake(e)
      PROVE  Told'
  BY <1>18 DEF Wake, shared, handler, Running
<1>19. ASSUME NEW e \in Effect, Break(e)
      PROVE  Told'
  BY <1>19 DEF Break, shared, handler
<1>20. ASSUME NEW e \in Effect, Put(e)
      PROVE  Told'
  BY <1>20 DEF Put, shared, handler, Running
<1>21. ASSUME NEW e \in Effect, Last(e)
      PROVE  Told'
  BY <1>21 DEF Last, shared, handler, Running
<1>22. CASE UNCHANGED vars
  BY <1>22 DEF vars, shared, handler
<1>23. QED
  BY <1>1, <1>2, <1>3, <1>4, <1>5, <1>6, <1>7, <1>8, <1>9, <1>10, <1>11,
     <1>12, <1>13, <1>14, <1>15, <1>16, <1>17, <1>18, <1>19, <1>20, <1>21,
     <1>22
  DEF Next, Request, Handle, Frame

-----------------------------------------------------------------------------

\* The state in which run() begins to listen satisfies the invariant.
LEMMA InitIInv ==
  ASSUME Init
  PROVE  IInv
<1>1. TypeOK
  BY DEF Init, TypeOK
<1>2. Locals
  BY DEF Init, Locals
<1>3. Kept
  BY DEF Init, Kept
<1>4. QED
  BY <1>1, <1>2, <1>3 DEF IInv

\* The types, what the handlers have at hand, and who keeps which task.
THEOREM Inductive == Spec => []IInv
<1>1. Init => IInv
  BY InitIInv
<1>2. IInv /\ [Next]_vars => IInv'
  BY TypeStep, LocalsStep, KeptStep DEF IInv
<1>3. QED
  BY <1>1, <1>2, PTL DEF Spec

\* TypeOK: every variable of Daemon keeps its type, so no frame of an effect
\* leaves the range of brightness or colour.
THEOREM TypeCorrect == Spec => []TypeOK
<1>1. IInv => TypeOK
  BY DEF IInv
<1>2. QED
  BY <1>1, Inductive, PTL

\* HandleNotAborted: stop_current_effect and start_effect never leave a handle
\* to a task that has been aborted, however the sessions interleave.
THEOREM HandlesNotAborted == Spec => []HandleNotAborted
<1>1. IInv => HandleNotAborted
  BY DEF IInv, Kept, HandleNotAborted
<1>2. QED
  BY <1>1, Inductive, PTL

\* Starting an effect alone is not starting two at a time.
LEMMA Apartness == StartsAlone => StartsApart
BY DEF StartsAlone, StartsApart, Starting

\* While starts are apart, nothing that runs is out of reach.
LEMMA Reached == Spec /\ []StartsApart => [](Bare /\ NoOrphan)
<1>1. Init => Bare /\ NoOrphan
  BY DEF Init, Bare, Starting, NoOrphan, Live, At
<1>2. IInv /\ IInv' /\ StartsApart /\ StartsApart' /\ Bare /\ NoOrphan /\ [Next]_vars
        => Bare' /\ NoOrphan'
  BY ReachedStep
<1>3. QED
  BY <1>1, <1>2, Inductive, PTL DEF Spec

\* While a start is alone, what runs is owned.
LEMMA OwnedAlways == Spec /\ []StartsAlone => []Owned
<1>1. Init => Owned
  BY DEF Init, Owned, Starting, Live, At
<1>2. IInv /\ IInv' /\ StartsAlone /\ StartsAlone' /\ Bare /\ Owned /\ [Next]_vars => Owned'
  BY OwnedStep
<1>3. StartsAlone => StartsApart
  BY Apartness
<1>4. QED
  BY <1>1, <1>2, <1>3, Inductive, Reached, PTL DEF Spec

\* With any number of clients, no effect is left running that the next command
\* does not stop, unless two start_effect are under way at the same time.
THEOREM NoEffectOrphaned == Spec /\ []StartsApart => []NoOrphan
BY Reached, PTL

\* With any number of clients, and no two start_effect at the same time: when
\* set_*, stop_effect or start_effect has stopped the effect, nothing runs but
\* what a start_effect still under way has spawned.
THEOREM StopReachesAll == Spec /\ []StartsApart => [][StopsAll]_vars
<1>1. IInv /\ NoOrphan /\ [Next]_vars => [StopsAll]_vars
  <2> SUFFICES ASSUME IInv, NoOrphan
               PROVE  StopsAll
    OBVIOUS
  <2> USE DaemonAssumption DEF IInv, TypeOK, NoOrphan, Live, At, StopsAll
  <2>1. ASSUME NEW c \in Client, StopEffect(c)
        PROVE  \A e \in Effect : Live(e)' => \E d \in Client : started[d] = e
    BY <2>1 DEF StopEffect, StopCurrentEffect, Stop, Running
  <2>2. ASSUME NEW c \in Client, NEW change \in Change, Set(c, change)
        PROVE  \A e \in Effect : Live(e)' => \E d \in Client : started[d] = e
    BY <2>2 DEF Set, StopCurrentEffect, Stop, Running
  <2>3. ASSUME NEW c \in Client, NEW params \in Params, StartEffect(c, params)
        PROVE  \A e \in Effect : Live(e)' => \E d \in Client : started[d] = e
    BY <2>3 DEF StartEffect, StopCurrentEffect, Stop, Running
  <2>4. QED
    BY <2>1, <2>2, <2>3
<1>2. QED
  BY <1>1, Inductive, Reached, PTL DEF Spec

\* Every fade has a target.
LEMMA FadesAimed == Spec => []Aimed
<1>1. Init => Aimed
  BY DEF Init, Aimed, AimedRequests, AimedTasks
<1>2. IInv /\ Aimed /\ [Next]_vars => Aimed'
  <2> SUFFICES ASSUME IInv, Aimed, [Next]_vars
               PROVE  Aimed'
    OBVIOUS
  <2> USE DaemonAssumption DEF IInv, TypeOK, Locals, Aimed
  <2>1. AimedRequests'
    <3> USE DEF AimedRequests
    <3>1. ASSUME NEW c \in Client, Request(c)
          PROVE  AimedRequests'
      BY <3>1 DEF Request, Set, ApplyPreset, StartEffect, Reconnect, StopEffect, GetState
    <3>2. ASSUME NEW c \in Client, Handle(c)
          PROVE  AimedRequests'
      BY <3>2 DEF Handle, Update, Apply, Clean, Read, Notify, Reapply, Initial, Spawn,
         StoreHandle, StoreLabel, Reply
    <3>3. ASSUME NEW e \in Effect, Frame(e)
          PROVE  AimedRequests'
      BY <3>3 DEF Frame, Wake, Break, Put, Last, handler
    <3>4. QED
      BY <3>1, <3>2, <3>3 DEF Next, vars, handler
  <2>2. AimedTasks'
    <3> USE DEF At, Running, AimedRequests, AimedTasks
    <3>1. CASE effect_handle # None /\ Stop(effect_handle)
      BY <3>1 DEF Stop
    <3>2. ASSUME NEW c \in Client, NEW e \in Effect, Spawn(c, e)
          PROVE  AimedTasks'
      BY <3>2 DEF Spawn, Params
    <3>3. ASSUME NEW e \in Effect, Frame(e)
          PROVE  AimedTasks'
      <4>1. CASE Wake(e)
        <5>1. PICK s : task' = [task EXCEPT ![e].state = s, ![e].at = "frame"]
          BY <4>1 DEF Wake
        <5>2. task[e] \in Running
          BY <4>1 DEF Wake
        <5>3. task'[e].kind = task[e].kind /\ task'[e].target = task[e].target
          BY <5>1, <5>2
        <5>4. \A g \in Effect : g # e => task'[g] = task[g]
          BY <5>1
        <5>5. QED
          BY <5>2, <5>3, <5>4
      <4>2. QED
        BY <3>3, <4>1 DEF Frame, Break, Put, Last
    <3>4. QED
      BY <3>1, <3>2, <3>3, TaskSteps
  <2>3. QED
    BY <2>1, <2>2
<1>3. QED
  BY <1>1, <1>2, Inductive, PTL DEF Spec

\* From any state to any target, and whatever the clients do: every frame of a
\* fade is closer to its target than the one before, so that it comes to an end
\* after at most Distance frames; and a fade that is not stopped ends on its target.
THEOREM FadesApproach == Spec => [][Approaches]_vars
<1>1. IInv /\ Aimed /\ [Next]_vars => Approaches
  <2> SUFFICES ASSUME IInv, Aimed, [Next]_vars, NEW e \in Effect,
                      task[e] # None, task[e].kind = "fade_to"
               PROVE  IF task'[e] # None
                        THEN /\ task'[e].kind = "fade_to"
                             /\ task'[e].target = task[e].target
                             /\ \/ task'[e].state = task[e].state
                                \/ Distance(task'[e].state, task[e].target)
                                     < Distance(task[e].state, task[e].target)
                        ELSE \/ task[e].state = task[e].target
                             \/ At(e) = "last"
                             \/ effect_handle = e /\ effect_handle' = None
    BY DEF Approaches
  <2> USE DaemonAssumption DEF IInv, TypeOK, At, Running
  <2>1. CASE UNCHANGED task
    BY <2>1
  <2>2. CASE effect_handle # None /\ Stop(effect_handle) /\ effect_handle' = None
    BY <2>2 DEF Stop
  <2>3. ASSUME NEW c \in Client, NEW f \in Effect, Spawn(c, f)
        PROVE  UNCHANGED task[e]
    BY <2>3 DEF Spawn, New
  <2>4. ASSUME NEW f \in Effect, f # e, Frame(f)
        PROVE  UNCHANGED task[e]
    BY <2>4 DEF Frame, Wake, Break, Put, Last
  <2>5. CASE Wake(e)
    <3>1. /\ task[e].target \in Lit /\ task[e].state # task[e].target
          /\ task' = [task EXCEPT ![e].state = Toward(task[e].state, task[e].target),
                                  ![e].at = "frame"]
      BY <2>5 DEF Wake, FramesOf, Frames
    <3> DEFINE f == Toward(task[e].state, task[e].target)
    <3>2. task[e] \in Running /\ f \in Frames(task[e].kind, task[e].state, task[e].target)
      BY <3>1 DEF Frames, Lit
    <3>3. task[e] \in Running /\ task[e].state \in State /\ f \in State
      BY <3>2, FrameIsState
    <3> HIDE DEF f
    <3>r. e \in DOMAIN task /\ task[e] = [at |-> task[e].at, kind |-> task[e].kind,
                                        target |-> task[e].target, state |-> task[e].state]
      BY <3>3 DEF IInv, TypeOK, Running
    <3>4. task'[e] = [at |-> "frame", kind |-> task[e].kind, target |-> task[e].target,
                     state |-> f]
      BY ONLY <3>1, <3>r DEF f
    <3>5. /\ task'[e] # None /\ task'[e].state = f
          /\ task'[e].kind = task[e].kind /\ task'[e].target = task[e].target
      BY <3>3, <3>4
    <3>6. Distance(f, task[e].target) < Distance(task[e].state, task[e].target)
      BY <3>1, <3>3, TowardIsCloser DEF f
    <3>7. QED
      BY <3>5, <3>6
  <2>6. CASE Break(e)
    BY <2>6 DEF Break, FramesOf, Frames, Aimed, AimedTasks
  <2>7. CASE Put(e) \/ Last(e)
    BY <2>7 DEF Put, Last
  <2>8. QED
    BY <2>1, <2>2, <2>3, <2>4, <2>5, <2>6, <2>7, TaskSteps DEF Frame
<1>2. QED
  BY <1>1, Inductive, FadesAimed, PTL DEF Spec

\* StopsEffects: with any number of clients, of which none is served while one
\* starts an effect, no effect goes on writing frames once a set_* or
\* stop_effect request has been answered.
THEOREM CommandStopsEffects == Spec /\ []StartsAlone => []StopsEffects
<1>1. IInv /\ Owned => StopsEffects
  BY DaemonAssumption DEF IInv, Locals, Owned, StopsEffects, AllIdle
<1>2. QED
  BY <1>1, Inductive, OwnedAlways, PTL

\* StateNamesEffect: with any number of clients, of which none is served while
\* one starts an effect, get_state names the effect that writes frames, and none
\* when there is no handle to stop it by.
THEOREM RunningEffectNamed == Spec /\ []StartsAlone => []StateNamesEffect
<1>1. IInv /\ Owned => StateNamesEffect
  BY DaemonAssumption DEF IInv, Locals, Owned, StateNamesEffect, AllIdle
<1>2. QED
  BY <1>1, Inductive, OwnedAlways, PTL

\* SetNotified: with any number of clients whose handlers interleave at every
\* mutex, an answered set_* request has told every client the state and the effect
\* that get_state answers, unless something is served during a start_effect or the
\* notification sent last had been overtaken since its get_state.
LEMMA SetsAreNotified == Spec /\ []StartsAlone /\ []SentInOrder => []SetNotified
<1>1. Init => Told
  BY DEF Init, Told
<1>2. IInv /\ IInv' /\ SentInOrder /\ Owned /\ Owned' /\ Told /\ [Next]_vars => Told'
  BY ToldStep
<1>3. IInv /\ Owned /\ Told => SetNotified
  <2> SUFFICES ASSUME IInv, Owned, Told, AllIdle, request = "set"
               PROVE  notified = [state |-> current, effect |-> effect_label]
    BY DEF SetNotified
  <2>1. effect_label = None
    BY DEF Owned
  <2>2. notified.state = current /\ notified.effect = None
    BY DEF Told, ToNotify, AllIdle
  <2>3. notified = [state |-> notified.state, effect |-> notified.effect]
    BY DEF IInv, TypeOK
  <2>4. QED
    BY <2>1, <2>2, <2>3
<1>4. QED
  BY <1>1, <1>2, <1>3, Inductive, OwnedAlways, PTL DEF Spec

\* With a single client no change comes between a get_state and its notification.
LEMMA OneClientInOrder ==
  ASSUME NEW client, Client = {client}
  PROVE  Spec => []SentInOrder
<1> DEFINE Fresh == pc[client] = "notify" => snap[client] = current
<1>1. Init => Fresh
  BY DEF Init
<1>2. IInv /\ Fresh /\ [Next]_vars => Fresh'
  <2> SUFFICES ASSUME IInv, Fresh, [Next]_vars
               PROVE  Fresh'
    OBVIOUS
  <2> USE DEF IInv, TypeOK
  <2>1. ASSUME NEW c \in Client, Request(c)
        PROVE  Fresh'
    BY <2>1 DEF Request, Set, ApplyPreset, StartEffect, Reconnect, StopEffect, GetState
  <2>2. ASSUME NEW c \in Client, Handle(c)
        PROVE  Fresh'
    <3>1. c = client
      OBVIOUS
    <3>2. CASE Read(c)
      BY <3>1, <3>2 DEF Read, shared
    <3>3. CASE Update(c) \/ Apply(c) \/ Clean(c)
      BY <3>1, <3>3 DEF Update, Apply, Clean
    <3>4. CASE Notify(c) \/ Reapply(c) \/ Reply(c)
      BY <3>1, <3>4 DEF Notify, Reapply, Reply
    <3>5. CASE Initial(c) \/ \E e \in Effect : Spawn(c, e)
      BY <3>1, <3>5 DEF Initial, Spawn
    <3>6. CASE StoreHandle(c) \/ StoreLabel(c)
      BY <3>1, <3>6 DEF StoreHandle, StoreLabel
    <3>7. QED
      BY <2>2, <3>2, <3>3, <3>4, <3>5, <3>6 DEF Handle
  <2>3. ASSUME NEW e \in Effect, Frame(e)
        PROVE  Fresh'
    BY <2>3 DEF Frame, Wake, Break, Put, Last, shared, handler
  <2>4. CASE UNCHANGED vars
    BY <2>4 DEF vars, shared, handler
  <2>5. QED
    BY <2>1, <2>2, <2>3, <2>4 DEF Next
<1>3. Fresh => SentInOrder
  BY DEF SentInOrder, ToNotify
<1>4. QED
  BY <1>1, <1>2, <1>3, Inductive, PTL DEF Spec

\* StopsEffects, StateNamesEffect and SetNotified hold of a daemon with a single
\* client, which is always served alone.
THEOREM SingleClient ==
  ASSUME NEW client, Client = {client}
  PROVE  Spec => [](StopsEffects /\ StateNamesEffect /\ SetNotified)
<1>1. StartsAlone
  BY DEF StartsAlone
<1>2. QED
  BY <1>1, OneClientInOrder, CommandStopsEffects, RunningEffectNamed, SetsAreNotified,
     PTL
=============================================================================
