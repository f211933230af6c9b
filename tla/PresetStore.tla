----------------------------- MODULE PresetStore ----------------------------
(***************************************************************************)
(* What save_preset and delete_preset promise: an edit that is asked for   *)
(* takes effect in the file at one instant, or is lost in a crash, and is  *)
(* confirmed only when it has taken effect.  What is confirmed survives,   *)
(* until the store breaks.  A broken store promises nothing; a recovery    *)
(* accounts for what it has lost.                                          *)
(***************************************************************************)
CONSTANT Id

VARIABLES
  broken,      \* the store may lack what was confirmed
  stored,      \* the presets that a restart finds
  saves,       \* the presets a client has asked to save and has no answer for
  deletes,     \* and to delete
  acked,       \* the presets whose saving was confirmed, and not undone since
  gone         \* the presets whose deletion was confirmed, and not undone since

vars == <<broken, stored, saves, deletes, acked, gone>>

Init == ~broken /\ stored = {} /\ saves = {} /\ deletes = {} /\ acked = {} /\ gone = {}

AskSave(id) ==
  /\ id \notin stored \cup saves \cup deletes
  /\ saves' = saves \cup {id} /\ gone' = gone \ {id}
  /\ UNCHANGED <<stored, deletes, acked>>

Save(id) ==
  /\ id \in saves
  /\ stored' = stored \cup {id}
  /\ UNCHANGED <<saves, deletes, acked, gone>>

ConfirmSave(id) ==
  /\ id \in saves \cap stored
  /\ saves' = saves \ {id} /\ acked' = acked \cup {id}
  /\ UNCHANGED <<stored, deletes, gone>>

AskDelete(id) ==
  /\ id \in stored \ (saves \cup deletes)
  /\ deletes' = deletes \cup {id} /\ acked' = acked \ {id}
  /\ UNCHANGED <<stored, saves, gone>>

Delete(id) ==
  /\ id \in deletes
  /\ stored' = stored \ {id}
  /\ UNCHANGED <<saves, deletes, acked, gone>>

ConfirmDelete(id) ==
  /\ id \in deletes \ stored
  /\ deletes' = deletes \ {id} /\ gone' = gone \cup {id}
  /\ UNCHANGED <<stored, saves, acked>>

\* The edits that were not confirmed have taken effect or not, for good.
Crash == saves' = {} /\ deletes' = {} /\ UNCHANGED <<stored, acked, gone>>

Edit(id) ==
  \/ AskSave(id) \/ Save(id) \/ ConfirmSave(id)
  \/ AskDelete(id) \/ Delete(id) \/ ConfirmDelete(id)

\* A crash ends the state of being broken.  What was lost is not confirmed any more.
Recover ==
  /\ saves' = {} /\ deletes' = {}
  /\ acked' = acked \cap stored' /\ gone' = gone \ stored'

Next ==
  \/ ~broken /\ ~broken' /\ (Crash \/ \E id \in Id : Edit(id))
  \/ broken'
  \/ broken /\ ~broken' /\ Recover

Spec == Init /\ [][Next]_vars
=============================================================================
