----------------------------- MODULE LatestWins -----------------------------
(***************************************************************************)
(* What the command layer promises its callers: of the states put into it  *)
(* only the newest one counts.  A delivery hands over the state put last,  *)
(* never an older one, and a state already superseded is never delivered.  *)
(***************************************************************************)
CONSTANTS State, None

VARIABLES
  newest,      \* the state put last
  delivered    \* the state handed over last

TypeOK == newest \in State \cup {None} /\ delivered \in State \cup {None}

Init == newest = None /\ delivered = None

Put(s) == newest' = s /\ UNCHANGED delivered

Deliver == delivered' = newest /\ UNCHANGED newest

Next == (\E s \in State : Put(s)) \/ Deliver

Spec == Init /\ [][Next]_<<newest, delivered>>
=============================================================================
