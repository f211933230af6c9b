--------------------------- MODULE RequestService ---------------------------
(***************************************************************************)
(* What the touch UI can rely on, over one connection and daemon after     *)
(* another: whatever is under way may be lost, but the requests are        *)
(* carried out in the order they were made and none twice, an answer is    *)
(* that of its own request, and the list taken for the presets is the      *)
(* answer to the list request made last.                                   *)
(***************************************************************************)
EXTENDS Naturals, Sequences

CONSTANT None

VARIABLES
  next_id,     \* the number of the next request
  waiting,     \* the requests neither carried out nor lost
  answers,     \* the answers neither looked at nor lost
  executed,    \* the numbers of the requests carried out, in order
  presets,     \* the presets the daemon has saved
  listed,      \* the presets the UI shows
  awaited      \* the list request whose answer they wait for

vars == <<next_id, waiting, answers, executed, presets, listed, awaited>>

Init ==
  /\ next_id = 3 /\ awaited = 2
  /\ waiting = {[id |-> 1, kind |-> "get"], [id |-> 2, kind |-> "list"]}
  /\ answers = {} /\ executed = <<>>
  /\ presets = {} /\ listed = {}

Lose ==
  /\ waiting' \subseteq waiting /\ answers' \subseteq answers
  /\ UNCHANGED <<next_id, executed, presets, listed, awaited>>

\* A list is awaited in place of the one before.
Ask(kinds) ==
  /\ next_id' = next_id + Len(kinds)
  /\ waiting' \subseteq
       waiting \cup {[id |-> next_id + i - 1, kind |-> kinds[i]] : i \in DOMAIN kinds}
  /\ answers' \subseteq answers
  /\ awaited' = IF \E i \in DOMAIN kinds : kinds[i] = "list"
                THEN next_id + (CHOOSE i \in DOMAIN kinds : kinds[i] = "list") - 1
                ELSE awaited
  /\ UNCHANGED <<executed, presets, listed>>

Answer(r) == [id |-> r.id, value |-> IF r.kind = "list" THEN presets ELSE {}]

\* Those made before r that still wait are lost with this.
CarryOut(r) ==
  /\ r \in waiting
  /\ waiting' \subseteq {q \in waiting : q.id > r.id}
  /\ answers' \subseteq answers \cup {Answer(r)}
  /\ executed' = Append(executed, r.id)
  /\ presets' = IF r.kind = "save" THEN presets \cup {r.id} ELSE presets
  /\ UNCHANGED <<next_id, listed, awaited>>

Look(a) ==
  /\ a \in answers
  /\ waiting' \subseteq waiting /\ answers' \subseteq answers
  /\ IF a.id = awaited
     THEN listed' = a.value /\ awaited' = None
     ELSE UNCHANGED <<listed, awaited>>
  /\ UNCHANGED <<next_id, executed, presets>>

Next ==
  \/ Lose
  \/ \E kinds \in {<<"set">>, <<"list">>, <<"save", "list">>} : Ask(kinds)
  \/ \E r \in waiting : CarryOut(r)
  \/ \E a \in answers : Look(a)

Spec == Init /\ [][Next]_vars
=============================================================================
