--------------------------- MODULE OrderedDelivery ---------------------------
(***************************************************************************)
(* What subscribing to the durable events of a workflow promises: every    *)
(* reader receives every event after the cursor it starts from, once, in   *)
(* the order of the cursors.                                               *)
(***************************************************************************)
EXTENDS Naturals

CONSTANT Readers

VARIABLES published,   \* cursor of the last event saved
          received     \* received[r]: cursor of the last event r has

vars == <<published, received>>

Init == published = 0 /\ received = [r \in Readers |-> 0]

Publish == /\ published' \in Nat
           /\ published' > published
           /\ UNCHANGED received

Receive(r) == /\ received[r] < published
              /\ received' = [received EXCEPT ![r] = @ + 1]
              /\ UNCHANGED published

Next == Publish \/ \E r \in Readers : Receive(r)

Spec == Init /\ [][Next]_vars /\ \A r \in Readers : WF_vars(Receive(r))
=============================================================================
