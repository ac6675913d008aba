----------------------------- MODULE PaperOrder -----------------------------
(***************************************************************************)
(* What the paper lane promises about one request identity, whatever       *)
(* crashes, timeouts and reconciliations happen: it is attempted at most   *)
(* once, an identity declared void was never attempted, an order exists    *)
(* only for an attempted identity, and the lane claims to know an order    *)
(* only when the broker has it.  Nothing is ever taken back.               *)
(***************************************************************************)
CONSTANT Requests      \* canonical request identities

VARIABLES status,      \* what the operator's records say of each identity
          placed       \* identities the broker holds an order for

Init ==
  /\ status = [q \in Requests |-> "free"]
  /\ placed = {}

Become(q, s) == status' = [status EXCEPT ![q] = s]

Claim(q)   == status[q] = "free" /\ Become(q, "claimed") /\ UNCHANGED placed

Void(q)    == status[q] = "claimed" /\ Become(q, "void") /\ UNCHANGED placed

Attempt(q) == status[q] = "claimed" /\ Become(q, "attempted") /\ UNCHANGED placed

Place(q)   == /\ status[q] = "attempted" /\ q \notin placed
              /\ placed' = placed \cup {q}
              /\ UNCHANGED status

Learn(q)   == /\ status[q] = "attempted" /\ q \in placed
              /\ Become(q, "known")
              /\ UNCHANGED placed

Next ==
  \E q \in Requests : Claim(q) \/ Void(q) \/ Attempt(q) \/ Place(q) \/ Learn(q)

Spec == Init /\ [][Next]_<<status, placed>>
=============================================================================
