--------------------------- MODULE X402Entitlement ---------------------------
(***************************************************************************)
(* What the paid route of the Trade Safety Gateway promises, with no       *)
(* request, token, lease, transaction or restart in sight.                 *)
(*                                                                         *)
(* A payment is charged at most once, for one request body and one set of  *)
(* response bytes fixed before the charge.  Those bytes, and no others,    *)
(* may be handed out while the payment is entitled, any number of times.   *)
(* An entitlement may be retired; a charge may be closed without one; and  *)
(* neither ever makes the payment chargeable again.                        *)
(*                                                                         *)
(* X402Access implements this specification (X402Access!Entitlement).      *)
(***************************************************************************)
CONSTANTS Payments,   \* payment identities
          Goods,      \* a request body together with its response bytes
          None        \* no goods bound

VARIABLES status,     \* payment -> where its single charge stands
          bound,      \* payment -> the goods that charge buys
          handed      \* payment -> the goods handed out for it so far

vars == <<status, bound, handed>>

Statuses == {"open", "charging", "entitled", "retired", "closed"}

Init ==
  /\ status = [p \in Payments |-> "open"]
  /\ bound  = [p \in Payments |-> None]
  /\ handed = [p \in Payments |-> {}]

(* The charge is started, and what it buys is fixed, in one step. *)
Charge(p, g) ==
  /\ status[p] = "open"
  /\ status' = [status EXCEPT ![p] = "charging"]
  /\ bound'  = [bound  EXCEPT ![p] = g]
  /\ UNCHANGED handed

(* The charge is known to have succeeded; the goods may go out at once. *)
Entitle(p) ==
  /\ status[p] = "charging"
  /\ status' = [status EXCEPT ![p] = "entitled"]
  /\ \/ handed' = [handed EXCEPT ![p] = @ \cup {bound[p]}]
     \/ UNCHANGED handed
  /\ UNCHANGED bound

(* The charge is known not to have succeeded, or an operator gave it up. *)
Close(p) ==
  /\ status[p] = "charging"
  /\ status' = [status EXCEPT ![p] = "closed"]
  /\ bound'  = [bound  EXCEPT ![p] = None]
  /\ UNCHANGED handed

HandOut(p) ==
  /\ status[p] = "entitled"
  /\ handed' = [handed EXCEPT ![p] = @ \cup {bound[p]}]
  /\ UNCHANGED <<status, bound>>

(* Response material of some entitled payments is discarded for good. *)
Retire(S) ==
  /\ \A p \in S : status[p] = "entitled"
  /\ status' = [p \in Payments |-> IF p \in S THEN "retired" ELSE status[p]]
  /\ bound'  = [p \in Payments |-> IF p \in S THEN None ELSE bound[p]]
  /\ UNCHANGED handed

Next ==
  \/ \E p \in Payments :
        \/ \E g \in Goods : Charge(p, g)
        \/ Entitle(p)
        \/ Close(p)
        \/ HandOut(p)
  \/ \E S \in SUBSET Payments : Retire(S)

Spec == Init /\ [][Next]_vars
=============================================================================
