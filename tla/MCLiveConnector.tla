-------------------------- MODULE MCLiveConnector --------------------------
(* TLC instances of LiveConnector. *)
EXTENDS LiveConnector, TLC

CONSTANTS q1, q2, q3, r1, r2, r3

(* One receipt a request; q3 may repeat the intent of q2. *)
MCRequestOf == [r \in Receipts |-> IF r = r1 THEN q1 ELSE IF r = r2 THEN q2 ELSE q3]
Always      == [r \in Receipts |-> 0..MaxClock]
Windows     == [r \in Receipts |-> IF r = r2 THEN 1..MaxClock ELSE {0}]
SameIntent  == [q \in Requests |-> IF q = q3 THEN q2 ELSE q]
OwnIntent   == [q \in Requests |-> q]
TwoUnits    == [q \in Requests |-> IF q = q1 THEN 2 ELSE 1]
OneUnit     == [q \in Requests |-> 1]

WorkerSymmetry == Permutations(Workers)
=============================================================================
