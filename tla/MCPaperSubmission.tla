------------------------- MODULE MCPaperSubmission -------------------------
(* TLC instances of PaperSubmission. *)
EXTENDS PaperSubmission, TLC

CONSTANTS q1, q2, r1, r2, r3

(* r1 and r2 are receipts for the same request. *)
MCRequestOf == [r \in Receipts |-> IF r = r3 THEN q2 ELSE q1]
ShortExpiry == [r \in Receipts |-> IF r = r2 THEN 2 ELSE 1]

HostSymmetry == Permutations(Hosts)
=============================================================================
