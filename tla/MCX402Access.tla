---------------------------- MODULE MCX402Access ----------------------------
(* TLC instances of X402Access. *)
EXTENDS X402Access, TLC

Identity == Permutations(Payments) \cup Permutations(Requests)
              \cup Permutations(Bodies) \cup Permutations(Responses)
=============================================================================
