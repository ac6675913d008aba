--------------------------- MODULE MCPaperCopilot ---------------------------
(* TLC instances of PaperCopilot. *)
EXTENDS PaperCopilot, TLC

Symmetry == Permutations(Requests) \cup Permutations(Calls)
=============================================================================
