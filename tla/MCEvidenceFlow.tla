--------------------------- MODULE MCEvidenceFlow ---------------------------
(* TLC instance of EvidenceFlow: two rungs, evidence of two ages, and      *)
(* validities short enough to run out between two steps.                   *)
EXTENDS EvidenceFlow, TLC

MCRungs == {1, 2}
MCBands == <<0, 1, 2>>
MCAges == [p \in Products |-> 3]

(* Orders: the sale Undertow prices, a purchase only the private profile   *)
(* can price, a look at an institution, and a live order.                  *)
Sale == [id |-> "sale", account |-> "paper1", policy |-> "own", created |-> 0, expires |-> 0,
         mode |-> "paper", scope |-> {"orders:paper"}, kind |-> "limit",
         limited |-> TRUE, stopped |-> FALSE, side |-> "sell", quantity |-> FALSE,
         venue |-> FALSE, btc |-> TRUE, usd |-> TRUE, slug |-> FALSE, notional |-> 1]
MCShapes ==
  {Sale,
   [Sale EXCEPT !.id = "purchase", !.policy = "scoped", !.side = "buy", !.kind = "market",
                !.limited = FALSE],
   [Sale EXCEPT !.id = "look", !.mode = "observe", !.scope = {}, !.slug = TRUE],
   [Sale EXCEPT !.id = "live", !.mode = "live", !.scope = {"orders:paper", "orders:live"}]}

Own == [id |-> "own", required |-> Products, maxAge |-> MCAges,
        hold |-> {"STRESS"}, maxNotional |-> 1, maxCost |-> 1, maxSpread |-> 1]
MCPolicies == {[Own EXCEPT !.required = Indispensable], [Own EXCEPT !.maxNotional = 2]}
MCBindings ==
  [k \in Profiles |-> [account |-> "paper1",
                      policy |-> IF k = "scoped" THEN [Own EXCEPT !.id = "scoped"] ELSE Own]]

MCHard == [required |-> Indispensable, hold |-> {"STRESS"},
           maxAge |-> [p \in Products |-> 3], maxNotional |-> 2, maxCost |-> 2,
           maxSpread |-> 2, allowed |-> {}]
MCEnvelope == [MCHard EXCEPT !.maxNotional = 1]

Calm == [silent |-> {}, wrong |-> {}, lag |-> [p \in Products |-> 0], regime |-> "CALM",
         cost |-> 1, pressure |-> 0]
MCWorlds ==
  {Calm,
   [Calm EXCEPT !.lag["undertow"] = 2],
   [Calm EXCEPT !.regime = "STRESS", !.pressure = 3, !.silent = {"liquilens"}],
   [Calm EXCEPT !.cost = 2],
   [Calm EXCEPT !.wrong = {"seiche"}, !.silent = {"undertow"}]}

Symmetry == Permutations(Threads)
=============================================================================
