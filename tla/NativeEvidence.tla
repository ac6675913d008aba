--------------------------- MODULE NativeEvidence ---------------------------
(***************************************************************************)
(* How the answers of the evidence sources become the sections of a        *)
(* receipt: the two native contracts of the public gateway, its LiquiLens  *)
(* research section, and the funding and corporate projections of the      *)
(* private paper profile.                                                  *)
(*                                                                         *)
(* A reply is a record of the clocks and figures it carries, and the set   *)
(* of its flaws: the parts of the document that would not stand up to the  *)
(* validator named after them (a digest that does not match, a field that  *)
(* is missing, an authority that is claimed).  A source that could not be  *)
(* reached, or answered too late, too much or not in JSON, gives None.     *)
(***************************************************************************)
EXTENDS TradeSafety

CONSTANTS EvidenceTtl,    \* EVIDENCE_TTL_SECONDS and LOCAL_TTL_SECONDS
          ObservationAge, \* UNDERTOW_MAX_OBSERVATION_AGE
          MaxSkew,        \* UNDERTOW_MAX_OBSERVATION_SKEW_SECONDS
          ScopedAge,      \* max_age_seconds the private profile asks for
          ScopedCaps,     \* the loosest policy the private profile submits under
          Rungs,          \* the notionals Undertow publishes a price for
          Bands           \* FUNDING_BANDS_BP, in rising order

ASSUME EvidenceAssumption ==
  /\ EvidenceTtl \in Nat \ {0} /\ ObservationAge \in Nat \ {0} /\ MaxSkew \in Nat
  /\ Rungs \subseteq Nat \ {0}
  /\ ScopedAge \in [Products -> Nat \ {0}]
  /\ Bands \in [1..3 -> Nat] /\ Bands[1] < Bands[2] /\ Bands[2] < Bands[3]

Sound(reply, part) == part \notin reply.flaws

Section(q, state, asOf, known, at, expires, facts) ==
  [of |-> q, state |-> state, asOf |-> asOf, known |-> known, retrieved |-> at,
   expires |-> expires, rights |-> "metadata_only", real |-> FALSE, quote |-> FALSE,
   facts |-> facts]

UnavailableSection(q, at)   == Section(q, "unavailable", None, None, at, None, NoFacts)
NotApplicableSection(q, at) == Section(q, "not_applicable", None, None, at, None, NoFacts)

(* A validated context, if what bounds it leaves it any time at all.       *)
Projected(q, asOf, known, at, bounds, facts) ==
  LET expires == Earliest({q.expires, at + EvidenceTtl} \cup bounds)
  IN  IF expires > at
      THEN Section(q, "context_only", asOf, known, at, expires, facts)
      ELSE UnavailableSection(q, at)

Fresh(asOf, at, age) == asOf <= at /\ at - asOf <= age

-----------------------------------------------------------------------------
(* seiche.risk-context.v1 *)

SeicheSound(c, at, age) ==
  /\ \A part \in {"digest", "identity", "state", "authority", "staleness",
                  "attestation", "limitations"} : Sound(c, part)
  /\ c.evidence <= c.snapshot /\ c.snapshot <= c.evaluated /\ c.evaluated <= at
  /\ Fresh(c.evidence, at, age)

SeicheSection(c, q, at, age) ==
  IF c # None /\ SeicheSound(c, at, age)
  THEN Projected(q, c.evidence, c.snapshot, at, {}, [NoFacts EXCEPT !.regime = c.regime])
  ELSE UnavailableSection(q, at)

-----------------------------------------------------------------------------
(* undertow.trade-safety-exit-context.v1 *)

(* The orders Undertow prices: an exact published dollar notional of BTC   *)
(* to sell, with no quantity and no venue, outside live trading.           *)
Priceable(q) ==
  /\ q.mode \in {"observe", "paper"}
  /\ ~q.quantity /\ ~q.venue
  /\ q.side = "sell" /\ q.btc
  /\ q.usd /\ q.notional \in Rungs

UndertowClocks(c, at) ==
  /\ c.oldest <= c.observation /\ c.observation <= c.known
  /\ c.known <= c.collected /\ c.collected <= at
  /\ c.expires = c.oldest + ObservationAge /\ at < c.expires
  /\ c.observation - c.oldest <= MaxSkew

UndertowRights(c, at) ==
  /\ Sound(c, "rights")
  /\ c.reviewed <= c.known /\ c.validFrom <= c.known
  /\ c.validFrom < c.validUntil /\ at < c.validUntil

(* Every venue covered and priced, and the peg within its threshold.       *)
UndertowCoverage(c) == Sound(c, "coverage") /\ Sound(c, "peg")

UndertowMeasurement(c, q) ==
  /\ Sound(c, "measurement")
  /\ c.size = q.notional /\ c.rung = c.size /\ c.rung \in Rungs
  /\ c.cost >= 0 /\ c.spread >= 0

UndertowSound(c, q, at, age) ==
  /\ \A part \in {"digest", "identity", "state", "authority", "source", "pit",
                  "limitations"} : Sound(c, part)
  /\ c.of = q
  /\ UndertowClocks(c, at)
  /\ Fresh(c.oldest, at, age)
  /\ UndertowRights(c, at)
  /\ UndertowCoverage(c)
  /\ UndertowMeasurement(c, q)

UndertowSection(c, q, at, age) ==
  IF Priceable(q) /\ c # None /\ UndertowSound(c, q, at, age)
  THEN Projected(q, c.oldest, c.known, at, {c.expires},
         [NoFacts EXCEPT !.size = c.size, !.rung = c.rung,
                         !.cost = c.cost, !.spread = c.spread])
  ELSE UnavailableSection(q, at)

-----------------------------------------------------------------------------
(* liquilens.failure-radar.institution.v1: research about an institution,  *)
(* known from the moment it was retrieved.                                 *)
LiquilensSection(c, q, at) ==
  IF c # None /\ Sound(c, "history") /\ Sound(c, "trajectory") /\ c.periodEnd <= at
  THEN Projected(q, c.periodEnd, at, at, {}, NoFacts)
  ELSE UnavailableSection(q, at)

-----------------------------------------------------------------------------
(* liquilens.paper-funding-exit.v1, the private profile. *)

ScopedFresh(asOf, at, age) == asOf <= at /\ at - asOf < age

Regime(pressure) ==
  CASE pressure > Bands[3] -> "STRESS"
    [] pressure > Bands[2] /\ pressure <= Bands[3] -> "STRAIN"
    [] pressure > Bands[1] /\ pressure <= Bands[2] -> "EROSION"
    [] pressure <= Bands[1] -> "CALM"

(* Five native cards of one day, their sources and their exact-date        *)
(* spreads; the pressure is the larger of what is displayed and what the   *)
(* displayed rates give again.                                             *)
FundingSection(c, q, at) ==
  LET age == ScopedAge["seiche"] IN
  IF /\ c # None
     /\ \A part \in {"identity", "cards", "sources", "join", "algebra"} : Sound(c, part)
     /\ ScopedFresh(c.day, at, age)
     /\ c.captured # None => ScopedFresh(c.captured, at, age) /\ c.captured >= c.day
  THEN Projected(q, c.day, at, at, {c.day + age},
                 [NoFacts EXCEPT !.regime = Regime(c.pressure)])
  ELSE UnavailableSection(q, at)

(* Every channel and leg is well formed, whatever period it is of, and     *)
(* none is dated in the future.                                            *)
ResearchChannels(c, at) ==
  Sound(c, "channels") /\ \A day \in {c.spreadDay, c.rolloverDay} : day <= at

(* Commercial paper must be current in both its legs; the section is as    *)
(* old as the older of them.                                               *)
CorporateSection(c, q, at) ==
  LET age == ScopedAge["liquilens"] IN
  IF /\ c # None
     /\ \A part \in {"identity", "history", "market", "counts"} : Sound(c, part)
     /\ ResearchChannels(c, at)
     /\ ScopedFresh(c.spreadDay, at, age) /\ ScopedFresh(c.rolloverDay, at, age)
     /\ c.calibrated <= at /\ at < c.review
  THEN LET day == Earliest({c.spreadDay, c.rolloverDay})
       IN  Projected(q, day, at, at, {day + age}, NoFacts)
  ELSE UnavailableSection(q, at)

(* The order the private profile accepts (its 1000 dollars are the lowest  *)
(* rung), and the sale it prices for it: a distinct request about the same *)
(* notional.                                                               *)
ScopedOrder(q) ==
  /\ q.mode = "paper" /\ q.scope = {"orders:paper"}
  /\ q.btc /\ q.usd /\ ~q.quantity /\ ~q.venue /\ ~q.slug
  /\ q.kind = "market" /\ q.notional = Earliest(Rungs)

Scenario(q) == [q EXCEPT !.side = "sell", !.id = <<"liquidation", q.id>>]

(* A proven section about the sale is associated with the order itself.    *)
ExitSection(c, q, at) ==
  LET s == UndertowSection(c, Scenario(q), at, ScopedAge["undertow"])
  IN  IF s.state = "context_only" THEN [s EXCEPT !.of = q] ELSE UnavailableSection(q, at)

(* verify_entry_profile_receipt: what a receipt of the profile must be at  *)
(* the moment it is to be used, on top of being one.                       *)
ScopedReceipt(r, at, lane) ==
  /\ Verifies(r, at, TRUE) /\ InLane(r, lane)
  /\ ScopedOrder(r.request)
  /\ r.policy.required = Products
  /\ Within(r.policy.maxNotional, ScopedCaps.maxNotional)
  /\ Within(r.policy.maxCost, ScopedCaps.maxCost)
  /\ Within(r.policy.maxSpread, ScopedCaps.maxSpread)
  /\ \A p \in Products : r.policy.maxAge[p] <= ScopedAge[p]
  /\ ScopedCaps.hold \subseteq r.policy.hold
  /\ r.evidence["undertow"].state = "context_only"
=============================================================================
