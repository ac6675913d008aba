------------------------- MODULE EvidenceFlowProofs -------------------------
(***************************************************************************)
(* Whatever the sources say, however many assessments, threads, receipts   *)
(* and seconds there are, and whenever the clock is set back: an order goes *)
(* through on evidence that still stands, and a receipt lets one through.   *)
(***************************************************************************)
EXTENDS EvidenceFlow, SequenceTheorems, FiniteSetTheorems, TLAPS

(***************************************************************************)
(* The earliest of some moments.                                            *)
(***************************************************************************)
Moments(S) == S \subseteq Int /\ \E t \in S : \A u \in S : t <= u

LEMMA EarliestIsFirst ==
  ASSUME NEW S, Moments(S)
  PROVE  Earliest(S) \in S /\ Earliest(S) \in Int /\ \A u \in S : Earliest(S) <= u
BY DEF Moments, Earliest

LEMMA PairOfMoments == \A a, b \in Int : Moments({a, b})
BY DEF Moments

LEMMA MoreMoments ==
  ASSUME NEW S, Moments(S), NEW T, T = {} \/ Moments(T)
  PROVE  Moments(S \cup T)
<1>1. CASE T = {}
  <2>1. S \cup T = S
    BY <1>1
  <2> QED  BY <2>1
<1>2. CASE Moments(T)
  <2>1. PICK s \in S : \A u \in S : s <= u
    BY DEF Moments
  <2>2. PICK t \in T : \A u \in T : t <= u
    BY <1>2 DEF Moments
  <2>3. s \in Int /\ t \in Int /\ S \subseteq Int /\ T \subseteq Int
    BY <1>2, <2>1, <2>2 DEF Moments
  <2>4. CASE s <= t
    <3>1. s \in S \cup T /\ \A u \in S \cup T : s <= u
      BY <2>1, <2>2, <2>3, <2>4
    <3> QED  BY <2>3, <3>1 DEF Moments
  <2>5. CASE t <= s
    <3>1. t \in S \cup T /\ \A u \in S \cup T : t <= u
      BY <2>1, <2>2, <2>3, <2>5
    <3> QED  BY <2>3, <3>1 DEF Moments
  <2> QED  BY <2>3, <2>4, <2>5
<1> QED  BY <1>1, <1>2

(***************************************************************************)
(* What a receipt is made of, as far as its life is concerned.              *)
(***************************************************************************)
Timed(q)    == /\ {"expires", "notional"} \subseteq DOMAIN q
               /\ q.expires \in Int /\ q.notional \in Int
Graded(pol) == pol.maxAge \in [Products -> Int] /\ Limits(pol) \subseteq Int
Dated(s)    == s.state \in Usable => s.asOf \in Int /\ s.expires \in Int
Costed(f)   == f.cost \in Int \cup {None} /\ f.spread \in Int \cup {None}

Parts(q, ev, v, pol) ==
  /\ Timed(q) /\ Graded(pol)
  /\ DOMAIN ev = Products
  /\ \A p \in Products : Dated(ev[p])
  /\ Costed(ev["undertow"].facts)
  /\ v.state = "not_applicable"

\* Nothing a decision rests on outlives a moment.
Covers(t, ev, pol) ==
  \A p \in pol.required : ev[p].state \in Usable =>
    t <= ev[p].expires /\ t <= ev[p].asOf + pol.maxAge[p]

LEMMA CeilingIsLow ==
  ASSUME NEW q, NEW ev, NEW v, NEW pol, NEW at \in Int, NEW ttl \in Int, NEW outcome,
         Parts(q, ev, v, pol), pol.required \subseteq Products
  PROVE  LET t == Ceiling(q, ev, v, pol, at, ttl, outcome) IN
         /\ t \in Int /\ t <= q.expires /\ t <= at + ttl
         /\ outcome # "unavailable" => Covers(t, ev, pol)
<1> DEFINE Base == {q.expires, at + ttl}
           Of(p) == IF p \in pol.required /\ ev[p].state \in Usable
                    THEN {ev[p].expires, ev[p].asOf + pol.maxAge[p]} ELSE {}
           All == Base \cup Of("seiche") \cup Of("undertow") \cup Of("liquilens")
<1>1. Moments(Base)
  BY PairOfMoments DEF Parts, Timed
<1>2. \A p \in Products : Of(p) = {} \/ Moments(Of(p))
  <2> SUFFICES ASSUME NEW p \in Products PROVE Of(p) = {} \/ Moments(Of(p))
    OBVIOUS
  <2>1. pol.maxAge[p] \in Int
    BY DEF Parts, Graded
  <2>2. CASE p \in pol.required /\ ev[p].state \in Usable
    <3>1. ev[p].expires \in Int /\ ev[p].asOf \in Int
      BY <2>2 DEF Parts, Dated
    <3> QED  BY <2>1, <2>2, <3>1, PairOfMoments
  <2> QED  BY <2>2
<1>3. Moments(All)
  <2> HIDE DEF Base, Of
  <2>0. {"seiche", "undertow", "liquilens"} = Products
    BY DEF Products
  <2>1. Moments(Base \cup Of("seiche"))
    BY <1>1, <1>2, <2>0, MoreMoments
  <2>2. Moments(Base \cup Of("seiche") \cup Of("undertow"))
    BY <1>2, <2>0, <2>1, MoreMoments
  <2> QED  BY <1>2, <2>0, <2>2, MoreMoments
<1>4. Dependencies(q, ev, v, pol) = Of("seiche") \cup Of("undertow") \cup Of("liquilens")
  BY DEF Dependencies, Parts, Products
<1>5. CASE outcome = "unavailable"
  <2>1. Ceiling(q, ev, v, pol, at, ttl, outcome) = Earliest(Base)
    BY <1>5 DEF Ceiling
  <2>2. /\ Earliest(Base) \in Int /\ \A u \in Base : Earliest(Base) <= u
    BY <1>1, EarliestIsFirst
  <2> QED  BY <1>5, <2>1, <2>2
<1>6. CASE outcome # "unavailable"
  <2> DEFINE t == Earliest(All)
  <2>1. Ceiling(q, ev, v, pol, at, ttl, outcome) = t
    BY <1>4, <1>6 DEF Ceiling
  <2>2. t \in Int /\ \A u \in All : t <= u
    <3> HIDE DEF All
    <3> QED  BY <1>3, EarliestIsFirst
  <2>3. t <= q.expires /\ t <= at + ttl
    BY <2>2
  <2>4. Covers(t, ev, pol)
    <3> SUFFICES ASSUME NEW p \in pol.required, ev[p].state \in Usable
                 PROVE  t <= ev[p].expires /\ t <= ev[p].asOf + pol.maxAge[p]
      BY DEF Covers
    <3>1. p \in {"seiche", "undertow", "liquilens"}
      BY DEF Products
    <3>2. Of(p) \subseteq All
      BY <3>1
    <3>3. {ev[p].expires, ev[p].asOf + pol.maxAge[p]} = Of(p)
      OBVIOUS
    <3> QED  BY <2>2, <3>2, <3>3
  <2> HIDE DEF t
  <2> QED  BY <2>1, <2>2, <2>3, <2>4
<1> QED  BY <1>5, <1>6

(***************************************************************************)
(* The sections the sources' answers become.                                *)
(***************************************************************************)
Standing(s, at) == Dated(s) /\ Costed(s.facts) /\ s.retrieved = at

LEMMA NothingStands ==
  ASSUME NEW q, NEW at
  PROVE  /\ Standing(UnavailableSection(q, at), at)
         /\ Standing(NotApplicableSection(q, at), at)
BY DEF Standing, Dated, Costed, UnavailableSection, NotApplicableSection, Section,
       NoFacts, Usable

LEMMA ProjectedStands ==
  ASSUME NEW q, Timed(q), NEW asOf \in Int, NEW known, NEW at \in Int,
         NEW bounds, bounds = {} \/ Moments(bounds), NEW facts, Costed(facts)
  PROVE  Standing(Projected(q, asOf, known, at, bounds, facts), at)
<1> DEFINE expires == Earliest({q.expires, at + EvidenceTtl} \cup bounds)
<1>1. expires \in Int
  <2>1. Moments({q.expires, at + EvidenceTtl})
    BY PairOfMoments, EvidenceAssumption DEF Timed
  <2> QED  BY <2>1, MoreMoments, EarliestIsFirst
<1>2. Standing(Section(q, "context_only", asOf, known, at, expires, facts), at)
  BY <1>1 DEF Section, Standing, Dated
<1> QED  BY <1>2, NothingStands DEF Projected

LEMMA NoCost == Costed(NoFacts)
BY DEF Costed, NoFacts

LEMMA OneMoment == \A a \in Int : Moments({a})
BY DEF Moments

LEMMA SeicheStands ==
  ASSUME NEW q, Timed(q), NEW w \in Worlds, NEW at \in Int, NEW age
  PROVE  Standing(SeicheSection(SeicheReply(w, at), q, at, age), at)
<1> DEFINE c == SeicheReply(w, at)
<1>1. c # None => c.evidence \in Int
  BY DataAssumption DEF SeicheReply, Reply, Products
<1> HIDE DEF c
<1> DEFINE facts == [NoFacts EXCEPT !.regime = c.regime]
<1>2. Costed(facts)
  BY DEF Costed, NoFacts
<1> HIDE DEF facts
<1>3. c # None => Standing(Projected(q, c.evidence, c.snapshot, at, {}, facts), at)
  BY <1>1, <1>2, ProjectedStands
<1> QED  BY <1>3, NothingStands DEF SeicheSection, facts, c

LEMMA UndertowStands ==
  ASSUME NEW q, Timed(q), NEW w \in Worlds, NEW at \in Int, NEW age, NEW p,
         NEW c \in {None, UndertowReply(w, p, at)}
  PROVE  Standing(UndertowSection(c, q, at, age), at)
<1>1. c # None => /\ c.oldest \in Int /\ c.expires \in Int
                  /\ c.cost \in Int /\ c.spread \in Int
  BY DataAssumption, EvidenceAssumption DEF UndertowReply, Reply, Products
<1> DEFINE facts == [NoFacts EXCEPT !.size = c.size, !.rung = c.rung,
                                    !.cost = c.cost, !.spread = c.spread]
<1>2. c # None => Costed(facts)
  BY <1>1 DEF Costed, NoFacts
<1>3. c # None => Standing(Projected(q, c.oldest, c.known, at, {c.expires}, facts), at)
  BY <1>1, <1>2, OneMoment, ProjectedStands
<1> QED  BY <1>3, NothingStands DEF UndertowSection

LEMMA LiquilensStands ==
  ASSUME NEW q, Timed(q), NEW w \in Worlds, NEW at \in Int,
         NEW c \in {None, LiquilensReply(w, at)}
  PROVE  Standing(LiquilensSection(c, q, at), at)
<1>1. c # None => c.periodEnd \in Int
  BY DataAssumption DEF LiquilensReply, Reply, Products
<1> QED  BY <1>1, NothingStands, ProjectedStands, NoCost DEF LiquilensSection

LEMMA FundingStands ==
  ASSUME NEW q, Timed(q), NEW w \in Worlds, NEW at \in Int
  PROVE  Standing(FundingSection(FundingReply(w, at), q, at), at)
<1> DEFINE c == FundingReply(w, at)
<1>1. c # None => c.day \in Int
  BY DataAssumption DEF FundingReply, Reply, Products
<1>2. ScopedAge["seiche"] \in Int
  BY EvidenceAssumption DEF Products
<1> HIDE DEF c
<1>3. c # None => Moments({c.day + ScopedAge["seiche"]})
  BY <1>1, <1>2, OneMoment
<1> DEFINE facts == [NoFacts EXCEPT !.regime = Regime(c.pressure)]
<1>4. Costed(facts)
  BY DEF Costed, NoFacts
<1> HIDE DEF facts
<1>5. c # None =>
        Standing(Projected(q, c.day, at, at, {c.day + ScopedAge["seiche"]}, facts), at)
  BY <1>1, <1>3, <1>4, ProjectedStands
<1> QED  BY <1>5, NothingStands DEF FundingSection, facts, c

LEMMA CorporateStands ==
  ASSUME NEW q, Timed(q), NEW w \in Worlds, NEW at \in Int
  PROVE  Standing(CorporateSection(CorporateReply(w, at), q, at), at)
<1> DEFINE c == CorporateReply(w, at)
           day == Earliest({c.spreadDay, c.rolloverDay})
<1>1. c # None => c.spreadDay \in Int /\ c.rolloverDay \in Int
  BY DataAssumption DEF CorporateReply, Reply, Products
<1>2. ScopedAge["liquilens"] \in Int
  BY EvidenceAssumption DEF Products
<1> HIDE DEF c
<1>3. c # None => day \in Int
  BY <1>1, PairOfMoments, EarliestIsFirst
<1> HIDE DEF day
<1>4. c # None => Moments({day + ScopedAge["liquilens"]})
  BY <1>2, <1>3, OneMoment
<1>5. c # None => Standing(Projected(q, day, at, at, {day + ScopedAge["liquilens"]}, NoFacts), at)
  BY <1>3, <1>4, ProjectedStands, NoCost
<1> QED  BY <1>5, NothingStands DEF CorporateSection, day, c

\* The sale that is priced has the clocks of the order it is priced for.
LEMMA ExitStands ==
  ASSUME NEW q, Timed(q), NEW w \in Worlds, NEW at \in Int
  PROVE  Standing(ExitSection(UndertowReply(w, Scenario(q), at), q, at), at)
<1> DEFINE s == UndertowSection(UndertowReply(w, Scenario(q), at), Scenario(q), at,
                                ScopedAge["undertow"])
<1>1. Timed(Scenario(q))
  BY DEF Timed, Scenario
<1>2. Standing(s, at)
  BY <1>1, UndertowStands
<1>3. [s EXCEPT !.of = q].state = s.state /\ [s EXCEPT !.of = q].asOf = s.asOf
      /\ [s EXCEPT !.of = q].expires = s.expires /\ [s EXCEPT !.of = q].facts = s.facts
      /\ [s EXCEPT !.of = q].retrieved = s.retrieved
  BY DEF UndertowSection, Projected, UnavailableSection, Section
<1> HIDE DEF s
<1>4. Standing([s EXCEPT !.of = q], at)
  BY <1>2, <1>3 DEF Standing, Dated
<1> QED  BY <1>4, NothingStands DEF ExitSection, s

(***************************************************************************)
(* Receipts: issued by the gateway, anew by the operator, by the profile.   *)
(***************************************************************************)
Kept(r) ==
  /\ Parts(r.request, r.evidence, r.preview, r.policy)
  /\ r.policy.required \subseteq Products
  /\ r.evaluated \in Int /\ r.expires \in Int /\ r.evaluated < r.expires
  /\ r.expires <= r.request.expires
  /\ r.outcome # "unavailable" => Covers(r.expires, r.evidence, r.policy)

\* Signing did not lengthen what the gateway gave.
NotRenewed(r) ==
  /\ r.evidence["seiche"].retrieved \in Int
  /\ r.expires <= r.evidence["seiche"].retrieved + ReceiptTtl

\* What makes r a receipt of these parts.
Made(r, q, ev, v, pol, at, issuer, ttl) ==
  \E keyed \in BOOLEAN : /\ r = Receipt(q, ev, v, pol, at, issuer, ttl, keyed)
                        /\ Issuable(q, ev, v, pol, at, issuer, ttl, keyed)

LEMMA ReceiptIsKept ==
  ASSUME NEW q, NEW ev, NEW v, NEW pol, NEW at \in Int, NEW issuer, NEW ttl \in Int, NEW r,
         Parts(q, ev, v, pol), Made(r, q, ev, v, pol, at, issuer, ttl)
  PROVE  /\ Kept(r)
         /\ r.request = q /\ r.evidence = ev /\ r.issuer = issuer
         /\ r.expires <= at + ttl
<1>0. PICK keyed \in BOOLEAN : /\ r = Receipt(q, ev, v, pol, at, issuer, ttl, keyed)
                              /\ Issuable(q, ev, v, pol, at, issuer, ttl, keyed)
  BY DEF Made
<1> DEFINE outcome == Outcome(q, ev, v, pol, at, keyed)
<1>1. /\ r.request = q /\ r.evidence = ev /\ r.preview = v /\ r.policy = pol
      /\ r.evaluated = at /\ r.issuer = issuer /\ r.outcome = outcome
      /\ r.expires = Ceiling(q, ev, v, pol, at, ttl, outcome)
  BY <1>0 DEF Receipt
<1>2. pol.required \subseteq Products
  BY <1>0 DEF Issuable, ValidPolicy
<1> HIDE DEF outcome
<1>3. /\ r.expires \in Int /\ r.expires <= q.expires /\ r.expires <= at + ttl
      /\ outcome # "unavailable" => Covers(r.expires, ev, pol)
  BY <1>1, <1>2, CeilingIsLow
<1>4. at < r.expires
  BY <1>0 DEF Issuable
<1>5. Kept(r)
  BY <1>1, <1>2, <1>3, <1>4 DEF Kept
<1> QED  BY <1>1, <1>3, <1>5

LEMMA AssessmentIsKept ==
  ASSUME NEW w \in Worlds, NEW q, Timed(q), NEW pol, Graded(pol), NEW at \in Int,
         Assessment(w, q, pol, at) # None
  PROVE  LET r == Assessment(w, q, pol, at) IN
         Kept(r) /\ NotRenewed(r) /\ r.issuer = "gateway"
<1> DEFINE seiche == SeicheReply(w, at)
           undertow == IF Priceable(q) THEN UndertowReply(w, q, at) ELSE None
           liquilens == IF q.slug THEN LiquilensReply(w, at) ELSE None
           ev == Gathered(q, pol, at, seiche, undertow, liquilens)
           v == NoPreview(q, at)
           r == Receipt(q, ev, v, pol, at, "gateway", ReceiptTtl, FALSE)
<1>1. /\ DOMAIN ev = Products
      /\ ev["seiche"] = SeicheSection(seiche, q, at, pol.maxAge["seiche"])
      /\ ev["undertow"] = UndertowSection(undertow, q, at, pol.maxAge["undertow"])
      /\ ev["liquilens"] \in {LiquilensSection(liquilens, q, at), NotApplicableSection(q, at)}
  BY DEF Gathered, Products
<1>2. v.state = "not_applicable"
  BY DEF NoPreview
<1>3. Assessment(w, q, pol, at) = r /\ Issuable(q, ev, v, pol, at, "gateway", ReceiptTtl, FALSE)
  BY DEF Assessment, Assessed
<1>4. undertow \in {None, UndertowReply(w, q, at)} /\ liquilens \in {None, LiquilensReply(w, at)}
  OBVIOUS
<1> HIDE DEF ev, v, undertow, liquilens
<1>5. \A p \in Products : Standing(ev[p], at)
  <2>1. Standing(ev["seiche"], at)
    BY <1>1, SeicheStands
  <2>2. Standing(ev["undertow"], at)
    BY <1>1, <1>4, UndertowStands
  <2>3. Standing(ev["liquilens"], at)
    BY <1>1, <1>4, LiquilensStands, NothingStands
  <2> QED  BY <2>1, <2>2, <2>3 DEF Products
<1>6. Parts(q, ev, v, pol)
  BY <1>1, <1>2, <1>5 DEF Parts, Standing, Products
<1>7. ReceiptTtl \in Int
  BY FlowAssumption
<1>8. Made(r, q, ev, v, pol, at, "gateway", ReceiptTtl)
  BY <1>3 DEF Made
<1> HIDE DEF r
<1>9. Kept(r) /\ r.evidence = ev /\ r.issuer = "gateway" /\ r.expires <= at + ReceiptTtl
  BY <1>6, <1>7, <1>8, ReceiptIsKept
<1>10. ev["seiche"].retrieved = at
  BY <1>5 DEF Standing, Products
<1> QED  BY <1>3, <1>9, <1>10 DEF NotRenewed

LEMMA ResignedIsKept ==
  ASSUME NEW r, Kept(r), NotRenewed(r), NEW extra, extra # None => Dated(extra),
         NEW at \in Int, Resigned(r, extra, at) # None
  PROVE  LET s == Resigned(r, extra, at) IN Kept(s) /\ NotRenewed(s)
<1> DEFINE ev == IF extra = None THEN r.evidence ELSE [r.evidence EXCEPT !["liquilens"] = extra]
           ttl == Remaining(r, at)
           s == Receipt(r.request, ev, r.preview, r.policy, at, "operator", ttl, TRUE)
<1>1. /\ Resigned(r, extra, at) = s
      /\ Issuable(r.request, ev, r.preview, r.policy, at, "operator", ttl, TRUE)
  BY DEF Resigned
<1>2. /\ DOMAIN ev = Products
      /\ ev["seiche"] = r.evidence["seiche"] /\ ev["undertow"] = r.evidence["undertow"]
      /\ ev["liquilens"] \in {r.evidence["liquilens"]} \cup ({extra} \ {None})
  BY DEF Kept, Parts, Products
<1>3. ttl \in Int /\ at + ttl <= r.expires
  BY FlowAssumption DEF Remaining, Smaller, Kept
<1> HIDE DEF ev, ttl
<1>4. Parts(r.request, ev, r.preview, r.policy)
  <2>1. \A p \in Products : Dated(ev[p])
    BY <1>2 DEF Kept, Parts, Products
  <2> QED  BY <1>2, <2>1 DEF Kept, Parts
<1>5. Made(s, r.request, ev, r.preview, r.policy, at, "operator", ttl)
  BY <1>1 DEF Made
<1> HIDE DEF s
<1>6. Kept(s) /\ s.evidence = ev /\ s.expires <= at + ttl
  BY <1>3, <1>4, <1>5, ReceiptIsKept
<1>7. s.expires <= r.expires /\ s.expires \in Int /\ r.expires \in Int
  BY <1>3, <1>6 DEF Kept
<1>8. NotRenewed(s)
  BY <1>2, <1>6, <1>7, FlowAssumption DEF NotRenewed
<1> QED  BY <1>1, <1>6, <1>8

LEMMA ScopedIsKept ==
  ASSUME NEW w \in Worlds, NEW q, Timed(q), NEW pol, Graded(pol), NEW at \in Int, NEW later,
         NEW r, r # None,
         r = Scoped(q, pol, at, later, FundingReply(w, at), UndertowReply(w, Scenario(q), at),
                    CorporateReply(w, at))
  PROVE  Kept(r) /\ (r.outcome = "pass" => r.request.usd)
<1> DEFINE ev == [p \in Products |->
               CASE p = "seiche"    -> FundingSection(FundingReply(w, at), q, at)
                 [] p = "undertow"  -> ExitSection(UndertowReply(w, Scenario(q), at), q, at)
                 [] p = "liquilens" -> CorporateSection(CorporateReply(w, at), q, at)]
           v == NoPreview(q, at)
<1>1. /\ r = Receipt(q, ev, v, pol, at, "operator", ScopedTtl, TRUE)
      /\ Issuable(q, ev, v, pol, at, "operator", ScopedTtl, TRUE)
      /\ r.outcome = "pass" => ScopedReceipt(r, later, Binding)
  BY DEF Scoped
<1>2. /\ DOMAIN ev = Products
      /\ ev["seiche"] = FundingSection(FundingReply(w, at), q, at)
      /\ ev["undertow"] = ExitSection(UndertowReply(w, Scenario(q), at), q, at)
      /\ ev["liquilens"] = CorporateSection(CorporateReply(w, at), q, at)
  BY DEF Products
<1>3. v.state = "not_applicable"
  BY DEF NoPreview
<1> HIDE DEF ev, v
<1>4. /\ Standing(ev["seiche"], at) /\ Standing(ev["undertow"], at)
      /\ Standing(ev["liquilens"], at)
  BY <1>2, FundingStands, ExitStands, CorporateStands
<1>5. Parts(q, ev, v, pol)
  BY <1>2, <1>3, <1>4 DEF Parts, Standing, Products
<1>6. Made(r, q, ev, v, pol, at, "operator", ScopedTtl)
  BY <1>1 DEF Made
<1>7. Kept(r)
  BY <1>5, <1>6, FlowAssumption, ReceiptIsKept
<1> QED  BY <1>1, <1>7, ReceiptIsKept DEF ScopedReceipt, ScopedOrder

(***************************************************************************)
(* The inductive invariant.                                                 *)
(***************************************************************************)
JobOK(j) ==
  /\ DOMAIN j = {"at", "request", "policy", "since", "source", "extra"}
  /\ j.at # "free" => Timed(j.request) /\ Graded(j.policy)
  /\ j.source # None => Kept(j.source) /\ NotRenewed(j.source)
  /\ j.extra # None => Dated(j.extra)

JobInv == job = [c \in Callers |-> job[c]] /\ \A c \in Callers : JobOK(job[c])

\* An operator's receipt is from one of the operator's two issuers.
IssuedBy(r) ==
  r.issuer = "operator" =>
    /\ profile \in {"native", "scoped"}
    /\ profile = "native" => NotRenewed(r)
    /\ profile = "scoped" /\ r.outcome = "pass" => r.request.usd

ReceiptsInv == \A r \in receipts : Kept(r) /\ IssuedBy(r)

\* What verification has found, and no clock can change.
Cleared(r) ==
  LET ev == r.evidence  f == r.evidence["undertow"].facts  pol == Binding.policy IN
  /\ r.request.mode = "paper" /\ r.request.account = Binding.account
  /\ r.policy = pol /\ r.issuer = "operator"
  /\ r.expires \in Int /\ r.request.expires \in Int /\ r.expires <= r.request.expires
  /\ pol.maxAge \in [Products -> Int]
  /\ \A p \in pol.required :
       /\ p \in Products
       /\ ev[p].of = r.request /\ ev[p].state \in Usable
       /\ ev[p].expires \in Int /\ ev[p].asOf \in Int
       /\ r.expires <= ev[p].expires /\ r.expires <= ev[p].asOf + pol.maxAge[p]
  /\ ev["seiche"].facts.regime \notin pol.hold
  /\ f.size = r.request.notional
  /\ pol.maxNotional # None => r.request.notional <= pol.maxNotional
  /\ pol.maxCost # None => f.cost <= pol.maxCost
  /\ pol.maxSpread # None => f.spread <= pol.maxSpread
  /\ profile = "native" => NotRenewed(r)

ClaimOK(k) ==
  /\ DOMAIN k = {"at", "receipt", "clock"}
  /\ k.at # "idle" => k.receipt \in receipts /\ Cleared(k.receipt)
  /\ k.at = "claiming" => k.clock \in Int

ClaimInv == claim = [t \in Threads |-> claim[t]] /\ \A t \in Threads : ClaimOK(claim[t])

\* The consumer remembers a receipt it let through, or its clock is past it.
Spent(r) ==
  \/ r \in consumer.used
  \/ consumer.last # None /\ r.expires <= consumer.last

Let(r, at) == Cleared(r) /\ at \in Int /\ at < r.expires /\ Spent(r)

OrdersInv ==
  /\ orders \in Seq([receipt : receipts, at : Int])
  /\ consumer.last \in Int \cup {None}
  /\ \A i \in DOMAIN orders : Let(orders[i].receipt, orders[i].at)
  /\ ReceiptUsedOnce

ClockInv == now \in Int /\ slips \in Int /\ profile \in Profiles

IInv == ClockInv /\ JobInv /\ ReceiptsInv /\ ClaimInv /\ OrdersInv

LEMMA WallIsInt == ClockInv => Wall \in Int
BY DEF ClockInv, Wall

LEMMA Initially == Init => IInv
<1> SUFFICES ASSUME Init PROVE IInv
  OBVIOUS
<1> USE DEF Init
<1>1. ClockInv
  BY FlowAssumption DEF ClockInv
<1>2. JobInv
  BY DEF JobInv, JobOK, Free
<1>3. ReceiptsInv
  BY DEF ReceiptsInv
<1>4. ClaimInv
  BY DEF ClaimInv, ClaimOK, Idle
<1>5. OrdersInv
  <2>1. orders = << >> /\ DOMAIN orders = {}
    OBVIOUS
  <2>2. << >> \in Seq([receipt : receipts, at : Int])
    OBVIOUS
  <2>3. consumer.last = None
    OBVIOUS
  <2> QED  BY <2>1, <2>2, <2>3 DEF OrdersInv, ReceiptUsedOnce
<1> QED  BY <1>1, <1>2, <1>3, <1>4, <1>5 DEF IInv

(***************************************************************************)
(* What the assessments do leaves the order gateway alone, and the other    *)
(* way about.                                                               *)
(***************************************************************************)
LEMMA GatewayKept ==
  ASSUME ClaimInv, OrdersInv, profile' = profile, receipts \subseteq receipts',
         UNCHANGED <<claim, consumer, orders>>
  PROVE  ClaimInv' /\ OrdersInv'
<1>1. \A r : Cleared(r) => Cleared(r)'
  BY DEF Cleared, Binding, NotRenewed
<1>2. ClaimInv'
  BY <1>1 DEF ClaimInv, ClaimOK
<1>3. [receipt : receipts, at : Int] \subseteq [receipt : receipts', at : Int]
  OBVIOUS
<1>4. orders' \in Seq([receipt : receipts', at : Int])
  BY <1>3, SeqMonotonic DEF OrdersInv
<1>5. \A r, at : Let(r, at) => Let(r, at)'
  BY <1>1 DEF Let, Spent
<1>6. OrdersInv'
  BY <1>4, <1>5 DEF OrdersInv, ReceiptUsedOnce
<1> QED  BY <1>2, <1>6

LEMMA IssuersKept ==
  ASSUME JobInv, ReceiptsInv, profile' = profile, UNCHANGED <<job, receipts>>
  PROVE  JobInv' /\ ReceiptsInv'
BY DEF JobInv, JobOK, ReceiptsInv, IssuedBy, Kept, NotRenewed

LEMMA OneJob ==
  ASSUME JobInv, NEW c \in Callers, NEW j, JobOK(j), job' = [job EXCEPT ![c] = j]
  PROVE  JobInv'
<1>1. \A d \in Callers : job'[d] = IF d = c THEN j ELSE job[d]
  BY DEF JobInv
<1>2. job' = [d \in Callers |-> job'[d]]
  BY DEF JobInv
<1>3. \A d \in Callers : JobOK(job'[d])
  BY <1>1 DEF JobInv
<1> QED  BY <1>2, <1>3 DEF JobInv

LEMMA FreeIsOK == JobOK(Free)
BY DEF JobOK, Free

LEMMA OneReceipt ==
  ASSUME ReceiptsInv, profile' = profile, NEW r, HandOut(r),
         r # None => Kept(r) /\ IssuedBy(r)
  PROVE  ReceiptsInv' /\ receipts \subseteq receipts'
BY DEF ReceiptsInv, HandOut, IssuedBy

(***************************************************************************)
(* The order gateway.                                                       *)
(***************************************************************************)
LEMMA BindingIsGraded == ClockInv => Graded(Binding.policy)
BY DataAssumption DEF ClockInv, Binding, Graded

LEMMA AuthorizedIsCleared ==
  ASSUME ClockInv, NEW r, Kept(r), IssuedBy(r), NEW q, NEW at, Authorizes(r, q, at)
  PROVE  Cleared(r)
<1> DEFINE ev == r.evidence
           f == r.evidence["undertow"].facts
           pol == r.policy
<1>1. /\ r.request.mode = "paper" /\ r.request.account = Binding.account
      /\ pol = Binding.policy /\ r.issuer = "operator"
      /\ r.outcome = "pass"
  BY DEF Authorizes, InLane
<1>2. /\ ValidPolicy(pol) /\ ValidEvidence(ev) /\ Bound(r.request, ev, r.preview, pol)
      /\ r.outcome = Outcome(r.request, ev, r.preview, pol, r.evaluated, r.keyed)
  BY DEF Authorizes, Verifies
<1>3. /\ ~Unavailable(r.request, ev, r.preview, pol, r.evaluated, r.keyed)
      /\ ~Held(ev, pol)
      /\ ~Exceeded(r.request, f, pol)
  BY <1>1, <1>2 DEF Outcome
<1>4. /\ Timed(r.request) /\ Graded(pol) /\ Costed(f)
      /\ \A p \in Products : Dated(ev[p])
      /\ pol.required \subseteq Products
      /\ r.expires \in Int /\ r.expires <= r.request.expires
      /\ Covers(r.expires, ev, pol)
  BY <1>1 DEF Kept, Parts
<1>5. \A p \in pol.required :
        /\ p \in Products
        /\ ev[p].of = r.request /\ ev[p].state \in Usable
        /\ ev[p].expires \in Int /\ ev[p].asOf \in Int
        /\ r.expires <= ev[p].expires /\ r.expires <= ev[p].asOf + pol.maxAge[p]
  <2> SUFFICES ASSUME NEW p \in pol.required
               PROVE  /\ p \in Products
                      /\ ev[p].of = r.request /\ ev[p].state \in Usable
                      /\ ev[p].expires \in Int /\ ev[p].asOf \in Int
                      /\ r.expires <= ev[p].expires
                      /\ r.expires <= ev[p].asOf + pol.maxAge[p]
    OBVIOUS
  <2>1. p \in Products /\ ev[p].of = r.request
    BY <1>2, <1>4 DEF Bound
  <2>2. ev[p].state \in Usable
    BY <1>3 DEF Unavailable, Unreliable
  <2> QED  BY <1>4, <2>1, <2>2 DEF Dated, Covers
<1>6. r.request.usd
  <2>1. CASE profile = "scoped"
    BY <1>1, <2>1 DEF IssuedBy
  <2>2. CASE profile = "native"
    <3>1. Limits(pol) # {}
      BY <1>1, <2>2, OwnPolicyAssumption DEF Binding, Admits, Within, Limits
    <3> QED  BY <1>3, <3>1 DEF Unavailable, Unpriced
  <2> QED  BY <1>1, <2>1, <2>2 DEF IssuedBy
<1>7. None \notin {f.size, f.rung, f.cost, f.spread}
  <2>1. "undertow" \in pol.required
    BY <1>2 DEF ValidPolicy, Indispensable
  <2> QED  BY <1>2, <1>5, <2>1 DEF ValidEvidence, ValidSection
<1>8. f.size = r.request.notional
  BY <1>3, <1>6, <1>7 DEF Unavailable, Unpriced
<1>9. /\ pol.maxNotional # None => r.request.notional <= pol.maxNotional
      /\ pol.maxCost # None => f.cost <= pol.maxCost
      /\ pol.maxSpread # None => f.spread <= pol.maxSpread
  BY <1>3, <1>4, <1>6, <1>7 DEF Exceeded, Timed, Graded, Costed, Limits
<1>10. ev["seiche"].facts.regime \notin pol.hold
  BY <1>3 DEF Held
<1>11. profile = "native" => NotRenewed(r)
  BY <1>1 DEF IssuedBy
<1> QED  BY <1>1, <1>4, <1>5, <1>8, <1>9, <1>10, <1>11 DEF Cleared, Timed, Graded

LEMMA OneClaim ==
  ASSUME ClaimInv, profile' = profile, UNCHANGED receipts,
         NEW t \in Threads, NEW k, ClaimOK(k), claim' = [claim EXCEPT ![t] = k]
  PROVE  ClaimInv'
<1>1. \A u \in Threads : claim'[u] = IF u = t THEN k ELSE claim[u]
  BY DEF ClaimInv
<1>2. claim' = [u \in Threads |-> claim'[u]]
  BY DEF ClaimInv
<1>3. \A x : ClaimOK(x) => ClaimOK(x)'
  BY DEF ClaimOK, Cleared, Binding, NotRenewed
<1>4. \A u \in Threads : ClaimOK(claim[u])
  BY DEF ClaimInv
<1>5. \A u \in Threads : ClaimOK(claim'[u])
  BY <1>1, <1>4
<1>6. \A u \in Threads : ClaimOK(claim[u])'
  BY <1>3, <1>5
<1> QED  BY <1>2, <1>6 DEF ClaimInv

LEMMA IdleIsOK == ClaimOK(Idle)
BY DEF ClaimOK, Idle

LEMMA OrdersKept ==
  ASSUME OrdersInv, profile' = profile, UNCHANGED <<receipts, consumer, orders>>
  PROVE  OrdersInv'
BY DEF OrdersInv, Let, Spent, Cleared, Binding, NotRenewed, ReceiptUsedOnce

LEMMA VerifyKeeps ==
  ASSUME IInv, NEW t \in Threads, Verify(t)
  PROVE  ClaimInv' /\ OrdersInv'
<1>0. PICK r \in receipts : \E q \in Proposals(r) :
        /\ Authorizes(r, q, Wall)
        /\ claim' = [claim EXCEPT ![t] = [@ EXCEPT !.at = "verified", !.receipt = r]]
  BY DEF Verify
<1>1. PICK q \in Proposals(r) :
        /\ Authorizes(r, q, Wall)
        /\ claim' = [claim EXCEPT ![t] = [@ EXCEPT !.at = "verified", !.receipt = r]]
  BY <1>0
<1>2. Cleared(r)
  BY <1>1, AuthorizedIsCleared DEF IInv, ReceiptsInv
<1> DEFINE k == [claim[t] EXCEPT !.at = "verified", !.receipt = r]
<1>3. DOMAIN claim[t] = {"at", "receipt", "clock"}
  BY DEF IInv, ClaimInv, ClaimOK
<1>4. /\ DOMAIN k = {"at", "receipt", "clock"}
      /\ k.at = "verified" /\ k.receipt = r
  BY <1>3
<1>5. claim' = [claim EXCEPT ![t] = k]
  BY <1>1
<1> HIDE DEF k
<1>6. ClaimOK(k)
  BY <1>2, <1>4 DEF ClaimOK
<1> QED  BY <1>5, <1>6, OneClaim, OrdersKept DEF IInv, Verify

LEMMA ReadClockKeeps ==
  ASSUME IInv, NEW t \in Threads, ReadClock(t)
  PROVE  ClaimInv' /\ OrdersInv'
<1> DEFINE k == [claim[t] EXCEPT !.at = "claiming", !.clock = Wall]
<1>1. ClaimOK(claim[t]) /\ claim[t].at = "verified"
  BY DEF IInv, ClaimInv, ReadClock
<1>2. /\ DOMAIN k = {"at", "receipt", "clock"}
      /\ k.at = "claiming" /\ k.receipt = claim[t].receipt /\ k.clock = Wall
  BY <1>1 DEF ClaimOK
<1>3. claim' = [claim EXCEPT ![t] = k]
  BY DEF ReadClock
<1> HIDE DEF k
<1>4. ClaimOK(k)
  BY <1>1, <1>2, WallIsInt DEF ClaimOK, IInv
<1> QED  BY <1>3, <1>4, OneClaim, OrdersKept DEF IInv, ReadClock

LEMMA RefuseKeeps ==
  ASSUME IInv, NEW t \in Threads, Refuse(t)
  PROVE  ClaimInv' /\ OrdersInv'
BY IdleIsOK, OneClaim, OrdersKept DEF IInv, Refuse

LEMMA ConsumeKeeps ==
  ASSUME IInv, NEW t \in Threads, Consume(t)
  PROVE  ClaimInv' /\ OrdersInv'
<1>0. PICK r, clock : r = claim[t].receipt /\ clock = claim[t].clock
  OBVIOUS
<1> DEFINE S == [receipt : receipts, at : Int]
<1>1. ClaimInv'
  BY IdleIsOK, OneClaim DEF IInv, Consume
<1>2. /\ clock \in Int /\ r \in receipts /\ Cleared(r)
      /\ claim[t].at = "claiming" /\ ~Regressed(clock)
  BY <1>0 DEF IInv, ClaimInv, ClaimOK, Consume
<1>3. /\ orders \in Seq(S) /\ consumer.last \in Int \cup {None} /\ receipts' = receipts
      /\ \A i \in DOMAIN orders : Let(orders[i].receipt, orders[i].at)
      /\ ReceiptUsedOnce /\ profile' = profile
  BY DEF IInv, OrdersInv, Consume
<1>4. consumer.last # None => consumer.last <= clock
  BY <1>2, <1>3 DEF Regressed
<1>5. consumer'.last = clock /\ Remembered(clock) \subseteq consumer'.used
  BY <1>0 DEF Consume
<1>6. \A x : Cleared(x) => Cleared(x)'
  BY <1>3 DEF Cleared, Binding, NotRenewed
<1>7. \A x : Cleared(x) /\ Spent(x) => Spent(x)'
  <2> SUFFICES ASSUME NEW x, Cleared(x), Spent(x) PROVE Spent(x)'
    OBVIOUS
  <2>0. x.expires \in Int /\ clock # None
    BY <1>2, TtlAssumption DEF Cleared
  <2>1. CASE x \in consumer.used
    <3>1. x \in Remembered(clock) \/ x.expires <= clock
      BY <1>2, <2>0, <2>1 DEF Remembered
    <3> QED  BY <1>5, <2>0, <3>1 DEF Spent
  <2>2. CASE consumer.last # None /\ x.expires <= consumer.last
    <3>1. x.expires <= clock
      BY <1>2, <1>3, <1>4, <2>0, <2>2
    <3> QED  BY <1>5, <2>0, <3>1 DEF Spent
  <2> QED  BY <2>1, <2>2 DEF Spent
<1>8. \A x, at : Let(x, at) => Let(x, at)'
  BY <1>6, <1>7 DEF Let
<1>9. CASE ~Claimable(r, clock)
  <2>1. orders' = orders
    BY <1>0, <1>9 DEF Consume
  <2> QED  BY <1>1, <1>2, <1>3, <1>5, <1>8, <2>1 DEF OrdersInv, ReceiptUsedOnce
<1>10. CASE Claimable(r, clock)
  <2> DEFINE e == [receipt |-> r, at |-> clock]
             n == Len(orders) + 1
  <2>1. /\ orders' = Append(orders, e)
        /\ consumer'.used = Remembered(clock) \cup {r}
    BY <1>0, <1>10 DEF Consume
  <2>2. e \in S
    BY <1>2
  <2>3. Let(r, clock)'
    BY <1>2, <1>6, <1>10, <2>1 DEF Let, Spent, Claimable
  <2>4. \A i \in DOMAIN orders : orders[i].receipt # r
    <3> SUFFICES ASSUME NEW i \in DOMAIN orders, orders[i].receipt = r PROVE FALSE
      OBVIOUS
    <3>1. Let(r, orders[i].at)
      BY <1>3
    <3>2. r.expires \in Int /\ clock < r.expires /\ r \notin Remembered(clock)
      BY <1>2, <1>10 DEF Cleared, Claimable
    <3>3. r \notin consumer.used
      BY <1>2, <3>2 DEF Remembered
    <3>4. consumer.last # None /\ r.expires <= consumer.last
      BY <3>1, <3>3 DEF Let, Spent
    <3> QED  BY <1>2, <1>3, <1>4, <3>2, <3>4
  <2>5. /\ orders' \in Seq(S) /\ DOMAIN orders = 1..Len(orders) /\ DOMAIN orders' = 1..n
        /\ Len(orders) \in Nat
        /\ \A i \in DOMAIN orders : orders'[i] = orders[i]
        /\ orders'[n] = e
    <3> HIDE DEF S, e
    <3> QED  BY <1>3, <2>1, <2>2, AppendProperties
  <2>6. \A i \in DOMAIN orders' : i \in DOMAIN orders \/ i = n
    BY <2>5
  <2>7. \A i \in DOMAIN orders' : Let(orders[i].receipt, orders[i].at)'
    BY <1>3, <1>8, <2>3, <2>5, <2>6
  <2>8. ReceiptUsedOnce'
    BY <1>3, <2>4, <2>5, <2>6 DEF ReceiptUsedOnce
  <2>9. (consumer.last)' \in Int \cup {None}
    BY <1>2, <1>5
  <2> QED  BY <1>1, <1>3, <2>5, <2>7, <2>8, <2>9 DEF OrdersInv
<1> QED  BY <1>9, <1>10

(***************************************************************************)
(* The issuers.                                                             *)
(***************************************************************************)
IssuersOK == JobInv' /\ ReceiptsInv' /\ receipts \subseteq receipts'

LEMMA ReceiptsKept ==
  ASSUME ReceiptsInv, profile' = profile, UNCHANGED receipts
  PROVE  ReceiptsInv' /\ receipts \subseteq receipts'
BY DEF ReceiptsInv, IssuedBy

LEMMA RequestIsTimed ==
  ASSUME ClockInv, NEW shape \in Shapes
  PROVE  Timed([shape EXCEPT !.created = Wall, !.expires = Wall + RequestTtl])
<1>1. Wall + RequestTtl \in Int
  BY WallIsInt, FlowAssumption
<1>2. {"created", "expires", "notional"} \subseteq DOMAIN shape /\ shape.notional \in Int
  BY DataAssumption
<1> DEFINE q == [shape EXCEPT !.created = Wall, !.expires = Wall + RequestTtl]
<1>3. DOMAIN q = DOMAIN shape /\ q.expires = Wall + RequestTtl /\ q.notional = shape.notional
  BY <1>2
<1> HIDE DEF q
<1>4. Timed(q)
  BY <1>1, <1>2, <1>3 DEF Timed
<1> QED  BY <1>4 DEF q

LEMMA BegunIsOK ==
  ASSUME NEW q, Timed(q), NEW pol, Graded(pol), NEW at, NEW since, NEW j,
         j = [Free EXCEPT !.at = at, !.request = q, !.policy = pol, !.since = since]
  PROVE  JobOK(j)
<1>1. /\ DOMAIN j = {"at", "request", "policy", "since", "source", "extra"}
      /\ j.request = q /\ j.policy = pol /\ j.source = None /\ j.extra = None
  BY DEF Free
<1> QED  BY <1>1 DEF JobOK

LEMMA ArriveKeeps ==
  ASSUME IInv, NEW c \in Visitors, Arrive(c)
  PROVE  IssuersOK
<1>1. ReceiptsInv' /\ receipts \subseteq receipts'
  BY ReceiptsKept DEF IInv, Arrive
<1>2. PICK shape \in Shapes, pol \in Policies :
        \/ UNCHANGED job
        \/ job' = [job EXCEPT ![c] = [Free EXCEPT !.at = "inside",
                     !.request = [shape EXCEPT !.created = Wall, !.expires = Wall + RequestTtl],
                     !.policy = pol, !.since = now]]
  BY DEF Arrive
<1>3. CASE UNCHANGED job
  BY <1>1, <1>3 DEF IssuersOK, IInv, JobInv
<1>4. CASE ~UNCHANGED job
  <2> DEFINE q == [shape EXCEPT !.created = Wall, !.expires = Wall + RequestTtl]
             j == [Free EXCEPT !.at = "inside", !.request = q, !.policy = pol, !.since = now]
  <2>1. Timed(q)
    BY RequestIsTimed DEF IInv
  <2>2. Graded(pol)
    BY DataAssumption DEF Graded
  <2>3. job' = [job EXCEPT ![c] = j] /\ c \in Callers
    BY <1>2, <1>4 DEF Callers
  <2> HIDE DEF q
  <2>4. JobOK(j)
    BY <2>1, <2>2, BegunIsOK
  <2> HIDE DEF j
  <2> QED  BY <1>1, <2>3, <2>4, OneJob DEF IInv, IssuersOK
<1> QED  BY <1>3, <1>4

LEMMA BeginKeeps ==
  ASSUME IInv, NEW c \in Visitors, Begin(c)
  PROVE  IssuersOK
<1>1. ReceiptsInv' /\ receipts \subseteq receipts'
  BY ReceiptsKept DEF IInv, Begin
<1> DEFINE j == [job[c] EXCEPT !.at = "fetching"]
<1>2. c \in Callers /\ JobOK(job[c]) /\ job[c].at = "inside"
  BY DEF IInv, JobInv, Begin, Callers
<1>3. /\ DOMAIN j = {"at", "request", "policy", "since", "source", "extra"}
      /\ j.request = job[c].request /\ j.policy = job[c].policy
      /\ j.source = job[c].source /\ j.extra = job[c].extra
  BY <1>2 DEF JobOK
<1>4. job' = [job EXCEPT ![c] = j]
  BY DEF Begin
<1> HIDE DEF j
<1>5. JobOK(j)
  BY <1>2, <1>3 DEF JobOK
<1> QED  BY <1>1, <1>2, <1>4, <1>5, OneJob DEF IInv, IssuersOK

LEMMA EndKeeps ==
  ASSUME IInv, NEW c \in Callers, TurnAway(c) \/ TimeOut(c)
  PROVE  IssuersOK
<1>1. ReceiptsInv' /\ receipts \subseteq receipts'
  BY ReceiptsKept DEF IInv, TurnAway, TimeOut
<1>2. job' = [job EXCEPT ![c] = Free]
  BY DEF TurnAway, TimeOut, Leave
<1> QED  BY <1>1, <1>2, FreeIsOK, OneJob DEF IInv, IssuersOK

LEMMA AnswerKeeps ==
  ASSUME IInv, NEW c \in Visitors, Answer(c)
  PROVE  IssuersOK
<1>1. c \in Callers /\ JobOK(job[c]) /\ job[c].at = "fetching"
  BY DEF IInv, JobInv, Answer, Callers
<1>2. PICK w \in Worlds : HandOut(Assessment(w, job[c].request, job[c].policy, Wall))
  BY DEF Answer
<1> DEFINE r == Assessment(w, job[c].request, job[c].policy, Wall)
<1>3. r # None => Kept(r) /\ r.issuer = "gateway"
  <2>1. Wall \in Int /\ Timed(job[c].request) /\ Graded(job[c].policy)
    BY <1>1, WallIsInt DEF IInv, JobOK
  <2> QED  BY <2>1, AssessmentIsKept
<1>4. PICK x : x = r
  OBVIOUS
<1>5. ReceiptsInv' /\ receipts \subseteq receipts'
  <2> HIDE DEF r
  <2>1. x # None => Kept(x) /\ IssuedBy(x)
    BY <1>3, <1>4 DEF IssuedBy
  <2>2. HandOut(x)
    BY <1>2, <1>4 DEF r
  <2> QED  BY <2>1, <2>2, OneReceipt DEF IInv, Answer
<1>6. job' = [job EXCEPT ![c] = Free]
  BY DEF Answer, Leave
<1> QED  BY <1>1, <1>5, <1>6, FreeIsOK, OneJob DEF IInv, IssuersOK

LEMMA AskKeeps ==
  ASSUME IInv, NEW c \in Signers, Ask(c)
  PROVE  IssuersOK
<1>1. ReceiptsInv' /\ receipts \subseteq receipts'
  BY ReceiptsKept DEF IInv, Ask
<1>2. PICK shape \in Shapes :
        job' = [job EXCEPT ![c] = [Free EXCEPT !.at = "fetching",
                  !.request = [shape EXCEPT !.created = Wall, !.expires = Wall + RequestTtl],
                  !.policy = Binding.policy, !.since = now]]
  BY DEF Ask
<1> DEFINE q == [shape EXCEPT !.created = Wall, !.expires = Wall + RequestTtl]
           j == [Free EXCEPT !.at = "fetching", !.request = q, !.policy = Binding.policy,
                             !.since = now]
<1>3. Timed(q) /\ Graded(Binding.policy)
  BY RequestIsTimed, BindingIsGraded DEF IInv
<1>4. job' = [job EXCEPT ![c] = j] /\ c \in Callers
  BY <1>2 DEF Callers
<1> HIDE DEF q
<1>5. JobOK(j)
  BY <1>3, BegunIsOK
<1> HIDE DEF j
<1> QED  BY <1>1, <1>4, <1>5, OneJob DEF IInv, IssuersOK

LEMMA SourceKeeps ==
  ASSUME IInv, NEW c \in Signers, Source(c)
  PROVE  IssuersOK
<1>1. ReceiptsInv' /\ receipts \subseteq receipts'
  BY ReceiptsKept DEF IInv, Source
<1>2. c \in Callers /\ JobOK(job[c]) /\ job[c].at = "fetching"
  BY DEF IInv, JobInv, Source, Callers
<1>3. PICK w \in Worlds :
        LET r == Assessment(w, job[c].request, job[c].policy, Wall) IN
        job' = [job EXCEPT ![c] = IF r = None THEN Free ELSE [job[c] EXCEPT !.source = r]]
  BY DEF Source
<1>4. PICK r : r = Assessment(w, job[c].request, job[c].policy, Wall)
  OBVIOUS
<1>5. r # None => Kept(r) /\ NotRenewed(r)
  <2>1. Wall \in Int /\ Timed(job[c].request) /\ Graded(job[c].policy)
    BY <1>2, WallIsInt DEF IInv, JobOK
  <2> QED  BY <1>4, <2>1, AssessmentIsKept
<1> DEFINE k == [job[c] EXCEPT !.source = r]
           j == IF r = None THEN Free ELSE k
<1>6. /\ DOMAIN k = {"at", "request", "policy", "since", "source", "extra"}
      /\ k.request = job[c].request /\ k.policy = job[c].policy
      /\ k.source = r /\ k.extra = job[c].extra
  BY <1>2 DEF JobOK
<1>7. job' = [job EXCEPT ![c] = j]
  BY <1>3, <1>4
<1> HIDE DEF k
<1>8. JobOK(j)
  BY <1>2, <1>5, <1>6, FreeIsOK DEF JobOK
<1> HIDE DEF j
<1> QED  BY <1>1, <1>2, <1>7, <1>8, OneJob DEF IInv, IssuersOK

LEMMA ContextKeeps ==
  ASSUME IInv, NEW c \in Signers, Context(c)
  PROVE  IssuersOK
<1>1. ReceiptsInv' /\ receipts \subseteq receipts'
  BY ReceiptsKept DEF IInv, Context
<1>2. c \in Callers /\ JobOK(job[c]) /\ job[c].at = "fetching"
  BY DEF IInv, JobInv, Context, Callers
<1>3. PICK w \in Worlds :
        job' = [job EXCEPT ![c].extra =
                  LiquilensSection(LiquilensReply(w, Wall), job[c].request, Wall)]
  BY DEF Context
<1> DEFINE s == LiquilensSection(LiquilensReply(w, Wall), job[c].request, Wall)
           j == [job[c] EXCEPT !.extra = s]
<1>4. Dated(s)
  <2>1. Wall \in Int /\ Timed(job[c].request)
    BY <1>2, WallIsInt DEF IInv, JobOK
  <2> QED  BY <2>1, LiquilensStands DEF Standing
<1>5. job' = [job EXCEPT ![c] = j]
  BY <1>3
<1> HIDE DEF s
<1>6. /\ DOMAIN j = {"at", "request", "policy", "since", "source", "extra"}
      /\ j.request = job[c].request /\ j.policy = job[c].policy
      /\ j.source = job[c].source /\ j.extra = s
  BY <1>2 DEF JobOK
<1> HIDE DEF j
<1>7. JobOK(j)
  BY <1>2, <1>4, <1>6 DEF JobOK
<1> QED  BY <1>1, <1>2, <1>5, <1>7, OneJob DEF IInv, IssuersOK

LEMMA SignKeeps ==
  ASSUME IInv, NEW c \in Signers, Sign(c)
  PROVE  IssuersOK
<1>1. c \in Callers /\ JobOK(job[c]) /\ job[c].source # None /\ profile = "native"
  BY DEF IInv, JobInv, Sign, Callers, Complete
<1>2. PICK r : r = Resigned(job[c].source, job[c].extra, Wall)
  OBVIOUS
<1>3. r # None => Kept(r) /\ NotRenewed(r)
  <2>1. /\ Wall \in Int
        /\ Kept(job[c].source) /\ NotRenewed(job[c].source)
        /\ job[c].extra # None => Dated(job[c].extra)
    BY <1>1, WallIsInt DEF IInv, JobOK
  <2> QED  BY <1>2, <2>1, ResignedIsKept
<1>4. r # None => Kept(r) /\ IssuedBy(r)
  BY <1>1, <1>3 DEF IssuedBy
<1>5. ReceiptsInv' /\ receipts \subseteq receipts'
  BY <1>2, <1>4, OneReceipt DEF IInv, Sign
<1>6. job' = [job EXCEPT ![c] = Free]
  BY DEF Sign
<1> QED  BY <1>1, <1>5, <1>6, FreeIsOK, OneJob DEF IInv, IssuersOK

LEMMA IssueKeeps ==
  ASSUME IInv, NEW c \in Signers, Issue(c)
  PROVE  IssuersOK
<1>1. c \in Callers /\ JobOK(job[c]) /\ job[c].at = "fetching" /\ profile = "scoped"
  BY DEF IInv, JobInv, Issue, Callers
<1>2. PICK w \in Worlds, later \in {Wall, Wall + 1} :
        HandOut(Scoped(job[c].request, job[c].policy, Wall, later, FundingReply(w, Wall),
                       UndertowReply(w, Scenario(job[c].request), Wall),
                       CorporateReply(w, Wall)))
  BY DEF Issue
<1>3. PICK r : r = Scoped(job[c].request, job[c].policy, Wall, later, FundingReply(w, Wall),
                          UndertowReply(w, Scenario(job[c].request), Wall),
                          CorporateReply(w, Wall))
  OBVIOUS
<1>4. r # None => Kept(r) /\ (r.outcome = "pass" => r.request.usd)
  <2>1. Wall \in Int /\ Timed(job[c].request) /\ Graded(job[c].policy)
    BY <1>1, WallIsInt DEF IInv, JobOK
  <2> QED  BY <1>3, <2>1, ScopedIsKept
<1>5. r # None => Kept(r) /\ IssuedBy(r)
  BY <1>1, <1>4 DEF IssuedBy
<1>6. ReceiptsInv' /\ receipts \subseteq receipts'
  BY <1>2, <1>3, <1>5, OneReceipt DEF IInv, Issue
<1>7. job' = [job EXCEPT ![c] = Free]
  BY DEF Issue
<1> QED  BY <1>1, <1>6, <1>7, FreeIsOK, OneJob DEF IInv, IssuersOK

(***************************************************************************)
(* Every step.                                                              *)
(***************************************************************************)
Issuing ==
  \/ \E c \in Visitors : Arrive(c) \/ Begin(c) \/ TurnAway(c) \/ Answer(c)
  \/ \E c \in Signers : Ask(c) \/ Source(c) \/ Context(c) \/ Sign(c) \/ Issue(c)
  \/ \E c \in Callers : TimeOut(c)
Claiming == \E t \in Threads : Verify(t) \/ ReadClock(t) \/ Consume(t) \/ Refuse(t)

LEMMA IssuingKeeps ==
  ASSUME IInv, Issuing
  PROVE  IInv'
<1>1. IssuersOK
  BY ArriveKeeps, BeginKeeps, EndKeeps, AnswerKeeps, AskKeeps, SourceKeeps, ContextKeeps,
     SignKeeps, IssueKeeps DEF Issuing, Callers
<1>2. UNCHANGED <<now, slips, profile, claim, consumer, orders>>
  BY DEF Issuing, Arrive, Begin, TurnAway, Answer, Ask, Source, Context, Sign, Issue,
         TimeOut, clocks
<1>3. ClockInv'
  BY <1>2 DEF IInv, ClockInv
<1>4. ClaimInv' /\ OrdersInv'
  BY <1>1, <1>2, GatewayKept DEF IInv, IssuersOK
<1> QED  BY <1>1, <1>3, <1>4 DEF IInv, IssuersOK

LEMMA ClaimingKeeps ==
  ASSUME IInv, Claiming
  PROVE  IInv'
<1>1. ClaimInv' /\ OrdersInv'
  BY VerifyKeeps, ReadClockKeeps, ConsumeKeeps, RefuseKeeps DEF Claiming
<1>2. UNCHANGED <<now, slips, profile, job, receipts>>
  BY DEF Claiming, Verify, ReadClock, Consume, Refuse, clocks
<1>3. ClockInv'
  BY <1>2 DEF IInv, ClockInv
<1>4. JobInv' /\ ReceiptsInv'
  BY <1>2, IssuersKept DEF IInv
<1> QED  BY <1>1, <1>3, <1>4 DEF IInv

LEMMA TimeKeeps ==
  ASSUME IInv, Tick \/ SetBack \/ UNCHANGED vars
  PROVE  IInv'
<1>1. UNCHANGED <<profile, job, receipts, claim, consumer, orders>>
  BY DEF Tick, SetBack, vars
<1>2. ClockInv'
  BY DEF IInv, ClockInv, Tick, SetBack, vars
<1>3. JobInv' /\ ReceiptsInv'
  BY <1>1, IssuersKept DEF IInv
<1>4. ClaimInv' /\ OrdersInv'
  BY <1>1, GatewayKept DEF IInv
<1> QED  BY <1>2, <1>3, <1>4 DEF IInv

LEMMA Inductive == IInv /\ [Next]_vars => IInv'
<1> SUFFICES ASSUME IInv, [Next]_vars PROVE IInv'
  OBVIOUS
<1>1. Issuing \/ Claiming \/ Tick \/ SetBack \/ UNCHANGED vars
  BY DEF Next, Issuing, Claiming
<1> QED  BY <1>1, IssuingKeeps, ClaimingKeeps, TimeKeeps

LEMMA Invariant == Spec => []IInv
BY Initially, Inductive, PTL DEF Spec

(***************************************************************************)
(* Types, and the count of the load gate.                                   *)
(***************************************************************************)
Inside == {c \in Visitors : job[c].at # "free"}

CallersTyped == \A c \in Callers : job[c].at \in {"free", "inside", "fetching"}

GateInv ==
  /\ DOMAIN gate = {"tokens", "inFlight", "updated"}
  /\ gate.tokens \in 0..Burst /\ gate.updated \in Start..now
  /\ gate.inFlight = Cardinality(Inside) /\ gate.inFlight \in 0..MaxInFlight
  /\ CallersTyped

ClocksInv == now \in Start..MaxNow /\ slips \in 0..MaxSlips
LanesInv  == \A t \in Threads : claim[t].at \in {"idle", "verified", "claiming"}
UsedInv   == IsFiniteSet(consumer.used) /\ Cardinality(consumer.used) <= MaxEntries

TypeInv == ClocksInv /\ GateInv /\ LanesInv /\ UsedInv

LEMMA InsideIsFinite == IsFiniteSet(Inside)
BY CallersAssumption, FS_Subset DEF Inside

LEMMA TypesInitially == Init => TypeInv
<1> SUFFICES ASSUME Init PROVE TypeInv
  OBVIOUS
<1> USE DEF Init
<1>1. ClocksInv
  BY FlowAssumption DEF ClocksInv
<1>2. Inside = {}
  BY DEF Inside, Callers, Free
<1>3. GateInv
  <2>1. /\ DOMAIN gate = {"tokens", "inFlight", "updated"}
        /\ gate.tokens \in 0..Burst /\ gate.updated \in Start..now
        /\ gate.inFlight = 0 /\ 0 \in 0..MaxInFlight
    BY FlowAssumption
  <2>2. CallersTyped
    BY DEF CallersTyped, Free
  <2> QED  BY <1>2, <2>1, <2>2, FS_EmptySet DEF GateInv
<1>4. LanesInv
  BY DEF LanesInv, Idle
<1>5. UsedInv
  BY FS_EmptySet, FlowAssumption DEF UsedInv
<1> QED  BY <1>1, <1>3, <1>4, <1>5 DEF TypeInv

Becomes(c, j) == /\ job' = [job EXCEPT ![c] = j]
                 /\ j.at \in {"free", "inside", "fetching"}

LEMMA InsideMoves ==
  ASSUME JobInv, CallersTyped, NEW c \in Callers, NEW j, Becomes(c, j)
  PROVE  /\ CallersTyped'
         /\ c \in Visitors /\ j.at # "free" => Inside' = Inside \cup {c}
         /\ j.at = "free" => Inside' = Inside \ {c}
         /\ c \notin Visitors => Inside' = Inside
<1>1. \A d \in Callers : job'[d] = IF d = c THEN j ELSE job[d]
  BY DEF JobInv, Becomes
<1>2. Visitors \subseteq Callers
  BY DEF Callers
<1> QED  BY <1>1, <1>2 DEF CallersTyped, Inside, Becomes

LEMMA SameGate ==
  ASSUME GateInv, UNCHANGED <<gate, now>>, CallersTyped', Inside' = Inside
  PROVE  GateInv'
BY DEF GateInv

LEMMA LeaveKeeps ==
  ASSUME JobInv, GateInv, NEW c \in Visitors, job[c].at # "free", Leave(c), now' = now
  PROVE  GateInv'
<1>1. c \in Callers /\ c \in Inside
  BY DEF Callers, Inside
<1>2. CallersTyped' /\ Inside' = Inside \ {c}
  <2>1. CallersTyped /\ Becomes(c, Free) /\ Free.at = "free"
    BY DEF Leave, GateInv, Free, Becomes
  <2> QED  BY <1>1, <2>1, InsideMoves
<1>3. Cardinality(Inside) \in Nat /\ Cardinality(Inside') = Cardinality(Inside) - 1
  BY <1>1, <1>2, InsideIsFinite, FS_RemoveElement, FS_CardinalityType
<1>4. Cardinality(Inside) # 0
  BY <1>1, InsideIsFinite, FS_EmptySet
<1>5. /\ DOMAIN gate' = {"tokens", "inFlight", "updated"}
      /\ gate'.tokens = gate.tokens /\ gate'.updated = gate.updated
      /\ gate'.inFlight = gate.inFlight - 1
  BY DEF Leave, GateInv
<1> QED  BY <1>2, <1>3, <1>4, <1>5, FlowAssumption DEF GateInv

LEMMA RefillIsBounded ==
  ASSUME ClocksInv, GateInv
  PROVE  /\ DOMAIN Refilled = {"tokens", "inFlight", "updated"}
         /\ Refilled.inFlight = gate.inFlight /\ Refilled.updated = now
         /\ Refilled.tokens \in 0..Burst
<1>1. /\ gate.tokens \in Nat /\ gate.updated \in Nat /\ now \in Nat /\ gate.updated <= now
      /\ Burst \in Nat /\ Rate \in Nat
  BY FlowAssumption DEF GateInv, ClocksInv
<1>2. (now - gate.updated) * Rate \in Nat
  <2>1. \A a, b \in Nat : a * b \in Nat
    OBVIOUS
  <2>2. now - gate.updated \in Nat
    BY <1>1
  <2> QED  BY <1>1, <2>1, <2>2
<1> DEFINE extra == (now - gate.updated) * Rate
           tokens == Smaller(Burst, gate.tokens + extra)
<1>3. /\ DOMAIN Refilled = {"tokens", "inFlight", "updated"}
      /\ Refilled.inFlight = gate.inFlight /\ Refilled.updated = now
      /\ Refilled.tokens = tokens
  BY DEF Refilled, GateInv
<1> HIDE DEF extra
<1>4. tokens \in 0..Burst
  BY <1>1, <1>2 DEF Smaller, extra
<1> HIDE DEF tokens
<1> QED  BY <1>3, <1>4

LEMMA ArriveKeepsCount ==
  ASSUME IInv, TypeInv, NEW c \in Visitors, Arrive(c)
  PROVE  GateInv'
<1>1. ClocksInv /\ GateInv /\ JobInv /\ now' = now /\ job[c] = Free /\ c \in Callers
  BY DEF IInv, TypeInv, Arrive, clocks, Callers
<1>2. PICK tokens : tokens = Refilled.tokens
  OBVIOUS
<1>3. /\ DOMAIN Refilled = {"tokens", "inFlight", "updated"}
      /\ Refilled.inFlight = gate.inFlight /\ Refilled.updated = now
      /\ tokens \in 0..Burst
  BY <1>1, <1>2, RefillIsBounded
<1>4. now \in Start..now
  BY <1>1, FlowAssumption DEF ClocksInv
<1>5. CASE gate.inFlight < MaxInFlight /\ tokens >= 1
  <2>1. gate' = [Refilled EXCEPT !.tokens = @ - 1, !.inFlight = @ + 1]
    BY <1>2, <1>5 DEF Arrive
  <2>2. /\ gate'.tokens = tokens - 1 /\ gate'.inFlight = gate.inFlight + 1
        /\ gate'.updated = now
        /\ DOMAIN gate' = {"tokens", "inFlight", "updated"}
    BY <1>2, <1>3, <2>1
  <2>3. PICK q, pol : job' = [job EXCEPT ![c] = [Free EXCEPT !.at = "inside", !.request = q,
                                                             !.policy = pol, !.since = now]]
    BY <1>2, <1>5 DEF Arrive
  <2> DEFINE j == [Free EXCEPT !.at = "inside", !.request = q, !.policy = pol, !.since = now]
  <2>4. j.at = "inside"
    BY DEF Free
  <2> HIDE DEF j
  <2>5. CallersTyped' /\ Inside' = Inside \cup {c}
    <3>1. CallersTyped /\ job' = [job EXCEPT ![c] = j]
      BY <1>1, <2>3 DEF GateInv, j
    <3>2. j.at # "free" /\ Becomes(c, j)
      BY <2>4, <3>1 DEF Becomes
    <3> QED  BY <1>1, <3>1, <3>2, InsideMoves
  <2>6. c \notin Inside
    BY <1>1 DEF Inside, Free
  <2>7. Cardinality(Inside') = Cardinality(Inside) + 1
    BY <2>5, <2>6, InsideIsFinite, FS_AddElement
  <2>8. tokens - 1 \in 0..Burst /\ gate.inFlight + 1 \in 0..MaxInFlight
    BY <1>1, <1>3, <1>5, FlowAssumption DEF GateInv
  <2> QED  BY <1>1, <1>4, <2>2, <2>5, <2>7, <2>8 DEF GateInv
<1>6. CASE ~(gate.inFlight < MaxInFlight /\ tokens >= 1)
  <2>1. gate' = Refilled /\ job' = job
    BY <1>2, <1>6 DEF Arrive
  <2>2. Inside' = Inside /\ CallersTyped'
    BY <1>1, <2>1 DEF Inside, CallersTyped, GateInv
  <2>3. /\ DOMAIN gate' = {"tokens", "inFlight", "updated"}
        /\ gate'.tokens = tokens /\ gate'.inFlight = gate.inFlight /\ gate'.updated = now
    BY <1>2, <1>3, <2>1
  <2>4. gate.inFlight = Cardinality(Inside) /\ gate.inFlight \in 0..MaxInFlight
    BY <1>1 DEF GateInv
  <2> QED  BY <1>1, <1>3, <1>4, <2>2, <2>3, <2>4 DEF GateInv
<1> QED  BY <1>5, <1>6

LEMMA OperatorKeepsCount ==
  ASSUME IInv, TypeInv, NEW c \in Signers,
         Ask(c) \/ Source(c) \/ Context(c) \/ Sign(c) \/ Issue(c)
  PROVE  GateInv'
<1>1. /\ GateInv /\ JobInv /\ JobOK(job[c]) /\ UNCHANGED <<gate, now>>
      /\ c \in Callers /\ c \notin Visitors
  BY CallersAssumption DEF IInv, JobInv, TypeInv, Ask, Source, Context, Sign, Issue, clocks, Callers
<1>2. PICK j : job' = [job EXCEPT ![c] = j] /\ j.at \in {"free", "inside", "fetching"}
  <2>1. CASE Ask(c)
    <3>1. PICK q : job' = [job EXCEPT ![c] = [Free EXCEPT !.at = "fetching", !.request = q,
                                     !.policy = Binding.policy, !.since = now]]
      BY <2>1 DEF Ask
    <3>2. [Free EXCEPT !.at = "fetching", !.request = q,
                       !.policy = Binding.policy, !.since = now].at = "fetching"
      BY DEF Free
    <3> QED  BY <3>1, <3>2
  <2>2. CASE Source(c)
    <3>1. PICK r : job' = [job EXCEPT ![c] = IF r = None THEN Free
                                             ELSE [job[c] EXCEPT !.source = r]]
      BY <2>2 DEF Source
    <3>2. [job[c] EXCEPT !.source = r].at = job[c].at /\ Free.at = "free"
      BY <1>1 DEF JobOK, Free
    <3>3. (IF r = None THEN Free ELSE [job[c] EXCEPT !.source = r]).at
            \in {"free", "inside", "fetching"}
      BY <1>1, <3>2 DEF GateInv, CallersTyped
    <3> QED  BY <3>1, <3>3
  <2>3. CASE Context(c)
    <3>1. PICK s : job' = [job EXCEPT ![c] = [job[c] EXCEPT !.extra = s]]
      BY <2>3 DEF Context
    <3>2. [job[c] EXCEPT !.extra = s].at = job[c].at
      BY <1>1 DEF JobOK
    <3> QED  BY <1>1, <3>1, <3>2 DEF GateInv, CallersTyped
  <2>4. CASE Sign(c) \/ Issue(c)
    <3>1. job' = [job EXCEPT ![c] = Free] /\ Free.at = "free"
      BY <2>4 DEF Sign, Issue, Free
    <3> QED  BY <3>1
  <2> QED  BY <2>1, <2>2, <2>3, <2>4
<1>3. CallersTyped' /\ Inside' = Inside
  <2>1. CallersTyped /\ Becomes(c, j)
    BY <1>1, <1>2 DEF GateInv, Becomes
  <2> QED  BY <1>1, <2>1, InsideMoves
<1> QED  BY <1>1, <1>3, SameGate

LEMMA IssuingKeepsCount ==
  ASSUME IInv, TypeInv, Issuing
  PROVE  TypeInv'
<1>1. GateInv /\ JobInv /\ UNCHANGED <<now, slips, claim, consumer>>
  BY DEF IInv, TypeInv, Issuing, Arrive, Begin, TurnAway, Answer, Ask, Source, Context,
         Sign, Issue, TimeOut, clocks
<1>2. GateInv'
  <2>1. ASSUME NEW c \in Visitors, Begin(c)
        PROVE  GateInv'
    <3>1. /\ c \in Callers /\ JobOK(job[c]) /\ job[c].at # "free"
          /\ job' = [job EXCEPT ![c] = [job[c] EXCEPT !.at = "fetching"]]
          /\ UNCHANGED gate
      BY <1>1, <2>1 DEF Begin, JobInv, Callers
    <3> DEFINE j == [job[c] EXCEPT !.at = "fetching"]
    <3>2. j.at = "fetching"
      BY <3>1 DEF JobOK
    <3> HIDE DEF j
    <3>3. CallersTyped' /\ Inside' = Inside \cup {c}
      <4>1. CallersTyped /\ job' = [job EXCEPT ![c] = j]
        BY <1>1, <3>1 DEF GateInv, j
      <4>2. j.at # "free" /\ Becomes(c, j)
        BY <3>2, <4>1 DEF Becomes
      <4> QED  BY <1>1, <3>1, <4>1, <4>2, InsideMoves
    <3>4. Inside' = Inside
      BY <3>1, <3>3 DEF Inside
    <3> QED  BY <1>1, <3>1, <3>3, <3>4, SameGate
  <2>2. ASSUME NEW c \in Visitors, TurnAway(c) \/ Answer(c)
        PROVE  GateInv'
    BY <1>1, <2>2, LeaveKeeps DEF TurnAway, Answer
  <2>3. ASSUME NEW c \in Callers, TimeOut(c)
        PROVE  GateInv'
    <3>1. CASE c \in Visitors
      BY <1>1, <2>3, <3>1, LeaveKeeps DEF TimeOut
    <3>2. CASE c \notin Visitors
      <4>1. Becomes(c, Free) /\ UNCHANGED gate
        BY <2>3, <3>2 DEF TimeOut, Free, Becomes
      <4>2. CallersTyped
        BY <1>1 DEF GateInv
      <4>3. CallersTyped' /\ Inside' = Inside
        BY <1>1, <3>2, <4>1, <4>2, InsideMoves
      <4> QED  BY <1>1, <4>1, <4>3, SameGate
    <3> QED  BY <3>1, <3>2
  <2> QED  BY <2>1, <2>2, <2>3, ArriveKeepsCount, OperatorKeepsCount DEF Issuing
<1> QED  BY <1>1, <1>2 DEF TypeInv, ClocksInv, LanesInv, UsedInv

LEMMA ClaimingKeepsTypes ==
  ASSUME IInv, TypeInv, Claiming
  PROVE  TypeInv'
<1>1. PICK t \in Threads : Verify(t) \/ ReadClock(t) \/ Consume(t) \/ Refuse(t)
  BY DEF Claiming
<1>2. UNCHANGED <<now, slips, gate, job>>
  BY <1>1 DEF Verify, ReadClock, Consume, Refuse, clocks
<1>3. LanesInv'
  <2>1. ClaimInv /\ ClaimOK(claim[t]) /\ LanesInv
    BY DEF IInv, TypeInv, ClaimInv
  <2>2. PICK k : claim' = [claim EXCEPT ![t] = k] /\ k.at \in {"idle", "verified", "claiming"}
    <3>1. CASE Verify(t)
      <4>1. PICK r : claim' = [claim EXCEPT ![t] = [claim[t] EXCEPT !.at = "verified", !.receipt = r]]
        BY <3>1 DEF Verify
      <4>2. [claim[t] EXCEPT !.at = "verified", !.receipt = r].at = "verified"
        BY <2>1 DEF ClaimOK
      <4> QED  BY <4>1, <4>2
    <3>2. CASE ReadClock(t)
      <4>1. claim' = [claim EXCEPT ![t] = [claim[t] EXCEPT !.at = "claiming", !.clock = Wall]]
        BY <3>2 DEF ReadClock
      <4>2. [claim[t] EXCEPT !.at = "claiming", !.clock = Wall].at = "claiming"
        BY <2>1 DEF ClaimOK
      <4> QED  BY <4>1, <4>2
    <3>3. CASE Consume(t) \/ Refuse(t)
      BY <3>3 DEF Consume, Refuse, Idle
    <3> QED  BY <1>1, <3>1, <3>2, <3>3
  <2> QED  BY <2>1, <2>2 DEF LanesInv, ClaimInv
<1>4. UsedInv'
  <2>1. CASE UNCHANGED consumer
    BY <2>1 DEF TypeInv, UsedInv
  <2>2. CASE Consume(t)
    <3> DEFINE r == claim[t].receipt
               old == Remembered(claim[t].clock)
    <3>1. IsFiniteSet(old) /\ Cardinality(old) <= Cardinality(consumer.used)
          /\ Cardinality(old) \in Nat /\ Cardinality(consumer.used) \in Nat
      BY FS_Subset, FS_CardinalityType DEF Remembered, TypeInv, UsedInv
    <3>2. \/ consumer'.used = old
          \/ consumer'.used = old \cup {r} /\ Cardinality(old) < MaxEntries
      BY <2>2 DEF Consume, Claimable
    <3> HIDE DEF old, r
    <3>3. IsFiniteSet(old \cup {r}) /\ Cardinality(old \cup {r}) <= Cardinality(old) + 1
      <4>1. /\ IsFiniteSet(old \cup {r})
            /\ Cardinality(old \cup {r}) = IF r \in old THEN Cardinality(old)
                                          ELSE Cardinality(old) + 1
        BY <3>1, FS_AddElement, Zenon
      <4> QED  BY <3>1, <4>1
    <3>4. Cardinality(old \cup {r}) \in Nat
      BY <3>3, FS_CardinalityType
    <3>5. MaxEntries \in Nat /\ Cardinality(consumer.used) <= MaxEntries
      BY FlowAssumption DEF TypeInv, UsedInv
    <3>6. CASE consumer'.used = old
      BY <3>1, <3>5, <3>6 DEF UsedInv
    <3>7. CASE consumer'.used = old \cup {r} /\ Cardinality(old) < MaxEntries
      <4>1. Cardinality(old \cup {r}) <= MaxEntries
        BY <3>1, <3>3, <3>4, <3>5, <3>7
      <4> QED  BY <3>3, <3>7, <4>1 DEF UsedInv
    <3> QED  BY <3>2, <3>6, <3>7
  <2> QED  BY <1>1, <2>1, <2>2 DEF Verify, ReadClock, Refuse
<1> QED  BY <1>2, <1>3, <1>4 DEF TypeInv, ClocksInv, GateInv, CallersTyped, Inside

LEMMA TypesInductive == IInv /\ TypeInv /\ [Next]_vars => TypeInv'
<1> SUFFICES ASSUME IInv, TypeInv, [Next]_vars PROVE TypeInv'
  OBVIOUS
<1>1. CASE Tick \/ SetBack \/ UNCHANGED vars
  <2>1. UNCHANGED <<gate, job, claim, consumer>>
    BY <1>1 DEF Tick, SetBack, vars
  <2>2. ClocksInv' /\ gate'.updated \in Start..now'
    BY <1>1, FlowAssumption DEF TypeInv, ClocksInv, GateInv, Tick, SetBack, vars
  <2>3. Inside' = Inside /\ CallersTyped'
    BY <2>1 DEF Inside, CallersTyped, TypeInv, GateInv
  <2>4. GateInv'
    BY <2>1, <2>2, <2>3 DEF GateInv, TypeInv
  <2> QED  BY <2>1, <2>2, <2>4 DEF TypeInv, LanesInv, UsedInv
<1>2. Issuing \/ Claiming \/ Tick \/ SetBack \/ UNCHANGED vars
  BY DEF Next, Issuing, Claiming
<1> QED  BY <1>1, <1>2, IssuingKeepsCount, ClaimingKeepsTypes

(***************************************************************************)
(* A policy that asks for more lets less through: what passes under it      *)
(* passes under every policy that asks for less.                            *)
(***************************************************************************)
Stricter(pol, env) ==
  /\ env.required \subseteq pol.required /\ pol.required \subseteq Products
  /\ env.hold \subseteq pol.hold
  /\ \A p \in Products : pol.maxAge[p] <= env.maxAge[p]
  /\ Within(pol.maxNotional, env.maxNotional)
  /\ Within(pol.maxCost, env.maxCost)
  /\ Within(pol.maxSpread, env.maxSpread)

LEMMA WhatPassesTheStricter ==
  ASSUME NEW q, NEW ev, NEW v, NEW pol, NEW env, NEW at \in Int, NEW keyed,
         Parts(q, ev, v, pol), Graded(env), Stricter(pol, env),
         Outcome(q, ev, v, pol, at, keyed) = "pass"
  PROVE  Outcome(q, ev, v, env, at, keyed) = "pass"
<1> DEFINE f == ev["undertow"].facts
<1>1. /\ ~Unavailable(q, ev, v, pol, at, keyed)
      /\ ~Held(ev, pol)
      /\ ~Exceeded(q, f, pol)
  BY DEF Outcome
<1>2. ASSUME NEW p \in env.required
      PROVE  ~Unreliable(p, ev[p], q, env, at)
  <2>1. p \in pol.required /\ p \in Products
    BY <1>2 DEF Stricter
  <2>2. ~Unreliable(p, ev[p], q, pol, at)
    BY <1>1, <2>1 DEF Unavailable
  <2>3. ev[p].asOf \in Int /\ pol.maxAge[p] \in Int /\ env.maxAge[p] \in Int
    BY <2>1, <2>2 DEF Unreliable, Parts, Dated, Graded
  <2>4. ~(at - ev[p].asOf > env.maxAge[p])
    <3>1. pol.maxAge[p] <= env.maxAge[p] /\ ~(at - ev[p].asOf > pol.maxAge[p])
      BY <2>1, <2>2 DEF Stricter, Unreliable
    <3> QED  BY <2>3, <3>1
  <2> QED  BY <2>2, <2>4 DEF Unreliable
<1>3. pol.maxNotional # None /\ pol.maxCost # None /\ pol.maxSpread # None
  BY DEF Stricter, Within
<1>4. q.usd /\ f.cost # None /\ f.spread # None /\ ~Unpriced(q, f, env)
  <2>1. ~Unpriced(q, f, pol)
    BY <1>1 DEF Unavailable
  <2>2. Limits(pol) # {}
    BY <1>3 DEF Limits
  <2> QED  BY <1>3, <2>1, <2>2 DEF Unpriced
<1>5. ~Unavailable(q, ev, v, env, at, keyed)
  BY <1>1, <1>2, <1>4 DEF Unavailable
<1>6. ~Held(ev, env)
  BY <1>1 DEF Held, Stricter
<1>7. ~Exceeded(q, f, env)
  <2>1. /\ q.notional \in Int /\ f.cost \in Int /\ f.spread \in Int
        /\ pol.maxNotional \in Int /\ pol.maxCost \in Int /\ pol.maxSpread \in Int
    BY <1>3, <1>4 DEF Parts, Timed, Costed, Graded, Limits
  <2>2. /\ env.maxNotional \in Int \cup {None} /\ env.maxCost \in Int \cup {None}
        /\ env.maxSpread \in Int \cup {None}
    BY DEF Graded, Limits
  <2>3. /\ ~(q.notional > pol.maxNotional) /\ ~(f.cost > pol.maxCost)
        /\ ~(f.spread > pol.maxSpread)
    BY <1>1, <1>3, <1>4 DEF Exceeded
  <2>4. /\ pol.maxNotional <= env.maxNotional /\ pol.maxCost <= env.maxCost
        /\ pol.maxSpread <= env.maxSpread
    BY DEF Stricter, Within
  <2>5. env.maxNotional # None => ~(q.notional > env.maxNotional)
    BY <2>1, <2>2, <2>3, <2>4
  <2>6. env.maxCost # None => ~(f.cost > env.maxCost)
    BY <2>1, <2>2, <2>3, <2>4
  <2>7. env.maxSpread # None => ~(f.spread > env.maxSpread)
    BY <2>1, <2>2, <2>3, <2>4
  <2> QED  BY <2>5, <2>6, <2>7 DEF Exceeded
<1> QED  BY <1>5, <1>6, <1>7 DEF Outcome

LEMMA AdmittedIsStricter ==
  ASSUME NEW pol, Graded(pol), Admits(Envelope, pol)
  PROVE  Stricter(pol, HardEnvelope)
<1> DEFINE env == Envelope
           hard == HardEnvelope
<1>1. TightensOnly(env, hard)
  BY OwnPolicyAssumption
<1>2. /\ hard.required \subseteq pol.required /\ pol.required \subseteq Products
      /\ hard.hold \subseteq pol.hold
  BY <1>1 DEF TightensOnly, Admits, ValidPolicy
<1>3. \A a, b, c \in Int : a <= b /\ b <= c => a <= c
  OBVIOUS
<1>4. ASSUME NEW p \in Products
      PROVE  pol.maxAge[p] <= hard.maxAge[p]
  <2>1. pol.maxAge[p] \in Int /\ env.maxAge[p] \in Int /\ hard.maxAge[p] \in Int
    BY LimitsAssumption DEF Graded
  <2>2. pol.maxAge[p] <= env.maxAge[p] /\ env.maxAge[p] <= hard.maxAge[p]
    BY <1>1 DEF TightensOnly, Admits
  <2> QED  BY <1>3, <2>1, <2>2
<1>5. /\ pol.maxNotional # None /\ pol.maxNotional <= env.maxNotional
      /\ pol.maxCost # None /\ pol.maxCost <= env.maxCost
      /\ pol.maxSpread # None /\ pol.maxSpread <= env.maxSpread
  BY DEF Admits, Within
<1>6. /\ env.maxNotional <= hard.maxNotional /\ env.maxCost <= hard.maxCost
      /\ env.maxSpread <= hard.maxSpread
  BY <1>1 DEF TightensOnly
<1>7. /\ {pol.maxNotional, pol.maxCost, pol.maxSpread} \subseteq Int
      /\ {env.maxNotional, env.maxCost, env.maxSpread} \subseteq Int
      /\ {hard.maxNotional, hard.maxCost, hard.maxSpread} \subseteq Int
  BY <1>5, LimitsAssumption DEF Graded, Limits
<1>8. /\ pol.maxNotional <= hard.maxNotional /\ pol.maxCost <= hard.maxCost
      /\ pol.maxSpread <= hard.maxSpread
  BY <1>3, <1>5, <1>6, <1>7
<1> QED  BY <1>2, <1>4, <1>5, <1>8 DEF Stricter, Within

(***************************************************************************)
(* The limits no caller and no configuration of an issuer can loosen, as a  *)
(* policy: the guard's, and those the private profile submits under.        *)
(***************************************************************************)
ScopedEnvelope ==
  [required |-> Products, hold |-> ScopedCaps.hold, maxAge |-> ScopedAge,
   maxNotional |-> ScopedCaps.maxNotional, maxCost |-> ScopedCaps.maxCost,
   maxSpread |-> ScopedCaps.maxSpread]

HardLimits == IF profile = "scoped" THEN ScopedEnvelope ELSE HardEnvelope

PassesHardLimits(r) ==
  Outcome(r.request, r.evidence, r.preview, HardLimits, r.evaluated, r.keyed) = "pass"

HardLimitsHold == \A r \in receipts : r.outcome = "pass" => PassesHardLimits(r)

LEMMA HardLimitsAreGraded == Graded(HardLimits)
BY LimitsAssumption, EvidenceAssumption
   DEF HardLimits, ScopedEnvelope, Graded, Limits

\* What the guard let in, for the gateway and for the operator behind it.
Guarded(pol) == profile # "scoped" => Stricter(pol, HardEnvelope)

JobsGuarded ==
  \A c \in Callers :
    /\ c \in Visitors /\ job[c].at # "free" => profile = "public"
    /\ job[c].at = "fetching" => Guarded(job[c].policy)
    /\ job[c].source # None => Guarded(job[c].source.policy)

LEMMA IssuedPasses ==
  ASSUME NEW q, NEW ev, NEW v, NEW pol, NEW at \in Int, NEW issuer, NEW ttl, NEW keyed,
         NEW r, r = Receipt(q, ev, v, pol, at, issuer, ttl, keyed),
         Parts(r.request, r.evidence, r.preview, r.policy),
         Stricter(pol, HardLimits), r.outcome = "pass"
  PROVE  PassesHardLimits(r)
<1>1. /\ r.request = q /\ r.evidence = ev /\ r.preview = v /\ r.policy = pol
      /\ r.evaluated = at /\ r.keyed = keyed
      /\ r.outcome = Outcome(q, ev, v, pol, at, keyed)
  BY DEF Receipt
<1> QED  BY <1>1, HardLimitsAreGraded, WhatPassesTheStricter DEF PassesHardLimits

LEMMA AssessmentPasses ==
  ASSUME NEW w \in Worlds, NEW q, Timed(q), NEW pol, Graded(pol), NEW at \in Int,
         NEW r, r = Assessment(w, q, pol, at), r # None,
         profile # "scoped", Guarded(pol)
  PROVE  r.policy = pol /\ (r.outcome = "pass" => PassesHardLimits(r))
<1>1. PICK ev, v : r = Receipt(q, ev, v, pol, at, "gateway", ReceiptTtl, FALSE)
  BY DEF Assessment, Assessed
<1>2. Parts(r.request, r.evidence, r.preview, r.policy)
  BY AssessmentIsKept DEF Kept
<1>3. Stricter(pol, HardLimits)
  BY DEF Guarded, HardLimits
<1>4. r.policy = pol
  BY <1>1 DEF Receipt
<1> QED  BY <1>1, <1>2, <1>3, <1>4, IssuedPasses

LEMMA ResignedPasses ==
  ASSUME NEW s, Kept(s), NotRenewed(s), NEW extra, extra # None => Dated(extra),
         NEW at \in Int, NEW r, r = Resigned(s, extra, at), r # None,
         profile # "scoped", Guarded(s.policy)
  PROVE  r.outcome = "pass" => PassesHardLimits(r)
<1>1. PICK ev, ttl : r = Receipt(s.request, ev, s.preview, s.policy, at, "operator", ttl, TRUE)
  BY DEF Resigned
<1>2. Parts(r.request, r.evidence, r.preview, r.policy)
  BY ResignedIsKept DEF Kept
<1>3. Stricter(s.policy, HardLimits)
  BY DEF Guarded, HardLimits
<1> QED  BY <1>1, <1>2, <1>3, IssuedPasses

LEMMA ScopedPasses ==
  ASSUME NEW w \in Worlds, NEW q, Timed(q), NEW pol, Graded(pol), NEW at \in Int, NEW later,
         NEW r, r # None, profile = "scoped",
         r = Scoped(q, pol, at, later, FundingReply(w, at), UndertowReply(w, Scenario(q), at),
                    CorporateReply(w, at))
  PROVE  r.outcome = "pass" => PassesHardLimits(r)
<1> SUFFICES ASSUME r.outcome = "pass" PROVE PassesHardLimits(r)
  OBVIOUS
<1>1. PICK ev, v : r = Receipt(q, ev, v, pol, at, "operator", ScopedTtl, TRUE)
  BY DEF Scoped
<1>2. ScopedReceipt(r, later, Binding)
  BY DEF Scoped
<1>3. Parts(r.request, r.evidence, r.preview, r.policy)
  BY ScopedIsKept DEF Kept
<1>4. Stricter(pol, HardLimits)
  <2>1. r.policy = pol
    BY <1>1 DEF Receipt
  <2> QED  BY <1>2, <2>1 DEF ScopedReceipt, Stricter, HardLimits, ScopedEnvelope
<1> QED  BY <1>1, <1>3, <1>4, IssuedPasses

LimitsInv == JobsGuarded /\ HardLimitsHold

LEMMA LimitsInitially == Init => LimitsInv
BY DEF Init, LimitsInv, JobsGuarded, HardLimitsHold, Free

LEMMA OneJobGuarded ==
  ASSUME JobInv, JobsGuarded, profile' = profile, NEW c \in Callers, NEW j,
         job' = [job EXCEPT ![c] = j],
         c \in Visitors /\ j.at # "free" => profile = "public",
         j.at = "fetching" => Guarded(j.policy),
         j.source # None => Guarded(j.source.policy)
  PROVE  JobsGuarded'
<1>1. \A d \in Callers : job'[d] = IF d = c THEN j ELSE job[d]
  BY DEF JobInv
<1> QED  BY <1>1 DEF JobsGuarded, Guarded

LEMMA OneReceiptPasses ==
  ASSUME HardLimitsHold, profile' = profile, NEW r, HandOut(r),
         r # None => (r.outcome = "pass" => PassesHardLimits(r))
  PROVE  HardLimitsHold'
BY DEF HardLimitsHold, HandOut, PassesHardLimits, HardLimits

LEMMA EndedIsGuarded ==
  ASSUME JobInv, JobsGuarded, profile' = profile, NEW c \in Callers,
         job' = [job EXCEPT ![c] = Free]
  PROVE  JobsGuarded'
BY OneJobGuarded DEF Free

LEMMA SamePasses ==
  ASSUME HardLimitsHold, UNCHANGED <<profile, receipts>>
  PROVE  HardLimitsHold'
BY DEF HardLimitsHold, PassesHardLimits, HardLimits

LEMMA IssuingKeepsLimits ==
  ASSUME IInv, LimitsInv, Issuing
  PROVE  LimitsInv'
<1>1. JobInv /\ JobsGuarded /\ HardLimitsHold /\ Wall \in Int /\ profile' = profile
  BY WallIsInt DEF IInv, LimitsInv, Issuing, Arrive, Begin, TurnAway, Answer, Ask, Source,
     Context, Sign, Issue, TimeOut
<1>2. \A c \in Callers : JobOK(job[c])
  BY <1>1 DEF JobInv
<1>3. ASSUME NEW c \in Visitors, Arrive(c) \/ Begin(c) \/ TurnAway(c) \/ Answer(c)
      PROVE  LimitsInv'
  <2>1. c \in Callers /\ JobOK(job[c])
    BY <1>2 DEF Callers
  <2>2. CASE Arrive(c)
    <3>1. PICK shape \in Shapes, pol \in Policies :
            \/ UNCHANGED job
            \/ job' = [job EXCEPT ![c] = [Free EXCEPT !.at = "inside",
                     !.request = [shape EXCEPT !.created = Wall, !.expires = Wall + RequestTtl],
                     !.policy = pol, !.since = now]]
      BY <2>2 DEF Arrive
    <3> DEFINE q == [shape EXCEPT !.created = Wall, !.expires = Wall + RequestTtl]
               j == [Free EXCEPT !.at = "inside", !.request = q, !.policy = pol, !.since = now]
    <3>2. j.at = "inside" /\ j.source = None /\ profile = "public"
      BY <2>2 DEF Free, Arrive
    <3>3. UNCHANGED job \/ job' = [job EXCEPT ![c] = j]
      BY <3>1
    <3> HIDE DEF j
    <3>4. JobsGuarded'
      <4>1. CASE UNCHANGED job
        BY <1>1, <4>1 DEF JobsGuarded, Guarded
      <4>2. CASE job' = [job EXCEPT ![c] = j]
        BY <1>1, <2>1, <3>2, <4>2, OneJobGuarded
      <4> QED  BY <3>3, <4>1, <4>2
    <3>5. UNCHANGED receipts
      BY <2>2 DEF Arrive
    <3> QED  BY <1>1, <3>4, <3>5, SamePasses DEF LimitsInv
  <2>3. CASE Begin(c)
    <3> DEFINE j == [job[c] EXCEPT !.at = "fetching"]
    <3>1. j.policy = job[c].policy /\ j.source = job[c].source
      BY <2>1 DEF JobOK
    <3>2. job' = [job EXCEPT ![c] = j] /\ UNCHANGED receipts
      BY <2>3 DEF Begin
    <3>3. Guarded(job[c].policy)
      <4>1. Graded(job[c].policy) /\ Admits(Envelope, job[c].policy)
        BY <2>1, <2>3 DEF JobOK, Begin, AdmittedBy
      <4> QED  BY <4>1, AdmittedIsStricter DEF Guarded
    <3>4. /\ job[c].source # None => Guarded(job[c].source.policy)
          /\ profile = "public"
      BY <1>1, <2>1, <2>3 DEF JobsGuarded, Begin
    <3> HIDE DEF j
    <3>5. JobsGuarded'
      BY <1>1, <2>1, <3>1, <3>2, <3>3, <3>4, OneJobGuarded
    <3> QED  BY <1>1, <3>2, <3>5, SamePasses DEF LimitsInv
  <2>4. CASE TurnAway(c)
    <3>1. job' = [job EXCEPT ![c] = Free] /\ UNCHANGED receipts
      BY <2>4 DEF TurnAway, Leave
    <3> QED  BY <1>1, <2>1, <3>1, EndedIsGuarded, SamePasses DEF LimitsInv
  <2>5. CASE Answer(c)
    <3>1. PICK w \in Worlds : HandOut(Assessment(w, job[c].request, job[c].policy, Wall))
      BY <2>5 DEF Answer
    <3>2. PICK r : r = Assessment(w, job[c].request, job[c].policy, Wall)
      OBVIOUS
    <3>3. Timed(job[c].request) /\ Graded(job[c].policy) /\ Guarded(job[c].policy)
      BY <1>1, <2>1, <2>5 DEF Answer, JobOK, JobsGuarded
    <3>4. profile # "scoped"
      BY <1>1, <2>1, <2>5 DEF Answer, JobsGuarded
    <3>5. r # None => (r.outcome = "pass" => PassesHardLimits(r))
      BY <1>1, <3>2, <3>3, <3>4, AssessmentPasses
    <3>6. HardLimitsHold'
      BY <1>1, <3>1, <3>2, <3>5, OneReceiptPasses
    <3>7. job' = [job EXCEPT ![c] = Free]
      BY <2>5 DEF Answer, Leave
    <3> QED  BY <1>1, <2>1, <3>6, <3>7, EndedIsGuarded DEF LimitsInv
  <2> QED  BY <1>3, <2>2, <2>3, <2>4, <2>5
<1>4. ASSUME NEW c \in Signers, Ask(c) \/ Source(c) \/ Context(c) \/ Sign(c) \/ Issue(c)
      PROVE  LimitsInv'
  <2>1. c \in Callers /\ c \notin Visitors /\ JobOK(job[c])
    BY <1>2, CallersAssumption DEF Callers
  <2>2. /\ job[c].at = "fetching" => Guarded(job[c].policy)
        /\ job[c].source # None => Guarded(job[c].source.policy)
    BY <1>1, <2>1 DEF JobsGuarded
  <2>3. CASE Ask(c)
    <3>1. PICK q : /\ Acceptable(q)
                   /\ job' = [job EXCEPT ![c] = [Free EXCEPT !.at = "fetching", !.request = q,
                                     !.policy = Binding.policy, !.since = now]]
      BY <2>3 DEF Ask
    <3> DEFINE j == [Free EXCEPT !.at = "fetching", !.request = q, !.policy = Binding.policy,
                                 !.since = now]
    <3>2. j.policy = Binding.policy /\ j.source = None
      BY DEF Free
    <3>3. Guarded(Binding.policy)
      <4>1. ClockInv /\ Graded(Binding.policy)
        BY BindingIsGraded DEF IInv
      <4>2. profile = "native" => Admits(Envelope, Binding.policy)
        BY OwnPolicyAssumption DEF Binding
      <4>3. profile # "public"
        BY <3>1 DEF Acceptable
      <4> QED  BY <4>1, <4>2, <4>3, AdmittedIsStricter DEF Guarded, ClockInv, Profiles
    <3>4. job' = [job EXCEPT ![c] = j] /\ UNCHANGED receipts
      BY <2>3, <3>1 DEF Ask
    <3> HIDE DEF j
    <3>5. JobsGuarded'
      BY <1>1, <2>1, <3>2, <3>3, <3>4, OneJobGuarded
    <3> QED  BY <1>1, <3>4, <3>5, SamePasses DEF LimitsInv
  <2>4. CASE Source(c)
    <3>1. PICK w \in Worlds :
            LET r == Assessment(w, job[c].request, job[c].policy, Wall) IN
            job' = [job EXCEPT ![c] = IF r = None THEN Free ELSE [job[c] EXCEPT !.source = r]]
      BY <2>4 DEF Source
    <3>2. PICK r : r = Assessment(w, job[c].request, job[c].policy, Wall)
      OBVIOUS
    <3> DEFINE j == [job[c] EXCEPT !.source = r]
    <3>3. j.at = job[c].at /\ j.policy = job[c].policy /\ j.source = r
      BY <2>1 DEF JobOK
    <3>4. /\ job[c].at = "fetching" /\ profile = "native" /\ UNCHANGED receipts
          /\ job' = [job EXCEPT ![c] = IF r = None THEN Free ELSE j]
      BY <2>4, <3>1, <3>2 DEF Source
    <3>5. r # None => r.policy = job[c].policy
      BY <1>1, <2>1, <2>2, <3>2, <3>4, AssessmentPasses DEF JobOK
    <3> HIDE DEF j
    <3>6. JobsGuarded'
      <4>1. CASE r = None
        BY <1>1, <2>1, <3>4, <4>1, EndedIsGuarded
      <4>2. CASE r # None
        <5>1. job' = [job EXCEPT ![c] = j]
          BY <3>4, <4>2
        <5>2. Guarded(j.policy) /\ Guarded(j.source.policy)
          BY <2>2, <3>3, <3>4, <3>5, <4>2
        <5> QED  BY <1>1, <2>1, <5>1, <5>2, OneJobGuarded
      <4> QED  BY <4>1, <4>2
    <3> QED  BY <1>1, <3>4, <3>6, SamePasses DEF LimitsInv
  <2>5. CASE Context(c)
    <3>1. PICK x : job' = [job EXCEPT ![c] = [job[c] EXCEPT !.extra = x]]
      BY <2>5 DEF Context
    <3> DEFINE j == [job[c] EXCEPT !.extra = x]
    <3>2. j.at = job[c].at /\ j.policy = job[c].policy /\ j.source = job[c].source
      BY <2>1 DEF JobOK
    <3>3. job' = [job EXCEPT ![c] = j] /\ UNCHANGED receipts
      BY <2>5, <3>1 DEF Context
    <3> HIDE DEF j
    <3>4. JobsGuarded'
      BY <1>1, <2>1, <2>2, <3>2, <3>3, OneJobGuarded
    <3> QED  BY <1>1, <3>3, <3>4, SamePasses DEF LimitsInv
  <2>6. CASE Sign(c)
    <3>1. PICK r : r = Resigned(job[c].source, job[c].extra, Wall)
      OBVIOUS
    <3>2. /\ HandOut(r) /\ job' = [job EXCEPT ![c] = Free]
          /\ job[c].source # None /\ profile = "native"
      BY <2>6, <3>1 DEF Sign, Complete
    <3>3. /\ Kept(job[c].source) /\ NotRenewed(job[c].source)
          /\ job[c].extra # None => Dated(job[c].extra)
      BY <2>1, <3>2 DEF JobOK
    <3>4. r # None => (r.outcome = "pass" => PassesHardLimits(r))
      BY <1>1, <2>2, <3>1, <3>2, <3>3, ResignedPasses
    <3>5. HardLimitsHold'
      BY <1>1, <3>2, <3>4, OneReceiptPasses
    <3> QED  BY <1>1, <2>1, <3>2, <3>5, EndedIsGuarded DEF LimitsInv
  <2>7. CASE Issue(c)
    <3>1. PICK w \in Worlds, later \in {Wall, Wall + 1} :
            HandOut(Scoped(job[c].request, job[c].policy, Wall, later, FundingReply(w, Wall),
                           UndertowReply(w, Scenario(job[c].request), Wall),
                           CorporateReply(w, Wall)))
      BY <2>7 DEF Issue
    <3>2. PICK r : r = Scoped(job[c].request, job[c].policy, Wall, later, FundingReply(w, Wall),
                              UndertowReply(w, Scenario(job[c].request), Wall),
                              CorporateReply(w, Wall))
      OBVIOUS
    <3>3. Timed(job[c].request) /\ Graded(job[c].policy) /\ profile = "scoped"
      BY <2>1, <2>7 DEF Issue, JobOK
    <3>4. r # None => (r.outcome = "pass" => PassesHardLimits(r))
      BY <1>1, <3>2, <3>3, ScopedPasses
    <3>5. HardLimitsHold'
      BY <1>1, <3>1, <3>2, <3>4, OneReceiptPasses
    <3>6. job' = [job EXCEPT ![c] = Free]
      BY <2>7 DEF Issue
    <3> QED  BY <1>1, <2>1, <3>5, <3>6, EndedIsGuarded DEF LimitsInv
  <2> QED  BY <1>4, <2>3, <2>4, <2>5, <2>6, <2>7
<1>5. ASSUME NEW c \in Callers, TimeOut(c)
      PROVE  LimitsInv'
  <2>1. job' = [job EXCEPT ![c] = Free] /\ UNCHANGED receipts
    BY <1>5 DEF TimeOut, Leave
  <2> QED  BY <1>1, <1>5, <2>1, EndedIsGuarded, SamePasses DEF LimitsInv
<1> QED  BY <1>3, <1>4, <1>5 DEF Issuing

LEMMA LimitsInductive == IInv /\ LimitsInv /\ [Next]_vars => LimitsInv'
<1> SUFFICES ASSUME IInv, LimitsInv, [Next]_vars PROVE LimitsInv'
  OBVIOUS
<1>1. CASE Claiming \/ Tick \/ SetBack \/ UNCHANGED vars
  <2>1. UNCHANGED <<profile, job, receipts>>
    BY <1>1 DEF Claiming, Verify, ReadClock, Consume, Refuse, Tick, SetBack, vars
  <2> QED  BY <2>1, SamePasses DEF LimitsInv, JobsGuarded, Guarded
<1>2. Issuing \/ Claiming \/ Tick \/ SetBack \/ UNCHANGED vars
  BY DEF Next, Issuing, Claiming
<1> QED  BY <1>1, <1>2, IssuingKeepsLimits

(***************************************************************************)
(* The theorems.                                                            *)
(***************************************************************************)

(* The variables keep their types, and the count of the load gate is the   *)
(* number of requests inside it, whichever way each of them ends           *)
(* (admission.RequestAdmission and the finally of app.py's middleware).    *)
THEOREM TypeCorrect == Spec => []TypeOK
<1>1. IInv /\ TypeInv => TypeOK
  BY DEF IInv, ReceiptsInv, Kept, ClockInv, TypeInv, ClocksInv, GateInv, CallersTyped, Inside,
         LanesInv, UsedInv, TypeOK
<1> QED  BY <1>1, Initially, TypesInitially, Inductive, TypesInductive, PTL DEF Spec

(* An order goes through on evidence that still stands when its receipt is *)
(* consumed: what verification found bounds the receipt's expiry, and the  *)
(* consumer looked at that expiry again (order_guard.before_order,         *)
(* trade_safety.verify_trade_safety_receipt, evidence.assess).             *)
THEOREM OrdersAreFresh == Spec => []SubmittedIsFresh
<1>1. IInv => SubmittedIsFresh
  <2> SUFFICES ASSUME IInv, NEW i \in DOMAIN orders,
                      NEW r, r = orders[i].receipt, NEW at, at = orders[i].at
               PROVE  /\ at < r.request.expires
                      /\ \A p \in Binding.policy.required :
                           /\ r.evidence[p].of = r.request /\ r.evidence[p].state \in Usable
                           /\ at < r.evidence[p].expires
                           /\ at - r.evidence[p].asOf <= Binding.policy.maxAge[p]
                      /\ profile = "native" =>
                           at < r.evidence["seiche"].retrieved + ReceiptTtl
                      /\ Cleared(r)
    BY DEF SubmittedIsFresh, Cleared
  <2>1. Cleared(r) /\ at \in Int /\ at < r.expires
    BY DEF IInv, OrdersInv, Let
  <2>2. at < r.request.expires
    BY <2>1 DEF Cleared
  <2>3. ASSUME NEW p \in Binding.policy.required
        PROVE  /\ r.evidence[p].of = r.request /\ r.evidence[p].state \in Usable
               /\ at < r.evidence[p].expires
               /\ at - r.evidence[p].asOf <= Binding.policy.maxAge[p]
    BY <2>1 DEF Cleared
  <2>4. profile = "native" => at < r.evidence["seiche"].retrieved + ReceiptTtl
    BY <2>1, FlowAssumption DEF Cleared, NotRenewed
  <2> QED  BY <2>1, <2>2, <2>3, <2>4
<1> QED  BY <1>1, Invariant, PTL

(* A receipt lets one order through: the consumer remembers it, or its     *)
(* clock, which it refuses to see go back, has passed the receipt's expiry *)
(* (order_guard.InMemoryReceiptConsumer.consume).                          *)
THEOREM ReceiptsAreUsedOnce == Spec => []ReceiptUsedOnce
<1>1. IInv => ReceiptUsedOnce
  BY DEF IInv, OrdersInv
<1> QED  BY <1>1, Invariant, PTL

(* No receipt passes that the hard limits would not have passed, whatever  *)
(* policy its caller wrote, however the envelope was tightened, and signed *)
(* anew or not: the guard's for the gateway and the operator behind it,    *)
(* the caps of the private profile for its own receipts                    *)
(* (policy_guard.PolicyAdmissionGuard.admit,                               *)
(* trade_safety._evaluate_decision,                                        *)
(* entry_profile.verify_entry_profile_receipt).                            *)
THEOREM NoneLooserThanTheHardLimits == Spec => []HardLimitsHold
<1>1. LimitsInv => HardLimitsHold
  BY DEF LimitsInv
<1> QED  BY <1>1, Initially, Inductive, LimitsInitially, LimitsInductive, PTL DEF Spec
=============================================================================
