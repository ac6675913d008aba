---------------------------- MODULE TradeSafety ----------------------------
(***************************************************************************)
(* The trade safety receipt: what a well-formed request, policy, evidence  *)
(* section and broker preview are, which decision a policy makes of them,  *)
(* how long a receipt may stand, and when one is issued and verified.      *)
(*                                                                         *)
(* Everything here is a pure operator over records.  A moment is an        *)
(* integer.  A digest is the thing it is the digest of, so "the hashes     *)
(* agree" is equality and a record nobody issued has no digest.  Names,    *)
(* identifiers, schemas and reason texts are left out.                     *)
(***************************************************************************)
EXTENDS Integers

CONSTANTS None,    \* a field the code leaves null
          MaxTtl   \* 3600: the longest validity any receipt may have

ASSUME TtlAssumption == MaxTtl \in Nat \ {0} /\ None \notin Int

Products     == {"seiche", "undertow", "liquilens"}
Indispensable == {"seiche", "undertow"}
Usable       == {"eligible", "context_only"}
UnsafeRights == {"restricted", "unknown", "blocked"}
RealRights   == {"allowed", "licensed"}

(* What a decision reads of a section: the funding regime, the size the    *)
(* exit was priced for, the rung it was priced at, the worst cost and the  *)
(* spread between venues.                                                  *)
NoFacts == [regime |-> None, size |-> None, rung |-> None, cost |-> None, spread |-> None]

Earliest(times) == CHOOSE t \in times : \A u \in times : t <= u

-----------------------------------------------------------------------------
(* Validation. *)

ValidRequest(q) ==
  /\ q.created < q.expires
  /\ q.mode \in {"observe", "paper", "live"}
  /\ q.mode = "paper" => "orders:paper" \in q.scope
  /\ q.mode = "live" => "orders:live" \in q.scope
  /\ q.notional > 0
  /\ q.limited <=> q.kind \in {"limit", "stop_limit"}
  /\ q.stopped <=> q.kind \in {"stop", "stop_limit"}

Limits(pol) == {pol.maxNotional, pol.maxCost, pol.maxSpread} \ {None}

ValidPolicy(pol) ==
  /\ Indispensable \subseteq pol.required /\ pol.required \subseteq Products
  /\ \A p \in Products : pol.maxAge[p] > 0
  /\ \A limit \in Limits(pol) : limit > 0

(* One product's section on its own: its clocks are in order, and what it  *)
(* claims to be is what its source data and its rights allow.              *)
ValidSection(p, s) ==
  /\ s.asOf # None /\ s.known # None => s.asOf <= s.known
  /\ s.known # None => s.known <= s.retrieved
  /\ s.expires # None => s.retrieved < s.expires
  /\ s.state = "not_applicable" =>
       s.asOf = None /\ s.known = None /\ s.expires = None /\ s.facts = NoFacts
  /\ s.state = "unavailable" => ~s.real /\ ~s.quote
  /\ s.state \in Usable => s.asOf # None /\ s.known # None /\ s.expires # None
  /\ s.rights \in UnsafeRights => s.state # "eligible"
  /\ s.quote => p = "undertow" /\ s.real
  /\ s.real => s.state = "eligible" /\ s.rights \in RealRights
  /\ p = "seiche" /\ s.state \in Usable => s.facts.regime # None
  /\ p = "undertow" /\ s.state \in Usable =>
       None \notin {s.facts.size, s.facts.rung, s.facts.cost, s.facts.spread}

ValidEvidence(ev) == \A p \in Products : ValidSection(p, ev[p])

ValidPreview(v) ==
  /\ v.expires # None => v.retrieved < v.expires
  /\ v.state = "verified" => v.expires # None
  /\ v.state = "not_applicable" => v.expires = None

-----------------------------------------------------------------------------
(* The decision: unavailable before hold before limit before pass. *)

(* A section the policy requires that cannot be relied on at a moment.     *)
Unreliable(p, s, q, pol, at) ==
  \/ s.state \notin Usable
  \/ s.rights \in UnsafeRights
  \/ at < s.known
  \/ at < s.retrieved
  \/ at >= s.expires
  \/ at - s.asOf > pol.maxAge[p]
  \/ q.mode = "live" /\ ~s.real

(* What a live order needs on top, and no receipt of this system has.      *)
LiveUnready(q, ev, v, at, keyed) ==
  /\ q.mode = "live"
  /\ \/ ~keyed
     \/ ~ev["undertow"].quote
     \/ v.state # "verified"
     \/ at < v.retrieved
     \/ at >= v.expires

(* The exit was priced for another size, or a limit has nothing to be held *)
(* against.                                                                *)
Unpriced(q, f, pol) ==
  \/ ~q.usd /\ Limits(pol) # {}
  \/ q.usd /\ f.size # None /\ f.size # q.notional
  \/ f.size # None /\ f.rung # None /\ f.rung # f.size
  \/ pol.maxCost # None /\ f.cost = None
  \/ pol.maxSpread # None /\ f.spread = None

Unavailable(q, ev, v, pol, at, keyed) ==
  \/ \E p \in pol.required : Unreliable(p, ev[p], q, pol, at)
  \/ LiveUnready(q, ev, v, at, keyed)
  \/ Unpriced(q, ev["undertow"].facts, pol)

Held(ev, pol) == ev["seiche"].facts.regime \in pol.hold

Exceeded(q, f, pol) ==
  \/ pol.maxNotional # None /\ q.usd /\ q.notional > pol.maxNotional
  \/ pol.maxCost # None /\ f.cost # None /\ f.cost > pol.maxCost
  \/ pol.maxSpread # None /\ f.spread # None /\ f.spread > pol.maxSpread

Outcome(q, ev, v, pol, at, keyed) ==
  IF Unavailable(q, ev, v, pol, at, keyed) THEN "unavailable"
  ELSE IF Held(ev, pol) THEN "hold"
  ELSE IF Exceeded(q, ev["undertow"].facts, pol) THEN "limit"
  ELSE "pass"

Enforced(q) == q.mode # "observe"

-----------------------------------------------------------------------------
(* The life of a receipt. *)

(* The last moments of what a decision other than "unavailable" rests on.  *)
Dependencies(q, ev, v, pol) ==
  UNION {{ev[p].expires, ev[p].asOf + pol.maxAge[p]} :
           p \in {r \in pol.required : ev[r].state \in Usable}}
  \cup (IF q.mode = "live" /\ v.state = "verified" THEN {v.expires} ELSE {})

Ceiling(q, ev, v, pol, at, ttl, outcome) ==
  Earliest({q.expires, at + ttl}
           \cup IF outcome = "unavailable" THEN {} ELSE Dependencies(q, ev, v, pol))

(* Every part of a receipt speaks of the one request.                      *)
Bound(q, ev, v, pol) ==
  /\ q.policy = pol.id
  /\ \A p \in Products : ev[p].of = q
  /\ v.of = q /\ v.account = q.account

(* The digests and the authority block are constants of the record.        *)
Receipt(q, ev, v, pol, at, issuer, ttl, keyed) ==
  LET outcome == Outcome(q, ev, v, pol, at, keyed) IN
  [request |-> q, evidence |-> ev, preview |-> v, policy |-> pol,
   evaluated |-> at, expires |-> Ceiling(q, ev, v, pol, at, ttl, outcome),
   outcome |-> outcome, enforced |-> Enforced(q), issuer |-> issuer, keyed |-> keyed]

(* A receipt that was issued, presented at a moment with the key or not.   *)
Verifies(r, at, keyed) ==
  /\ r.evaluated < r.expires /\ r.evaluated <= at /\ at < r.expires
  /\ ValidRequest(r.request) /\ ValidPolicy(r.policy)
  /\ ValidEvidence(r.evidence) /\ ValidPreview(r.preview)
  /\ r.request.created <= r.evaluated /\ r.evaluated < r.request.expires
  /\ Bound(r.request, r.evidence, r.preview, r.policy)
  /\ r.keyed = keyed
  /\ r.outcome = Outcome(r.request, r.evidence, r.preview, r.policy, r.evaluated, r.keyed)
  /\ r.enforced = Enforced(r.request)
  /\ r.expires <= Ceiling(r.request, r.evidence, r.preview, r.policy, r.evaluated,
                          MaxTtl, r.outcome)
  /\ r.request.mode = "live" /\ r.outcome = "pass" => r.keyed

Issuable(q, ev, v, pol, at, issuer, ttl, keyed) ==
  /\ ValidRequest(q) /\ ValidPolicy(pol) /\ ValidEvidence(ev) /\ ValidPreview(v)
  /\ 0 < ttl /\ ttl <= MaxTtl
  /\ q.created <= at /\ at < q.expires
  /\ Bound(q, ev, v, pol)
  /\ LET r == Receipt(q, ev, v, pol, at, issuer, ttl, keyed)
     IN  at < r.expires /\ Verifies(r, at, keyed)

(* The one account, policy and issuer an order gateway is configured for.  *)
InLane(r, lane) ==
  /\ r.request.account = lane.account /\ r.request.policy = lane.policy.id
  /\ r.policy = lane.policy /\ r.issuer = "operator"

-----------------------------------------------------------------------------
(* The server's own envelope around the policies callers write. *)

Within(limit, cap) == limit # None /\ limit <= cap

Admits(env, pol) ==
  /\ ValidPolicy(pol)
  /\ env.required \subseteq pol.required
  /\ env.hold \subseteq pol.hold
  /\ \A p \in Products : pol.maxAge[p] <= env.maxAge[p]
  /\ Within(pol.maxNotional, env.maxNotional)
  /\ Within(pol.maxCost, env.maxCost)
  /\ Within(pol.maxSpread, env.maxSpread)
  /\ env.allowed # {} => pol \in env.allowed

(* PolicyAdmissionConfig: an envelope may be tighter than the hard one,    *)
(* never looser.  allowed = {} stands for no allowlist.                    *)
TightensOnly(env, hard) ==
  /\ env.required \subseteq Products /\ hard.required \subseteq env.required
  /\ hard.hold \subseteq env.hold
  /\ \A p \in Products : 0 < env.maxAge[p] /\ env.maxAge[p] <= hard.maxAge[p]
  /\ 0 < env.maxNotional /\ env.maxNotional <= hard.maxNotional
  /\ 0 < env.maxCost /\ env.maxCost <= hard.maxCost
  /\ 0 < env.maxSpread /\ env.maxSpread <= hard.maxSpread
=============================================================================
