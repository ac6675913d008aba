---------------------------- MODULE EvidenceFlow ----------------------------
(***************************************************************************)
(* From the evidence sources to a paper order: the public gateway behind   *)
(* its load gate, the operator's private issuer, and the order gateway     *)
(* that lets a receipt through once.                                       *)
(*                                                                         *)
(*   now      real time, in seconds; slips says by how much the wall clock *)
(*            has been set back from it                                    *)
(*   profile  which issuer of receipts this is about: the public gateway,  *)
(*            or the one of the two that the operator configured           *)
(*   gate     the token bucket and in-flight count of the HTTP worker      *)
(*   job      what each assessment in progress is doing                    *)
(*   receipts the receipts that were handed out                            *)
(*   claim    what each thread at the order gateway is doing               *)
(*   consumer the process's replay guard                                   *)
(*   orders   history: the orders that were let through, in order          *)
(*                                                                         *)
(* An assessment is: begin (admit the request and start the fetches), then *)
(* one step that reads the clock when the answers are in and builds the    *)
(* receipt, and for the operator a last one that signs it anew.  A claim   *)
(* is three steps: verify at one reading of the clock, read the consumer's *)
(* clock, and enter the consumer's lock.                                   *)
(*                                                                         *)
(* A definition named Bug... is the definition after it with one plausible *)
(* mistake put in; nothing uses it here.                                   *)
(***************************************************************************)
EXTENDS NativeEvidence, Sequences, FiniteSets

CONSTANTS Visitors,      \* HTTP requests that may be at the public gateway
          Signers,       \* assessments the operator's issuer may have running
          Threads,       \* threads at the order gateway
          Shapes,        \* the orders agents ask about, their clocks left at 0
          Policies,      \* the policies visitors bring
          Bindings,      \* each profile's operator binding: account and policy
          Envelope,      \* the public gateway's policy guard
          HardEnvelope,  \* HARD_*: what no configuration may loosen
          ContextWanted, \* whether an institution's context is configured
          RequestTtl,    \* how long agents let a request live
          ReceiptTtl,    \* RECEIPT_TTL_SECONDS
          ScopedTtl,     \* ttl_seconds of the private profile's receipt
          Deadline,      \* request_timeout_seconds, MAX_ASSESSMENT_SECONDS
          Burst, Rate, MaxInFlight,  \* AdmissionLimits
          MaxEntries,    \* receipts the consumer remembers
          Worlds,        \* what the sources may have to say at a moment
          Start, MaxNow, MaxSlips, MaxReceipts        \* bounds

Profiles == {"public", "native", "scoped"}

ASSUME FlowAssumption ==
  /\ RequestTtl \in Nat \ {0}
  /\ ReceiptTtl \in Nat \ {0} /\ ReceiptTtl <= MaxTtl
  /\ ScopedTtl \in Nat \ {0} /\ ScopedTtl <= MaxTtl
  /\ Burst \in Nat \ {0} /\ Rate \in Nat \ {0} /\ MaxInFlight \in Nat \ {0}
  /\ MaxEntries \in Nat \ {0} /\ Deadline \in Nat
  /\ Start \in Nat /\ MaxNow \in Nat /\ Start <= MaxNow /\ MaxSlips \in Nat /\ MaxReceipts \in Nat
  /\ ContextWanted \in BOOLEAN
  /\ DOMAIN Bindings = Profiles
ASSUME OwnPolicyAssumption ==
  /\ TightensOnly(Envelope, HardEnvelope)
  /\ Admits(Envelope, Bindings["native"].policy)
  /\ ContextWanted <=> "liquilens" \in Bindings["native"].policy.required
  /\ Bindings["scoped"].policy.required = Products
ASSUME LimitsAssumption ==
  /\ \A env \in {Envelope, HardEnvelope, ScopedCaps} :
       {env.maxNotional, env.maxCost, env.maxSpread} \subseteq Int
  /\ \A env \in {Envelope, HardEnvelope} : env.maxAge \in [Products -> Int]
ASSUME CallersAssumption == IsFiniteSet(Visitors) /\ Visitors \cap Signers = {}
ASSUME DataAssumption ==
  /\ \A q \in Shapes : {"created", "expires", "notional"} \subseteq DOMAIN q /\ q.notional \in Nat
  /\ \A pol \in Policies \cup {Bindings[k].policy : k \in Profiles} :
       /\ pol.maxAge \in [Products -> Int]
       /\ Limits(pol) \subseteq Int
  /\ \A w \in Worlds : w.lag \in [Products -> Nat] /\ w.cost \in Nat

VARIABLES now, slips, profile, gate, job, receipts, claim, consumer, orders

clocks == <<now, slips>>
vars == <<now, slips, profile, gate, job, receipts, claim, consumer, orders>>

Wall == now - slips
Callers == Visitors \cup Signers
Binding == Bindings[profile]

Free == [at |-> "free", request |-> None, policy |-> None, since |-> 0,
         source |-> None, extra |-> None]
Idle == [at |-> "idle", receipt |-> None, clock |-> 0]

Init ==
  /\ now = Start /\ slips = 0
  /\ profile \in Profiles
  /\ gate = [tokens |-> Burst, inFlight |-> 0, updated |-> Start]
  /\ job = [c \in Callers |-> Free]
  /\ receipts = {}
  /\ claim = [t \in Threads |-> Idle]
  /\ consumer = [last |-> None, used |-> {}]
  /\ orders = <<>>

-----------------------------------------------------------------------------
(* What the sources answer at a moment when the world is w: nothing,       *)
(* something wrong, or figures of some age.                                *)

Reply(w, p, fields) ==
  IF p \in w.silent THEN None
  ELSE [fields EXCEPT !.flaws = IF p \in w.wrong THEN {"digest", "identity", "history"} ELSE {}]

SeicheReply(w, t) ==
  Reply(w, "seiche", [flaws |-> {}, evidence |-> t - w.lag["seiche"], snapshot |-> t,
                      evaluated |-> t, regime |-> w.regime])
UndertowReply(w, q, t) ==
  Reply(w, "undertow",
    [flaws |-> {}, of |-> q, oldest |-> t - w.lag["undertow"],
     observation |-> t - w.lag["undertow"], known |-> t - w.lag["undertow"],
     collected |-> t, expires |-> t - w.lag["undertow"] + ObservationAge,
     reviewed |-> 0, validFrom |-> 0, validUntil |-> MaxNow + 1,
     size |-> q.notional, rung |-> q.notional, cost |-> w.cost, spread |-> w.cost])
LiquilensReply(w, t) == Reply(w, "liquilens", [flaws |-> {}, periodEnd |-> t - w.lag["liquilens"]])
FundingReply(w, t) ==
  Reply(w, "seiche", [flaws |-> {}, day |-> t - w.lag["seiche"], captured |-> t,
                      pressure |-> w.pressure])
CorporateReply(w, t) ==
  Reply(w, "liquilens", [flaws |-> {}, spreadDay |-> t, rolloverDay |-> t - w.lag["liquilens"],
                         calibrated |-> 0, review |-> MaxNow + 1])

-----------------------------------------------------------------------------
(* The load gate: one token bucket and one in-flight count, under a lock.  *)

Smaller(a, b) == IF a < b THEN a ELSE b
Refilled == [gate EXCEPT !.tokens = Smaller(Burst, @ + (now - gate.updated) * Rate),
                         !.updated = now]

(* A POST arrives; the agent stamped its request by its own clock.         *)
Arrive(c) ==
  /\ profile = "public" /\ job[c] = Free /\ Cardinality(receipts) < MaxReceipts
  /\ \E shape \in Shapes, pol \in Policies :
       LET q == [shape EXCEPT !.created = Wall, !.expires = Wall + RequestTtl] IN
       IF gate.inFlight < MaxInFlight /\ Refilled.tokens >= 1
       THEN /\ gate' = [Refilled EXCEPT !.tokens = @ - 1, !.inFlight = @ + 1]
            /\ job' = [job EXCEPT ![c] = [Free EXCEPT !.at = "inside", !.request = q,
                                                      !.policy = pol, !.since = now]]
       ELSE gate' = Refilled /\ UNCHANGED job
  /\ UNCHANGED <<clocks, profile, receipts, claim, consumer, orders>>

(* The finally of the middleware: whatever ended the request.              *)
BugNoRelease(c) == job' = [job EXCEPT ![c] = Free] /\ UNCHANGED gate
Leave(c) ==
  /\ job' = [job EXCEPT ![c] = Free]
  /\ gate' = [gate EXCEPT !.inFlight = @ - 1]

-----------------------------------------------------------------------------
(* The public gateway. *)

(* _admit: before anything leaves the process.                             *)
AdmittedBy(env, q, pol, at) ==
  /\ ValidRequest(q) /\ Admits(env, pol)
  /\ q.policy = pol.id
  /\ q.created <= at /\ at < q.expires

(* The body was read whole and is a strict JSON object.                    *)
Begin(c) ==
  /\ job[c].at = "inside"
  /\ AdmittedBy(Envelope, job[c].request, job[c].policy, Wall)
  /\ job' = [job EXCEPT ![c].at = "fetching"]
  /\ UNCHANGED <<clocks, profile, gate, receipts, claim, consumer, orders>>

(* It was not, or the request or its policy is refused, or the client left.*)
TurnAway(c) ==
  /\ job[c].at = "inside"
  /\ Leave(c)
  /\ UNCHANGED <<clocks, profile, receipts, claim, consumer, orders>>

(* The sandbox has no broker.                                              *)
NoPreview(q, at) ==
  [state |-> "not_applicable", of |-> q, account |-> q.account,
   retrieved |-> at, expires |-> None]

(* The three sections of a request, retrieved at one moment.               *)
Gathered(q, pol, at, seiche, undertow, liquilens) ==
  [p \in Products |->
     CASE p = "seiche"    -> SeicheSection(seiche, q, at, pol.maxAge[p])
       [] p = "undertow"  -> UndertowSection(undertow, q, at, pol.maxAge[p])
       [] p = "liquilens" -> IF q.slug THEN LiquilensSection(liquilens, q, at)
                                       ELSE NotApplicableSection(q, at)]

(* assess, once the answers are in: the receipt of one set of answers, or  *)
(* None when it refuses.                                                   *)
Assessed(q, pol, at, seiche, undertow, liquilens) ==
  LET ev == Gathered(q, pol, at, seiche, undertow, liquilens)
      v  == NoPreview(q, at)
  IN  IF at < q.expires /\ Issuable(q, ev, v, pol, at, "gateway", ReceiptTtl, FALSE)
      THEN Receipt(q, ev, v, pol, at, "gateway", ReceiptTtl, FALSE)
      ELSE None

Assessment(w, q, pol, at) ==
  Assessed(q, pol, at, SeicheReply(w, at),
           IF Priceable(q) THEN UndertowReply(w, q, at) ELSE None,
           IF q.slug THEN LiquilensReply(w, at) ELSE None)

HandOut(r) == receipts' = receipts \cup ({r} \ {None})

Answer(c) ==
  /\ c \in Visitors /\ job[c].at = "fetching"
  /\ \E w \in Worlds : HandOut(Assessment(w, job[c].request, job[c].policy, Wall))
  /\ Leave(c)
  /\ UNCHANGED <<clocks, profile, claim, consumer, orders>>

(* Both of the operator's fetches are back; nothing is awaited after that. *)
Complete(c) == job[c].source # None /\ (ContextWanted => job[c].extra # None)

(* asyncio.timeout: the middleware answers for the request, or the         *)
(* operator's assessment is abandoned.                                     *)
TimeOut(c) ==
  /\ job[c].at # "free" /\ now >= job[c].since + Deadline /\ ~Complete(c)
  /\ IF c \in Visitors THEN Leave(c) ELSE job' = [job EXCEPT ![c] = Free] /\ UNCHANGED gate
  /\ UNCHANGED <<clocks, profile, receipts, claim, consumer, orders>>

-----------------------------------------------------------------------------
(* The operator's issuers. *)

(* OperatorEvidenceService: paper only, its own account and policy, and an *)
(* institution's context is never named by the order.                      *)
Acceptable(q) ==
  CASE profile = "public" -> FALSE
    [] profile = "native" ->
         /\ q.mode = "paper" /\ "orders:live" \notin q.scope
         /\ q.account = Binding.account
         /\ ContextWanted => ~q.slug
         /\ AdmittedBy([Envelope EXCEPT !.allowed = {Binding.policy}], q, Binding.policy, Wall)
    [] profile = "scoped" ->
         /\ ValidRequest(q) /\ ScopedOrder(q)
         /\ q.account = Binding.account /\ q.policy = Binding.policy.id
         /\ q.created <= Wall /\ Wall < q.expires

Ask(c) ==
  /\ c \in Signers /\ job[c] = Free /\ Cardinality(receipts) < MaxReceipts
  /\ \E shape \in Shapes :
       LET q == [shape EXCEPT !.created = Wall, !.expires = Wall + RequestTtl] IN
       /\ Acceptable(q)
       /\ job' = [job EXCEPT ![c] = [Free EXCEPT !.at = "fetching", !.request = q,
                                     !.policy = Binding.policy, !.since = now]]
  /\ UNCHANGED <<clocks, profile, gate, receipts, claim, consumer, orders>>

(* The gateway's own unsigned assessment, made in the operator's process.  *)
Source(c) ==
  /\ c \in Signers /\ profile = "native"
  /\ job[c].at = "fetching" /\ job[c].source = None
  /\ \E w \in Worlds :
       LET r == Assessment(w, job[c].request, job[c].policy, Wall) IN
       job' = [job EXCEPT ![c] = IF r = None THEN Free ELSE [@ EXCEPT !.source = r]]
  /\ UNCHANGED <<clocks, profile, gate, receipts, claim, consumer, orders>>

(* The one institution source, fetched at the same time.                   *)
Context(c) ==
  /\ c \in Signers /\ profile = "native" /\ ContextWanted
  /\ job[c].at = "fetching" /\ job[c].extra = None
  /\ \E w \in Worlds :
       job' = [job EXCEPT ![c].extra =
                 LiquilensSection(LiquilensReply(w, Wall), job[c].request, Wall)]
  /\ UNCHANGED <<clocks, profile, gate, receipts, claim, consumer, orders>>

(* The operator's own receipt over the gateway's evidence: signed, and     *)
(* never for longer than the source had left.                              *)
BugRenewed(r, at) == ReceiptTtl
Remaining(r, at) == Smaller(ReceiptTtl, r.expires - at)

Resigned(r, extra, at) ==
  LET ev == IF extra = None THEN r.evidence ELSE [r.evidence EXCEPT !["liquilens"] = extra]
      ttl == Remaining(r, at)
  IN  IF /\ Verifies(r, at, FALSE)
         /\ extra # None => r.evidence["liquilens"].state = "not_applicable"
         /\ r.expires - at >= 1
         /\ Issuable(r.request, ev, r.preview, r.policy, at, "operator", ttl, TRUE)
      THEN Receipt(r.request, ev, r.preview, r.policy, at, "operator", ttl, TRUE)
      ELSE None

Sign(c) ==
  /\ c \in Signers /\ profile = "native" /\ Complete(c)
  /\ HandOut(Resigned(job[c].source, job[c].extra, Wall))
  /\ job' = [job EXCEPT ![c] = Free]
  /\ UNCHANGED <<clocks, profile, gate, claim, consumer, orders>>

(* ScopedPaperEvidenceService: three sections at one moment, one receipt,  *)
(* and a passing one must be fit for submission at the next reading.       *)
Scoped(q, pol, at, later, funding, undertow, corporate) ==
  LET ev == [p \in Products |->
               CASE p = "seiche"    -> FundingSection(funding, q, at)
                 [] p = "undertow"  -> ExitSection(undertow, q, at)
                 [] p = "liquilens" -> CorporateSection(corporate, q, at)]
      v  == NoPreview(q, at)
      r  == Receipt(q, ev, v, pol, at, "operator", ScopedTtl, TRUE)
  IN  IF /\ at < q.expires
         /\ Issuable(q, ev, v, pol, at, "operator", ScopedTtl, TRUE)
         /\ r.outcome = "pass" => ScopedReceipt(r, later, Binding)
      THEN r ELSE None

Issue(c) ==
  /\ c \in Signers /\ profile = "scoped" /\ job[c].at = "fetching"
  /\ \E w \in Worlds, later \in {Wall, Wall + 1} :
       HandOut(Scoped(job[c].request, job[c].policy, Wall, later, FundingReply(w, Wall),
                      UndertowReply(w, Scenario(job[c].request), Wall),
                      CorporateReply(w, Wall)))
  /\ job' = [job EXCEPT ![c] = Free]
  /\ UNCHANGED <<clocks, profile, gate, claim, consumer, orders>>

-----------------------------------------------------------------------------
(* The order gateway. *)

(* before_order, up to the claim: a verified, signed, enforced pass for    *)
(* exactly this request, in this lane, under this policy.                  *)
Authorizes(r, q, at) ==
  /\ ValidRequest(q) /\ q.mode = "paper"
  /\ Verifies(r, at, TRUE)
  /\ r.request = q /\ InLane(r, Binding)
  /\ r.enforced /\ r.outcome = "pass"

(* What an agent may try with a receipt: the order, or one of another size.*)
Proposals(r) == {[r.request EXCEPT !.notional = n] : n \in Rungs}

Verify(t) ==
  /\ claim[t].at = "idle"
  /\ \E r \in receipts : \E q \in Proposals(r) :
       /\ Authorizes(r, q, Wall)
       /\ claim' = [claim EXCEPT ![t] = [@ EXCEPT !.at = "verified", !.receipt = r]]
  /\ UNCHANGED <<clocks, profile, gate, job, receipts, consumer, orders>>

(* The consumer reads its clock before it takes its lock.                  *)
ReadClock(t) ==
  /\ claim[t].at = "verified"
  /\ claim' = [claim EXCEPT ![t].at = "claiming", ![t].clock = Wall]
  /\ UNCHANGED <<clocks, profile, gate, job, receipts, consumer, orders>>

(* A clock that went back is refused before anything is forgotten.         *)
BugNoRegression(clock) == FALSE
Regressed(clock) == consumer.last # None /\ clock < consumer.last
Remembered(clock) == {r \in consumer.used : r.expires > clock}
Claimable(r, clock) ==
  /\ clock < r.expires /\ r \notin Remembered(clock)
  /\ Cardinality(Remembered(clock)) < MaxEntries

Consume(t) ==
  LET r == claim[t].receipt  clock == claim[t].clock IN
  /\ claim[t].at = "claiming" /\ ~Regressed(clock)
  /\ IF Claimable(r, clock)
     THEN /\ consumer' = [last |-> clock, used |-> Remembered(clock) \cup {r}]
          /\ orders' = Append(orders, [receipt |-> r, at |-> clock])
     ELSE /\ consumer' = [last |-> clock, used |-> Remembered(clock)]
          /\ UNCHANGED orders
  /\ claim' = [claim EXCEPT ![t] = Idle]
  /\ UNCHANGED <<clocks, profile, gate, job, receipts>>

Refuse(t) ==
  /\ claim[t].at = "claiming" /\ Regressed(claim[t].clock)
  /\ claim' = [claim EXCEPT ![t] = Idle]
  /\ UNCHANGED <<clocks, profile, gate, job, receipts, consumer, orders>>

-----------------------------------------------------------------------------
Tick ==
  /\ now < MaxNow
  /\ now' = now + 1
  /\ UNCHANGED <<slips, profile, gate, job, receipts, claim, consumer, orders>>

SetBack ==
  /\ slips < MaxSlips
  /\ slips' = slips + 1
  /\ UNCHANGED <<now, profile, gate, job, receipts, claim, consumer, orders>>

Next ==
  \/ \E c \in Visitors : Arrive(c) \/ Begin(c) \/ TurnAway(c) \/ Answer(c)
  \/ \E c \in Signers : Ask(c) \/ Source(c) \/ Context(c) \/ Sign(c) \/ Issue(c)
  \/ \E c \in Callers : TimeOut(c)
  \/ \E t \in Threads : Verify(t) \/ ReadClock(t) \/ Consume(t) \/ Refuse(t)
  \/ Tick \/ SetBack

Spec == Init /\ [][Next]_vars

-----------------------------------------------------------------------------
(* Types; and the in-flight count of the load gate is the number of        *)
(* requests inside it, whichever way each of them ends.                    *)
TypeOK ==
  /\ now \in Start..MaxNow /\ slips \in 0..MaxSlips
  /\ profile \in Profiles
  /\ gate.tokens \in 0..Burst /\ gate.updated \in Start..now
  /\ gate.inFlight = Cardinality({c \in Visitors : job[c].at # "free"})
  /\ gate.inFlight \in 0..MaxInFlight
  /\ \A c \in Callers : job[c].at \in {"free", "inside", "fetching"}
  /\ \A t \in Threads : claim[t].at \in {"idle", "verified", "claiming"}
  /\ \A r \in receipts : r.evaluated < r.expires
  /\ Cardinality(consumer.used) <= MaxEntries

(* An order goes through on evidence that still stands when the order's    *)
(* receipt is consumed, and not only when it was evaluated or verified: no *)
(* section has expired or outlived the policy's age, the request is still  *)
(* alive, the decision is one the operator's policy makes of it, and       *)
(* signing the gateway's evidence anew has not lengthened its life.        *)
SubmittedIsFresh ==
  \A i \in DOMAIN orders :
    LET r == orders[i].receipt  at == orders[i].at
        ev == r.evidence  f == r.evidence["undertow"].facts  pol == Binding.policy IN
    /\ r.request.mode = "paper" /\ r.request.account = Binding.account
    /\ r.policy = pol /\ r.issuer = "operator"
    /\ at < r.request.expires
    /\ \A p \in pol.required :
         /\ ev[p].of = r.request /\ ev[p].state \in Usable
         /\ at < ev[p].expires
         /\ at - ev[p].asOf <= pol.maxAge[p]
    /\ ev["seiche"].facts.regime \notin pol.hold
    /\ f.size = r.request.notional
    /\ pol.maxNotional # None => r.request.notional <= pol.maxNotional
    /\ pol.maxCost # None => f.cost <= pol.maxCost
    /\ pol.maxSpread # None => f.spread <= pol.maxSpread
    /\ profile = "native" => at < ev["seiche"].retrieved + ReceiptTtl

(* A receipt lets one order through, however the threads that present it   *)
(* read their clocks before the consumer's lock, and although the consumer *)
(* forgets receipts once they have expired and the clock may be set back.  *)
ReceiptUsedOnce ==
  \A i, j \in DOMAIN orders : i # j => orders[i].receipt # orders[j].receipt
=============================================================================
