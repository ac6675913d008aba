---------------------------- MODULE PaperCopilot ----------------------------
(***************************************************************************)
(* One paper account and the two programs that may own it in turn: the     *)
(* one-shot runner (liquilens-paper once, reconcile) and the agent host,   *)
(* which takes proposals over HTTP.  They share the state directory: its   *)
(* flock, the audit database and the submission journal.                   *)
(*                                                                         *)
(*   owner     who holds the flock on operator.lock                        *)
(*   busy, closing   the agent service's lane and its shutdown             *)
(*   preflight the agent service's last account check: none, at most ten   *)
(*             seconds old, or older                                       *)
(*   job       what the runner and each HTTP call are doing                *)
(*   stop      the STOP file is present                                    *)
(*   day       the UTC day of the wall clock, which may be set back        *)
(*   slot      intents: the one row a bar or a proposal ever gets          *)
(*   bound     agent_assessments: the request a proposal was given         *)
(*   seen      order_observations: the last outcome recorded of a request  *)
(*   paper, placed   the submission journal and the broker's orders, by    *)
(*             what PaperOrder promises of them                            *)
(*   market    how far the broker got with each request's order            *)
(*   crashes   process deaths so far                                       *)
(*                                                                         *)
(* A network read may fail, and any check may refuse, wherever the code    *)
(* has one: GiveUp.  A definition named Bug... is the definition after it  *)
(* with one plausible mistake put in; nothing uses it here.                *)
(***************************************************************************)
EXTENDS Naturals, FiniteSets

CONSTANTS Bars,          \* completed bars the strategy may act on
          Proposals,     \* intent_ids of external agents; no bar's key is one
          Sells,         \* the proposals that sell
          Requests,      \* canonical requests
          Calls,         \* HTTP calls to the agent host
          Runner,        \* the one-shot command
          None,          \* no request, intent, proposal or owner
          MaxDaily,      \* max_daily_attempts
          ReservedExits, \* reserved_daily_exit_attempts
          MaxDay,        \* bound: the latest day
          MaxFill,       \* bound: fills of an order
          MaxCrashes     \* bound: process deaths

Intents == Bars \cup Proposals
Workers == Calls \cup {Runner}

ASSUME NamesAssumption ==
  /\ Bars \cap Proposals = {} /\ Sells \subseteq Proposals
  /\ Runner \notin Calls
  /\ None \notin Intents \cup Requests \cup Workers
  /\ "agent" \notin {None, Runner}
ASSUME BudgetAssumption ==
  /\ MaxDaily \in Nat \ {0} /\ ReservedExits \in 0..MaxDaily
  /\ MaxDay \in Nat /\ MaxFill \in Nat /\ MaxCrashes \in Nat
ASSUME FiniteAssumption == IsFiniteSet(Intents)

VARIABLES owner, busy, closing, preflight, job, stop, day,
          slot, bound, seen, paper, placed, market, crashes

Paper == INSTANCE PaperOrder WITH status <- paper

lane    == <<owner, busy, closing, preflight>>
tables  == <<slot, bound, seen>>
broker  == <<paper, placed, market>>
world   == <<stop, day, crashes>>
vars    == <<lane, job, tables, broker, world>>

-----------------------------------------------------------------------------
(* Data. *)

Outcomes == [done : BOOLEAN, filled : 0..MaxFill]
Open     == [done |-> FALSE, filled |-> 0]

Observations == [known : BOOLEAN, done : BOOLEAN, filled : 0..MaxFill, on : 0..MaxDay]
Unseen       == [known |-> FALSE, done |-> FALSE, filled |-> 0, on |-> 0]

Slots == [request : Requests \cup {None}, side : {"buy", "sell"}, day : 0..MaxDay]
Empty == [request |-> None, side |-> "buy", day |-> 0]

(* Both programs end an order with the same steps, from reserving on.      *)
OrderSteps == {"reserving", "entering", "verifying", "cleared", "claimed",
               "gated", "calling"}
Steps == {"idle", "recovering", "observing", "deciding", "rechecking",
          "assessing", "checking", "snapshotting", "ending"} \cup OrderSteps

Jobs == [at : Steps, todo : SUBSET Requests, trade : BOOLEAN, heard : BOOLEAN,
         intent : Intents \cup {None}, request : Requests \cup {None},
         side : {"buy", "sell"}]
Idle == [at |-> "idle", todo |-> {}, trade |-> FALSE, heard |-> TRUE,
         intent |-> None, request |-> None, side |-> "buy"]

Reserved(q) == \E i \in Intents : slot[i].request = q

(* pending_intents: reserved, and no terminal outcome on record.           *)
Pending    == {q \in Requests : Reserved(q) /\ ~seen[q].done}
(* recovery_candidates: claimed, or attempted and not resolved.            *)
Candidates == {q \in Requests : paper[q] \in {"claimed", "attempted"}}
(* A request nothing durable knows of: a new request_id.                   *)
Fresh      == {q \in Requests : /\ paper[q] = "free" /\ ~Reserved(q)
                                /\ \A p \in Proposals : bound[p] # q
                                /\ \A w \in Workers : job[w].request # q}

Init ==
  /\ owner = None /\ busy = FALSE /\ closing = FALSE /\ preflight = "none"
  /\ job = [w \in Workers |-> Idle]
  /\ stop = FALSE /\ day = 0 /\ crashes = 0
  /\ slot = [i \in Intents |-> Empty]
  /\ bound = [p \in Proposals |-> None]
  /\ seen = [q \in Requests |-> Unseen]
  /\ Paper!Init
  /\ market = [q \in Requests |-> Open]

-----------------------------------------------------------------------------
(* Helpers. *)

At(w, s)   == job[w].at = s
Move(w, s) == job' = [job EXCEPT ![w].at = s]

(* The order a worker is concerned with has this one step left to take.    *)
Checked(w, q, s) == job' = [job EXCEPT ![w].todo = @ \ {q}, ![w].at = s]

(* _stopped, or enabled with a preflight of ten seconds at most.           *)
Allowed(w) == ~stop /\ (w # Runner => preflight = "fresh")

(* reserve: the day's budget, the primary key and the unique request.      *)
Used(d)    == {i \in Intents : slot[i].request # None /\ slot[i].day = d}
Entries(d) == {i \in Used(d) : slot[i].side # "sell"}

BugExitsNotKept(i, q, side) ==
  /\ Cardinality(Used(day)) < MaxDaily
  /\ slot[i].request = None
  /\ ~Reserved(q)
BugDailyBudget(i, q, side) ==
  /\ Cardinality(Used(day)) < MaxDaily
  /\ side # "sell" => Cardinality(Entries(day)) + ReservedExits < MaxDaily
  /\ ~Reserved(q)
CanReserve(i, q, side) ==
  /\ Cardinality(Used(day)) < MaxDaily
  /\ side # "sell" => Cardinality(Entries(day)) + ReservedExits < MaxDaily
  /\ slot[i].request = None
  /\ ~Reserved(q)

(* What the broker may say of an order: its outcome, or an earlier one.    *)
Views(q) == {[done |-> FALSE, filled |-> f] : f \in 0..market[q].filled}
            \cup {market[q]}

(* order_observation: clock, terminal state and fills do not regress.      *)
Acceptable(q, o) ==
  /\ Reserved(q)
  /\ seen[q].known =>
       /\ day >= seen[q].on
       /\ seen[q].done => o.done = seen[q].done /\ o.filled = seen[q].filled
       /\ o.filled >= seen[q].filled

-----------------------------------------------------------------------------
(* Taking the lock, and a call. *)

(* once and reconcile; STOP does not keep anyone from reconciling.         *)
StartRunner(trade) ==
  /\ owner = None
  /\ trade => ~stop
  /\ owner' = Runner
  /\ job' = [job EXCEPT ![Runner] =
               [Idle EXCEPT !.at = "recovering", !.trade = trade, !.todo = Candidates]]
  /\ UNCHANGED <<busy, closing, preflight, tables, broker, world>>

StartService ==
  /\ owner = None
  /\ owner' = "agent"
  /\ UNCHANGED <<busy, closing, preflight, job, tables, broker, world>>

(* run: one call at a time, and none once the service is closed.           *)
Accept(c, begun) ==
  /\ owner = "agent" /\ ~closing /\ ~busy /\ At(c, "idle")
  /\ busy' = TRUE
  /\ job' = [job EXCEPT ![c] = begun]
  /\ UNCHANGED <<owner, closing, preflight, tables, broker, world>>

(* An assessment of a proposal that has one returns it, and does no more.  *)
StartAssess(c, p, q) ==
  /\ bound[p] = None /\ q \in Fresh
  /\ Accept(c, [Idle EXCEPT !.at = "assessing", !.intent = p, !.request = q])

(* A request in the journal or reserved is answered with its status.       *)
StartSubmit(c, p) ==
  LET q == bound[p] IN
  /\ q # None /\ paper[q] = "free" /\ ~Reserved(q) /\ ~stop
  /\ Accept(c, [Idle EXCEPT !.at = "checking", !.intent = p, !.request = q,
                            !.side = IF p \in Sells THEN "sell" ELSE "buy"])

StartReconcile(c, p) ==
  LET q == bound[p] IN
  /\ q # None /\ paper[q] \in {"claimed", "attempted", "known"}
  /\ Accept(c, [Idle EXCEPT !.at = "recovering", !.request = q, !.todo = {q}])

-----------------------------------------------------------------------------
(* Reconciliation, then the outcomes on record. *)

(* adapter.reconcile: a claim without an attempt is void; an attempt is    *)
(* resolved when the broker has the order, and stays when it has not.      *)
Recover(w, q) ==
  /\ At(w, "recovering") /\ q \in job[w].todo
  /\ \/ Paper!Void(q)
     \/ Paper!Learn(q)
     \/ paper[q] = "known" /\ UNCHANGED <<paper, placed>>
  /\ Checked(w, q, "recovering")
  /\ UNCHANGED <<lane, tables, market, world>>

(* The runner asks for every pending order, a call for its own; nothing    *)
(* is asked of a request that was never sent.                              *)
Recovered(w) ==
  /\ At(w, "recovering") /\ job[w].todo = {}
  /\ w = Runner /\ job[w].trade => Candidates = {}
  /\ job' = [job EXCEPT ![w].at = "observing",
               ![w].todo = IF w = Runner THEN Pending
                           ELSE {q \in {job[w].request} : Reserved(q) /\ paper[q] # "void"}]
  /\ UNCHANGED <<lane, tables, broker, world>>

BugAbsenceIsFinal(w, q) ==
  /\ At(w, "observing") /\ q \in job[w].todo
  /\ \E o \in IF q \in placed THEN Views(q) ELSE {[Open EXCEPT !.done = TRUE]} :
       /\ Acceptable(q, o)
       /\ seen' = [seen EXCEPT ![q] =
            [known |-> TRUE, done |-> o.done, filled |-> o.filled, on |-> day]]
  /\ Checked(w, q, "observing")
  /\ UNCHANGED <<lane, slot, bound, broker, world>>
Observe(w, q) ==
  /\ At(w, "observing") /\ q \in job[w].todo
  /\ q \in placed
  /\ \E o \in Views(q) :
       /\ Acceptable(q, o)
       /\ seen' = [seen EXCEPT ![q] =
            [known |-> TRUE, done |-> o.done, filled |-> o.filled, on |-> day]]
  /\ Checked(w, q, "observing")
  /\ UNCHANGED <<lane, slot, bound, broker, world>>

(* A known order that is not over outranks an empty list of open orders.   *)
BugPendingIgnored == TRUE
NothingPending == Pending = {}

Observed(w) ==
  /\ At(w, "observing") /\ job[w].todo = {}
  /\ job[w].trade => NothingPending
  /\ Move(w, IF job[w].trade THEN "deciding" ELSE "ending")
  /\ UNCHANGED <<lane, tables, broker, world>>

-----------------------------------------------------------------------------
(* The runner's own decision. *)

(* propose, request_for and the evidence assessment.                       *)
Decide(i, q, side) ==
  /\ At(Runner, "deciding")
  /\ q \in Fresh
  /\ job' = [job EXCEPT ![Runner].at = "rechecking", ![Runner].intent = i,
                        ![Runner].request = q, ![Runner].side = side]
  /\ UNCHANGED <<lane, tables, broker, world>>

(* A second snapshot gives the same decision, and there is no STOP.        *)
Recheck ==
  /\ At(Runner, "rechecking")
  /\ ~stop
  /\ Move(Runner, "reserving")
  /\ UNCHANGED <<lane, tables, broker, world>>

-----------------------------------------------------------------------------
(* An agent's proposal. *)

(* The assessment is bound to the intent_id before anyone hears of it.     *)
Assess(c) ==
  /\ At(c, "assessing")
  /\ bound' = [bound EXCEPT ![job[c].intent] = job[c].request]
  /\ Move(c, "ending")
  /\ UNCHANGED <<lane, slot, seen, broker, world>>

CheckLane(c) ==
  /\ At(c, "checking")
  /\ Candidates = {} /\ NothingPending
  /\ Move(c, "snapshotting")
  /\ UNCHANGED <<lane, tables, broker, world>>

(* The account's own list of open orders may lag: it refuses, no more.     *)
Snapshot(c) ==
  /\ At(c, "snapshotting")
  /\ preflight' = "fresh"
  /\ Move(c, "reserving")
  /\ UNCHANGED <<owner, busy, closing, tables, broker, world>>

-----------------------------------------------------------------------------
(* One order, from its reservation to the broker. *)

Reserve(w) ==
  LET j == job[w] IN
  /\ At(w, "reserving")
  /\ w # Runner => Allowed(w)
  /\ CanReserve(j.intent, j.request, j.side)
  /\ slot' = [slot EXCEPT ![j.intent] =
                [request |-> j.request, side |-> j.side, day |-> day]]
  /\ Move(w, "entering")
  /\ UNCHANGED <<lane, bound, seen, broker, world>>

(* Before the account lookup and after it, and once more after the claim;  *)
(* an agent's order is checked against the journal where the runner's is   *)
(* checked against STOP.                                                   *)
Passed == [entering |-> "verifying", verifying |-> "cleared", claimed |-> "gated"]

Pass(w) ==
  /\ job[w].at \in DOMAIN Passed
  /\ IF w # Runner /\ At(w, "verifying") THEN Candidates = {} ELSE Allowed(w)
  /\ Move(w, Passed[job[w].at])
  /\ UNCHANGED <<lane, tables, broker, world>>

Claim(w) ==
  /\ At(w, "cleared")
  /\ Paper!Claim(job[w].request)
  /\ Move(w, "claimed")
  /\ UNCHANGED <<lane, tables, market, world>>

Attempt(w) ==
  /\ At(w, "gated")
  /\ Paper!Attempt(job[w].request)
  /\ Move(w, "calling")
  /\ UNCHANGED <<lane, tables, market, world>>

(* The broker's answer, recorded; without one the attempt stays uncertain. *)
Answer(w) ==
  /\ At(w, "calling")
  /\ Paper!Learn(job[w].request)
  /\ Move(w, "ending")
  /\ UNCHANGED <<lane, tables, market, world>>

-----------------------------------------------------------------------------
(* The end of a call, of the runner and of the service. *)

(* A failed read, a refusal or an uncertain answer ends the work begun.    *)
BugFreesTheSlot(w) ==
  /\ job[w].at \notin {"idle", "ending"}
  /\ Move(w, "ending")
  /\ slot' = [i \in Intents |-> IF i = job[w].intent /\ slot[i].request = job[w].request
                                THEN Empty ELSE slot[i]]
  /\ UNCHANGED <<lane, bound, seen, broker, world>>
GiveUp(w) ==
  /\ job[w].at \notin {"idle", "ending"}
  /\ Move(w, "ending")
  /\ UNCHANGED <<lane, tables, broker, world>>

Finish(w) ==
  /\ At(w, "ending")
  /\ job' = [job EXCEPT ![w] = Idle]
  /\ IF w = Runner
     THEN owner' = None /\ UNCHANGED <<busy, preflight>>
     ELSE busy' = FALSE /\ preflight' = "none" /\ UNCHANGED owner
  /\ UNCHANGED <<closing, tables, broker, world>>

(* The HTTP client goes away; the work it asked for is shielded.           *)
BugDisconnectFrees(c) ==
  /\ ~At(c, "idle") /\ job[c].heard
  /\ job' = [job EXCEPT ![c].heard = FALSE]
  /\ busy' = FALSE
  /\ UNCHANGED <<owner, closing, preflight, tables, broker, world>>
Disconnect(c) ==
  /\ ~At(c, "idle") /\ job[c].heard
  /\ job' = [job EXCEPT ![c].heard = FALSE]
  /\ UNCHANGED <<lane, tables, broker, world>>

Close ==
  /\ owner = "agent" /\ ~closing
  /\ closing' = TRUE
  /\ UNCHANGED <<owner, busy, preflight, job, tables, broker, world>>

(* close waits for the call, then the lock goes.                           *)
CloseEnds ==
  /\ closing /\ \A c \in Calls : At(c, "idle")
  /\ owner' = None /\ closing' = FALSE
  /\ UNCHANGED <<busy, preflight, job, tables, broker, world>>

Crash ==
  /\ owner # None /\ crashes < MaxCrashes
  /\ crashes' = crashes + 1
  /\ owner' = None /\ busy' = FALSE /\ closing' = FALSE /\ preflight' = "none"
  /\ job' = [w \in Workers |-> Idle]
  /\ UNCHANGED <<stop, day, tables, broker>>

-----------------------------------------------------------------------------
(* The broker, the operator and the clocks. *)

Place(q) == Paper!Place(q) /\ UNCHANGED <<lane, job, tables, market, world>>

Trade(q) ==
  /\ q \in placed /\ ~market[q].done
  /\ \E o \in Outcomes :
       /\ o # market[q] /\ o.filled >= market[q].filled
       /\ market' = [market EXCEPT ![q] = o]
  /\ UNCHANGED <<lane, job, tables, paper, placed, world>>

SetStop == stop' = ~stop /\ UNCHANGED <<lane, job, tables, broker, day, crashes>>

ClockMoves ==
  /\ \E d \in 0..MaxDay : d # day /\ day' = d
  /\ UNCHANGED <<lane, job, tables, broker, stop, crashes>>

PreflightAges ==
  /\ preflight = "fresh"
  /\ preflight' = "stale"
  /\ UNCHANGED <<owner, busy, closing, job, tables, broker, world>>

-----------------------------------------------------------------------------
Step(w) ==
  \/ \E q \in Requests : Recover(w, q) \/ Observe(w, q)
  \/ Recovered(w) \/ Observed(w)
  \/ Reserve(w) \/ Pass(w) \/ Claim(w) \/ Attempt(w) \/ Answer(w)
  \/ GiveUp(w) \/ Finish(w)

CallStep(c) == Step(c) \/ Assess(c) \/ CheckLane(c) \/ Snapshot(c)
RunnerStep ==
  \/ Step(Runner) \/ Recheck
  \/ \E i \in Bars, q \in Requests, s \in {"buy", "sell"} : Decide(i, q, s)

Next ==
  \/ \E trade \in BOOLEAN : StartRunner(trade)
  \/ StartService \/ Close \/ CloseEnds \/ Crash
  \/ \E c \in Calls :
       \/ \E p \in Proposals : \/ StartSubmit(c, p) \/ StartReconcile(c, p)
                               \/ \E q \in Requests : StartAssess(c, p, q)
       \/ CallStep(c) \/ Disconnect(c)
  \/ RunnerStep
  \/ \E q \in Requests : Place(q) \/ Trade(q)
  \/ SetStop \/ ClockMoves \/ PreflightAges

Spec == Init /\ [][Next]_vars

-----------------------------------------------------------------------------
(* Properties. *)

Typed ==
  /\ owner \in {None, Runner, "agent"}
  /\ busy \in BOOLEAN /\ closing \in BOOLEAN
  /\ preflight \in {"none", "fresh", "stale"}
  /\ job \in [Workers -> Jobs]
  /\ stop \in BOOLEAN /\ day \in 0..MaxDay /\ crashes \in 0..MaxCrashes
  /\ slot \in [Intents -> Slots]
  /\ bound \in [Proposals -> Requests \cup {None}]
  /\ seen \in [Requests -> Observations]
  /\ paper \in [Requests -> {"free", "claimed", "void", "attempted", "known"}]
  /\ placed \subseteq Requests
  /\ market \in [Requests -> Outcomes]

(* The variables keep their types, and the account is worked on alone: one *)
(* cycle or one call at most is under way, and its program has the lock,   *)
(* although the client of a call may go away, or the service be told to    *)
(* close, while it is at the broker.                                       *)
WorksAlone ==
  /\ \A v, w \in Workers : ~At(v, "idle") /\ ~At(w, "idle") => v = w
  /\ \A c \in Calls : ~At(c, "idle") => owner = "agent"
  /\ ~At(Runner, "idle") => owner = Runner
TypeOK == Typed /\ WorksAlone

(* One order at most may still trade on the account, whichever program     *)
(* sent it, whatever crashed, and however late the broker is to say so.    *)
MayTrade(q) == paper[q] \in {"attempted", "known"} /\ ~market[q].done
OneOpenOrder == \A p, q \in Requests : MayTrade(p) /\ MayTrade(q) => p = q

(* A bar or a proposal gets one order for ever: whatever was sent is the   *)
(* request its intent is reserved for, and no reservation and no binding   *)
(* of a proposal to its request is ever given up.                          *)
OneOrderPerIntent ==
  /\ \A q \in Requests : paper[q] \in {"attempted", "known"} => Reserved(q)
  /\ \A i, k \in Intents : slot[i].request # None /\ slot[i].request = slot[k].request
                             => i = k
NothingGivenUp ==
  [][/\ \A i \in Intents : slot[i].request # None => slot'[i] = slot[i]
     /\ \A p \in Proposals : bound[p] # None => bound'[p] = bound[p]]_vars

(* However the clock is set, entries never use the attempts kept for exits *)
(* on any day.                                                             *)
ExitsKept ==
  \A d \in 0..MaxDay : /\ Cardinality(Entries(d)) + ReservedExits <= MaxDaily
                       /\ Cardinality(Used(d)) <= MaxDaily

(* An outcome on record is one the order had: never ahead of the broker,   *)
(* and final only when the order is over.                                  *)
OutcomeIsTrue ==
  \A q \in Requests : seen[q].known =>
    /\ q \in placed
    /\ seen[q].filled <= market[q].filled
    /\ seen[q].done => market[q].done /\ seen[q].filled = market[q].filled
=============================================================================
