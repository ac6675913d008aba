-------------------------- MODULE PaperCopilotProofs --------------------------
(***************************************************************************)
(* The promises of the paper account, for any number of bars, proposals,   *)
(* requests, HTTP calls, days and process deaths.                          *)
(***************************************************************************)
EXTENDS PaperCopilot, FiniteSetTheorems, TLAPS

(***************************************************************************)
(* The inductive invariant.                                                *)
(***************************************************************************)
Active(w) == job[w].at # "idle"

(* One worker at most is at work, and it has the lock and the lane.        *)
LaneInv ==
  /\ \A c \in Calls : Active(c) => owner = "agent" /\ busy
  /\ Active(Runner) => owner = Runner
  /\ closing => owner = "agent"
  /\ \A c, d \in Calls : Active(c) /\ Active(d) => c = d

(* The steps that have an intent and a request, those that come after the  *)
(* reservation, and those that have found the account without an order.    *)
Concerned == {"rechecking", "assessing", "checking", "snapshotting"} \cup OrderSteps
Sending   == OrderSteps \ {"reserving"}
Quiet     == {"deciding", "rechecking", "snapshotting"} \cup OrderSteps

JobOK(w) ==
  /\ job[w].at \in Concerned => job[w].intent \in Intents /\ job[w].request \in Requests
  /\ job[w].at = "recovering" => w = Runner \/ job[w].request \in Requests
  /\ job[w].at = "assessing" => /\ job[w].intent \in Proposals
                                /\ bound[job[w].intent] = None
  /\ job[w].at \in Sending => slot[job[w].intent].request = job[w].request
  /\ job[w].at \in Quiet =>
       \A q \in Requests : MayTrade(q) => job[w].at = "calling" /\ q = job[w].request
JobInv == \A w \in Workers : JobOK(w)

(* No terminal outcome without one on record.                              *)
SeenInv == \A q \in Requests : seen[q].done => seen[q].known

DataInv == OneOpenOrder /\ OneOrderPerIntent /\ OutcomeIsTrue /\ SeenInv

IInv == Typed /\ LaneInv /\ JobInv /\ DataInv

(***************************************************************************)
(* Small facts.                                                            *)
(***************************************************************************)
(* Whoever works, works alone.                                             *)
LEMMA OneActive ==
  ASSUME LaneInv, NEW w \in Workers, NEW x \in Workers, Active(w), Active(x)
  PROVE  w = x
BY NamesAssumption DEF LaneInv, Workers

(* An order that may trade keeps its intent pending.                       *)
LEMMA NoneTrades ==
  ASSUME IInv, NothingPending, NEW q \in Requests
  PROVE  ~MayTrade(q)
<1> SUFFICES ASSUME MayTrade(q) PROVE FALSE
  OBVIOUS
<1>1. Reserved(q)
  BY DEF MayTrade, IInv, DataInv, OneOrderPerIntent
<1>2. seen[q].done
  BY <1>1 DEF NothingPending, Pending
<1>3. market[q].done
  BY <1>2 DEF IInv, DataInv, SeenInv, OutcomeIsTrue
<1> QED  BY <1>3 DEF MayTrade

(* The data keep their promises where only the work of somebody changes.   *)
LEMMA DataKept ==
  ASSUME IInv, UNCHANGED <<tables, broker>>
  PROVE  DataInv'
BY DEF IInv, tables, broker, DataInv, OneOpenOrder, MayTrade, OneOrderPerIntent, Reserved,
       OutcomeIsTrue, SeenInv

(* A worker that moves alone has only its own knowledge to answer for.     *)
LEMMA OnlyOne ==
  ASSUME IInv, NEW w \in Workers,
         \A x \in Workers : x # w => job'[x] = job[x] /\ ~Active(x),
         JobOK(w)'
  PROVE  JobInv'
<1> SUFFICES ASSUME NEW x \in Workers, x # w PROVE JobOK(x)'
  BY DEF JobInv
<1>1. job'[x].at = "idle"
  BY DEF Active
<1> QED  BY <1>1 DEF JobOK, Concerned, Sending, Quiet, OrderSteps

(* What it knows, it goes on knowing while the data are not touched.       *)
LEMMA Unmoved ==
  ASSUME IInv, UNCHANGED <<job, slot, bound>>,
         \A q \in Requests : MayTrade(q)' => MayTrade(q)
  PROVE  JobInv'
BY DEF IInv, JobInv, JobOK

(***************************************************************************)
(* Initially.                                                              *)
(***************************************************************************)
LEMMA Initially == Init => IInv
<1> SUFFICES ASSUME Init PROVE IInv
  OBVIOUS
<1> USE DEF Init, Paper!Init
<1>1. Typed
  <2>1. Idle \in Jobs
    BY DEF Idle, Jobs, Steps, OrderSteps
  <2>2. Empty \in Slots /\ Unseen \in Observations /\ Open \in Outcomes
    BY BudgetAssumption DEF Empty, Slots, Unseen, Observations, Open, Outcomes
  <2>3. job \in [Workers -> Jobs]
    BY <2>1
  <2>4. /\ slot \in [Intents -> Slots] /\ seen \in [Requests -> Observations]
        /\ market \in [Requests -> Outcomes]
    BY <2>2
  <2>5. day \in 0..MaxDay /\ crashes \in 0..MaxCrashes
    BY BudgetAssumption
  <2> QED  BY <2>3, <2>4, <2>5 DEF Typed
<1>2. \A w \in Workers : job[w].at = "idle"
  BY DEF Idle
<1>3. LaneInv
  BY <1>2 DEF LaneInv, Active, Workers
<1>4. JobInv
  BY <1>2 DEF JobInv, JobOK, Concerned, Sending, Quiet, OrderSteps
<1>5. OneOpenOrder
  BY DEF OneOpenOrder, MayTrade
<1>6. OneOrderPerIntent
  BY DEF OneOrderPerIntent, Empty
<1>7. OutcomeIsTrue /\ SeenInv
  BY DEF OutcomeIsTrue, SeenInv, Unseen
<1> QED  BY <1>1, <1>3, <1>4, <1>5, <1>6, <1>7 DEF IInv, DataInv

(***************************************************************************)
(* How a worker moves: from idle when nobody works, then alone.            *)
(***************************************************************************)
LEMMA Works ==
  ASSUME IInv, NEW w \in Workers, Active(w), NEW j \in Jobs, j.at # "idle",
         job' = [job EXCEPT ![w] = j], UNCHANGED <<owner, busy, closing>>
  PROVE  /\ LaneInv' /\ job' \in [Workers -> Jobs]
         /\ job'[w] = j
         /\ \A x \in Workers : x # w => job'[x] = job[x] /\ ~Active(x)
<1>1. job' \in [Workers -> Jobs] /\ job'[w] = j
  BY DEF IInv, Typed
<1>2. \A x \in Workers : x # w => job'[x] = job[x] /\ ~Active(x)
  BY OneActive DEF IInv, Typed
<1>3. \A x \in Workers : Active(x)' => Active(x)
  BY <1>1, <1>2 DEF Active
<1>4. LaneInv'
  BY <1>3 DEF IInv, LaneInv, Workers
<1> QED  BY <1>1, <1>2, <1>4

LEMMA Moves ==
  ASSUME IInv, NEW w \in Workers, Active(w), NEW s \in Steps \ {"idle"}, Move(w, s),
         UNCHANGED <<owner, busy, closing>>
  PROVE  /\ LaneInv' /\ job' \in [Workers -> Jobs]
         /\ job'[w].at = s /\ job'[w].intent = job[w].intent
         /\ job'[w].request = job[w].request
         /\ \A x \in Workers : x # w => job'[x] = job[x] /\ ~Active(x)
<1> DEFINE j == [job[w] EXCEPT !.at = s]
<1>1. job[w] \in Jobs
  BY DEF IInv, Typed
<1>2. /\ j \in Jobs /\ j.at = s /\ j.intent = job[w].intent /\ j.request = job[w].request
  BY <1>1 DEF Jobs
<1>3. job' = [job EXCEPT ![w] = j]
  BY <1>1 DEF Move
<1> HIDE DEF j
<1> QED  BY <1>2, <1>3, Works

LEMMA Starts ==
  ASSUME IInv, NEW w \in Workers, \A x \in Workers : ~Active(x), NEW j \in Jobs,
         job' = [job EXCEPT ![w] = j],
         \/ w = Runner /\ owner' = Runner /\ UNCHANGED closing /\ ~closing
         \/ w \in Calls /\ owner' = "agent" /\ busy' = TRUE
  PROVE  /\ LaneInv' /\ job' \in [Workers -> Jobs]
         /\ job'[w] = j
         /\ \A x \in Workers : x # w => job'[x] = job[x] /\ ~Active(x)
<1>1. job' \in [Workers -> Jobs] /\ job'[w] = j
  BY DEF IInv, Typed
<1>2. \A x \in Workers : x # w => job'[x] = job[x] /\ ~Active(x)
  BY DEF IInv, Typed
<1>3. \A x \in Workers : Active(x)' => x = w
  BY <1>1, <1>2 DEF Active
<1>4. LaneInv'
  BY <1>3, NamesAssumption DEF LaneInv, Workers
<1> QED  BY <1>1, <1>2, <1>4

(***************************************************************************)
(* The beginnings of work.                                                 *)
(***************************************************************************)
LEMMA StartRunnerStep ==
  ASSUME IInv, NEW trade \in BOOLEAN, StartRunner(trade)
  PROVE  IInv'
<1> DEFINE j == [Idle EXCEPT !.at = "recovering", !.trade = trade, !.todo = Candidates]
<1>1. /\ owner = None /\ owner' = Runner /\ UNCHANGED <<busy, closing, preflight>>
      /\ UNCHANGED <<tables, broker, world>>
      /\ job' = [job EXCEPT ![Runner] = j]
  BY DEF StartRunner
<1>2. j \in Jobs /\ j.at = "recovering"
  BY DEF Idle, Jobs, Steps, OrderSteps, Candidates
<1>3. Runner \in Workers /\ ~closing /\ \A x \in Workers : ~Active(x)
  BY <1>1, NamesAssumption DEF IInv, LaneInv, Workers
<1> HIDE DEF j
<1>4. /\ LaneInv' /\ job' \in [Workers -> Jobs] /\ job'[Runner] = j
      /\ \A x \in Workers : x # Runner => job'[x] = job[x] /\ ~Active(x)
  BY <1>1, <1>2, <1>3, Starts
<1>5. JobOK(Runner)'
  BY <1>2, <1>4 DEF JobOK, Concerned, Sending, Quiet, OrderSteps
<1>6. JobInv'
  BY <1>3, <1>4, <1>5, OnlyOne
<1>7. Typed'
  BY <1>1, <1>4 DEF IInv, Typed, tables, broker, world
<1> QED  BY <1>1, <1>4, <1>6, <1>7, DataKept DEF IInv

LEMMA AcceptStep ==
  ASSUME IInv, NEW c \in Calls, NEW j \in Jobs, Accept(c, j), j.at \in Steps \ Quiet,
         j.at # "idle",
         j.at \in Concerned => j.intent \in Proposals /\ j.request \in Requests,
         j.at = "recovering" => j.request \in Requests,
         j.at = "assessing" => bound[j.intent] = None
  PROVE  IInv'
<1>1. /\ owner = "agent" /\ ~busy /\ busy' = TRUE /\ UNCHANGED <<owner, closing, preflight>>
      /\ UNCHANGED <<tables, broker, world>>
      /\ job' = [job EXCEPT ![c] = j]
  BY DEF Accept
<1>2. c \in Workers /\ \A x \in Workers : ~Active(x)
  BY <1>1, NamesAssumption DEF IInv, LaneInv, Workers
<1>3. /\ LaneInv' /\ job' \in [Workers -> Jobs] /\ job'[c] = j
      /\ \A x \in Workers : x # c => job'[x] = job[x] /\ ~Active(x)
  BY <1>1, <1>2, Starts
<1>4. JobOK(c)'
  BY <1>1, <1>3 DEF JobOK, Concerned, Sending, Quiet, OrderSteps, Intents, tables
<1>5. JobInv'
  BY <1>2, <1>3, <1>4, OnlyOne
<1>6. Typed'
  BY <1>1, <1>3 DEF IInv, Typed, tables, broker, world
<1> QED  BY <1>1, <1>3, <1>5, <1>6, DataKept DEF IInv

LEMMA StartCallStep ==
  ASSUME IInv, NEW c \in Calls, NEW p \in Proposals,
         StartSubmit(c, p) \/ StartReconcile(c, p)
           \/ \E q \in Requests : StartAssess(c, p, q)
  PROVE  IInv'
<1>1. CASE StartSubmit(c, p)
  <2> DEFINE j == [Idle EXCEPT !.at = "checking", !.intent = p, !.request = bound[p],
                               !.side = IF p \in Sells THEN "sell" ELSE "buy"]
  <2>1. Accept(c, j) /\ bound[p] \in Requests
    BY <1>1 DEF StartSubmit, IInv, Typed
  <2>2. j \in Jobs /\ j.at = "checking" /\ j.intent = p /\ j.request \in Requests
    BY <2>1 DEF Idle, Jobs, Steps, OrderSteps, Intents
  <2> HIDE DEF j
  <2> QED  BY <2>1, <2>2, AcceptStep DEF Steps, Quiet, OrderSteps
<1>2. CASE StartReconcile(c, p)
  <2> DEFINE j == [Idle EXCEPT !.at = "recovering", !.request = bound[p], !.todo = {bound[p]}]
  <2>1. Accept(c, j) /\ bound[p] \in Requests
    BY <1>2 DEF StartReconcile, IInv, Typed
  <2>2. j \in Jobs /\ j.at = "recovering"
    BY <2>1 DEF Idle, Jobs, Steps, OrderSteps
  <2>3. j.request \in Requests
    BY <2>1 DEF Idle
  <2> HIDE DEF j
  <2> QED  BY <2>1, <2>2, <2>3, AcceptStep DEF Steps, Quiet, Concerned, OrderSteps
<1>3. CASE \E q \in Requests : StartAssess(c, p, q)
  <2>1. PICK q \in Requests : StartAssess(c, p, q)
    BY <1>3
  <2> DEFINE j == [Idle EXCEPT !.at = "assessing", !.intent = p, !.request = q]
  <2>2. Accept(c, j) /\ bound[p] = None
    BY <2>1 DEF StartAssess
  <2>3. j \in Jobs /\ j.at = "assessing" /\ j.intent = p /\ j.request = q
    BY DEF Idle, Jobs, Steps, OrderSteps, Intents
  <2> HIDE DEF j
  <2> QED  BY <2>2, <2>3, AcceptStep DEF Steps, Quiet, OrderSteps
<1> QED  BY <1>1, <1>2, <1>3

(***************************************************************************)
(* Steps that only go on: the data stay, and Quiet is entered by those who *)
(* found nothing pending.                                                  *)
(***************************************************************************)
LEMMA GoingOn ==
  ASSUME IInv, NEW w \in Workers, Active(w), JobOK(w)',
         LaneInv', job' \in [Workers -> Jobs],
         \A x \in Workers : x # w => job'[x] = job[x] /\ ~Active(x),
         preflight' \in {"none", "fresh", "stale"},
         UNCHANGED <<owner, busy, closing, tables, broker, world>>
  PROVE  IInv'
<1>1. Typed'
  BY DEF IInv, Typed, tables, broker, world
<1> QED  BY <1>1, OnlyOne, DataKept DEF IInv

LEMMA RecoveredStep ==
  ASSUME IInv, NEW w \in Workers, Recovered(w)
  PROVE  IInv'
<1> DEFINE todo == IF w = Runner THEN Pending
                   ELSE {q \in {job[w].request} : Reserved(q) /\ paper[q] # "void"}
           j == [job[w] EXCEPT !.at = "observing", !.todo = todo]
<1>1. Active(w) /\ job[w] \in Jobs /\ (w = Runner \/ job[w].request \in Requests)
  BY DEF Recovered, At, Active, IInv, Typed, JobInv, JobOK
<1>2. todo \subseteq Requests
  BY <1>1 DEF Pending
<1>3. job' = [job EXCEPT ![w] = j] /\ UNCHANGED <<lane, tables, broker, world>>
  BY <1>1 DEF Recovered
<1> HIDE DEF todo
<1>4. j \in Jobs /\ j.at = "observing"
  BY <1>1, <1>2 DEF Jobs, Steps
<1> HIDE DEF j
<1>5. /\ LaneInv' /\ job' \in [Workers -> Jobs] /\ job'[w] = j
      /\ \A x \in Workers : x # w => job'[x] = job[x] /\ ~Active(x)
  BY <1>1, <1>3, <1>4, Works DEF lane
<1>6. JobOK(w)'
  BY <1>4, <1>5 DEF JobOK, Concerned, Sending, Quiet, OrderSteps
<1> QED  BY <1>1, <1>3, <1>5, <1>6, GoingOn DEF lane, IInv, Typed

LEMMA ObservedStep ==
  ASSUME IInv, NEW w \in Workers, Observed(w)
  PROVE  IInv'
<1> DEFINE s == IF job[w].trade THEN "deciding" ELSE "ending"
<1>1. Active(w) /\ Move(w, s) /\ UNCHANGED <<lane, tables, broker, world>>
  BY DEF Observed, At, Active
<1>2. s \in Steps \ {"idle"} /\ s \in {"deciding", "ending"}
  BY DEF Steps
<1>3. s = "deciding" => \A q \in Requests : ~MayTrade(q)
  BY NoneTrades DEF Observed
<1> HIDE DEF s
<1>4. /\ LaneInv' /\ job' \in [Workers -> Jobs] /\ job'[w].at = s
      /\ \A x \in Workers : x # w => job'[x] = job[x] /\ ~Active(x)
  BY <1>1, <1>2, Moves DEF lane
<1>5. JobOK(w)'
  BY <1>1, <1>2, <1>3, <1>4
     DEF JobOK, Concerned, Sending, Quiet, OrderSteps, MayTrade, broker
<1> QED  BY <1>1, <1>4, <1>5, GoingOn DEF lane, IInv, Typed

LEMMA DecideStep ==
  ASSUME IInv, NEW i \in Bars, NEW q \in Requests, NEW side \in {"buy", "sell"},
         Decide(i, q, side)
  PROVE  IInv'
<1> DEFINE j == [job[Runner] EXCEPT !.at = "rechecking", !.intent = i, !.request = q,
                                    !.side = side]
<1>1. Runner \in Workers /\ Active(Runner) /\ job[Runner] \in Jobs
  BY DEF Decide, At, Active, Workers, IInv, Typed
<1>2. job' = [job EXCEPT ![Runner] = j] /\ UNCHANGED <<lane, tables, broker, world>>
  BY <1>1 DEF Decide
<1>3. \A r \in Requests : ~MayTrade(r)
  BY <1>1 DEF Decide, At, IInv, JobInv, JobOK, Quiet
<1>4. j \in Jobs /\ j.at = "rechecking" /\ j.intent \in Intents /\ j.request \in Requests
  BY <1>1 DEF Jobs, Steps, Intents
<1> HIDE DEF j
<1>5. /\ LaneInv' /\ job' \in [Workers -> Jobs] /\ job'[Runner] = j
      /\ \A x \in Workers : x # Runner => job'[x] = job[x] /\ ~Active(x)
  BY <1>1, <1>2, <1>4, Works DEF lane
<1>6. JobOK(Runner)'
  BY <1>2, <1>3, <1>4, <1>5 DEF JobOK, Concerned, Sending, Quiet, OrderSteps, MayTrade, broker
<1> QED  BY <1>1, <1>2, <1>5, <1>6, GoingOn DEF lane, IInv, Typed

(* Recheck, CheckLane, Snapshot, Pass and GiveUp: from one step to another *)
(* of the same knowledge, or to the end.                                   *)
LEMMA AdvanceStep ==
  ASSUME IInv, NEW w \in Workers,
         (w = Runner /\ Recheck) \/ CheckLane(w) \/ Snapshot(w) \/ Pass(w) \/ GiveUp(w)
  PROVE  IInv'
<1>1. /\ Active(w) /\ UNCHANGED <<owner, busy, closing, tables, broker, world>>
      /\ preflight' \in {"none", "fresh", "stale"}
  BY DEF Recheck, CheckLane, Snapshot, Pass, GiveUp, Passed, At, Active, lane, IInv, Typed
<1>2. \E s \in Steps \ {"idle"} :
        /\ Move(w, s)
        /\ \/ s = "ending"
           \/ job[w].at \in {"rechecking", "snapshotting"} /\ s = "reserving"
           \/ job[w].at = "checking" /\ NothingPending /\ s = "snapshotting"
           \/ job[w].at \in Sending \ {"calling"} /\ s \in Sending \ {"calling"}
  <2>1. CASE Pass(w)
    <3>1. \/ job[w].at = "entering" /\ Move(w, "verifying")
          \/ job[w].at = "verifying" /\ Move(w, "cleared")
          \/ job[w].at = "claimed" /\ Move(w, "gated")
      BY <2>1 DEF Pass, Passed
    <3> QED  BY <3>1 DEF Sending, OrderSteps, Steps
  <2>2. CASE GiveUp(w)
    BY <2>2 DEF GiveUp, Steps
  <2>3. CASE (w = Runner /\ Recheck) \/ CheckLane(w) \/ Snapshot(w)
    BY <2>3 DEF Recheck, CheckLane, Snapshot, At, Sending, Quiet, OrderSteps, Steps
  <2> QED  BY <2>1, <2>2, <2>3
<1>3. PICK s \in Steps \ {"idle"} :
        /\ Move(w, s)
        /\ \/ s = "ending"
           \/ job[w].at \in {"rechecking", "snapshotting"} /\ s = "reserving"
           \/ job[w].at = "checking" /\ NothingPending /\ s = "snapshotting"
           \/ job[w].at \in Sending \ {"calling"} /\ s \in Sending \ {"calling"}
  BY <1>2
<1>4. /\ LaneInv' /\ job' \in [Workers -> Jobs]
      /\ job'[w].at = s /\ job'[w].intent = job[w].intent
      /\ job'[w].request = job[w].request
      /\ \A x \in Workers : x # w => job'[x] = job[x] /\ ~Active(x)
  BY <1>1, <1>3, Moves
<1>5. JobOK(w)'
  <2>1. CASE s = "ending"
    BY <1>4, <2>1 DEF JobOK, Concerned, Sending, Quiet, OrderSteps
  <2>2. CASE job[w].at = "checking" /\ NothingPending /\ s = "snapshotting"
    <3>1. \A q \in Requests : ~MayTrade(q)
      BY <2>2, NoneTrades
    <3> QED
      BY <1>1, <1>4, <2>2, <3>1
         DEF IInv, JobInv, JobOK, Concerned, Sending, Quiet, OrderSteps, MayTrade, broker
  <2>3. CASE job[w].at \in {"rechecking", "snapshotting"} /\ s = "reserving"
    BY <1>1, <1>4, <2>3
       DEF IInv, JobInv, JobOK, Concerned, Sending, Quiet, OrderSteps, MayTrade, broker
  <2>4. CASE job[w].at \in Sending \ {"calling"} /\ s \in Sending \ {"calling"}
    BY <1>1, <1>4, <2>4
       DEF IInv, JobInv, JobOK, Concerned, Sending, Quiet, OrderSteps, MayTrade, broker, tables
  <2> QED  BY <1>3, <2>1, <2>2, <2>3, <2>4
<1> QED  BY <1>1, <1>4, <1>5, GoingOn

(***************************************************************************)
(* Reconciliation: what it learns or voids takes no order out of, and puts *)
(* none into, the set of those that may trade; an outcome on record is one *)
(* the broker has just shown.                                              *)
(***************************************************************************)
LEMMA CheckedMoves ==
  ASSUME IInv, NEW w \in Workers, NEW q \in Requests, NEW s \in {"recovering", "observing"},
         At(w, s), Checked(w, q, s), UNCHANGED <<lane, slot, bound>>
  PROVE  /\ LaneInv' /\ job' \in [Workers -> Jobs] /\ JobInv'
<1> DEFINE j == [job[w] EXCEPT !.todo = @ \ {q}, !.at = s]
<1>1. Active(w) /\ job[w] \in Jobs /\ job[w].at = s
  BY DEF At, Active, IInv, Typed
<1>2. job' = [job EXCEPT ![w] = j]
  BY <1>1 DEF Checked
<1>3. j \in Jobs /\ j.at = s /\ j.request = job[w].request
  BY <1>1 DEF Jobs
<1> HIDE DEF j
<1>4. /\ LaneInv' /\ job' \in [Workers -> Jobs] /\ job'[w] = j
      /\ \A x \in Workers : x # w => job'[x] = job[x] /\ ~Active(x)
  BY <1>1, <1>2, <1>3, Works DEF lane
<1>5. JobOK(w)'
  BY <1>1, <1>3, <1>4 DEF IInv, JobInv, JobOK, Concerned, Sending, Quiet, OrderSteps
<1> QED  BY <1>4, <1>5, OnlyOne

LEMMA RecoverStep ==
  ASSUME IInv, NEW w \in Workers, NEW q \in Requests, Recover(w, q)
  PROVE  IInv'
<1>1. /\ UNCHANGED <<lane, tables, market, world>> /\ UNCHANGED placed
      /\ \/ paper' = paper
         \/ paper' = [paper EXCEPT ![q] = "void"] /\ paper[q] = "claimed"
         \/ paper' = [paper EXCEPT ![q] = "known"] /\ paper[q] = "attempted"
  BY DEF Recover, Paper!Void, Paper!Learn, Paper!Become
<1>2. LaneInv' /\ job' \in [Workers -> Jobs] /\ JobInv'
  BY <1>1, CheckedMoves DEF Recover, tables
<1>3. /\ paper' \in [Requests -> {"free", "claimed", "void", "attempted", "known"}]
      /\ \A r \in Requests : paper'[r] \in {"attempted", "known"}
                             <=> paper[r] \in {"attempted", "known"}
  BY <1>1 DEF IInv, Typed
<1>4. Typed'
  BY <1>1, <1>2, <1>3 DEF IInv, Typed, lane, tables, world
<1>5. DataInv'
  BY <1>1, <1>3 DEF tables, IInv, DataInv, OneOpenOrder, MayTrade, OneOrderPerIntent, Reserved,
                    OutcomeIsTrue, SeenInv
<1> QED  BY <1>2, <1>4, <1>5 DEF IInv

LEMMA ObserveStep ==
  ASSUME IInv, NEW w \in Workers, NEW q \in Requests, Observe(w, q)
  PROVE  IInv'
<1>1. /\ UNCHANGED <<lane, slot, bound, broker, world>> /\ q \in placed
  BY DEF Observe
<1>2. LaneInv' /\ job' \in [Workers -> Jobs] /\ JobInv'
  BY <1>1, CheckedMoves DEF Observe
<1>3. market[q] \in Outcomes /\ market[q].filled \in Nat
  BY BudgetAssumption DEF IInv, Typed, Outcomes
<1>4. PICK o \in Views(q) :
        seen' = [seen EXCEPT ![q] =
                   [known |-> TRUE, done |-> o.done, filled |-> o.filled, on |-> day]]
  BY DEF Observe
<1>5. /\ o \in Outcomes /\ o.filled <= market[q].filled
      /\ o.done => market[q].done /\ o.filled = market[q].filled
  <2>1. CASE o = market[q]
    BY <1>3, <2>1
  <2>2. CASE o # market[q]
    <3>1. PICK f \in 0..market[q].filled : o = [done |-> FALSE, filled |-> f]
      BY <1>4, <2>2 DEF Views
    <3>2. f \in 0..MaxFill
      BY <1>3, <3>1, BudgetAssumption DEF Outcomes
    <3> QED  BY <1>3, <3>1, <3>2 DEF Outcomes
  <2> QED  BY <2>1, <2>2
<1>6. /\ seen' \in [Requests -> Observations]
      /\ seen'[q].known /\ seen'[q].done = o.done /\ seen'[q].filled = o.filled
      /\ \A r \in Requests : r # q => seen'[r] = seen[r]
  BY <1>4, <1>5 DEF Observations, Outcomes, IInv, Typed
<1>7. Typed'
  BY <1>1, <1>2, <1>6 DEF IInv, Typed, lane, broker, world
<1>8. OutcomeIsTrue' /\ SeenInv'
  BY <1>1, <1>5, <1>6 DEF broker, IInv, DataInv, OutcomeIsTrue, SeenInv
<1>9. OneOpenOrder' /\ OneOrderPerIntent'
  BY <1>1 DEF broker, IInv, DataInv, OneOpenOrder, MayTrade, OneOrderPerIntent, Reserved
<1> QED  BY <1>2, <1>7, <1>8, <1>9 DEF IInv, DataInv

(***************************************************************************)
(* A proposal is bound to the request it was assessed as.                  *)
(***************************************************************************)
LEMMA AssessStep ==
  ASSUME IInv, NEW c \in Calls, Assess(c)
  PROVE  IInv' /\ \A p \in Proposals : bound[p] # None => bound'[p] = bound[p]
<1>1. /\ c \in Workers /\ Active(c) /\ Move(c, "ending")
      /\ UNCHANGED <<lane, slot, seen, broker, world>>
      /\ bound' = [bound EXCEPT ![job[c].intent] = job[c].request]
  BY DEF Assess, At, Active, Workers
<1>2. job[c].intent \in Proposals /\ bound[job[c].intent] = None /\ job[c].request \in Requests
  BY <1>1 DEF Assess, At, IInv, JobInv, JobOK, Concerned
<1>3. /\ LaneInv' /\ job' \in [Workers -> Jobs] /\ job'[c].at = "ending"
      /\ \A x \in Workers : x # c => job'[x] = job[x] /\ ~Active(x)
  BY <1>1, Moves DEF lane, Steps
<1>4. JobOK(c)'
  BY <1>3 DEF JobOK, Concerned, Sending, Quiet, OrderSteps
<1>5. JobInv'
  BY <1>1, <1>3, <1>4, OnlyOne
<1>6. /\ bound' \in [Proposals -> Requests \cup {None}]
      /\ \A p \in Proposals : bound[p] # None => bound'[p] = bound[p]
  BY <1>1, <1>2 DEF IInv, Typed
<1>7. Typed'
  BY <1>1, <1>3, <1>6 DEF IInv, Typed, lane, broker, world
<1>8. DataInv'
  BY <1>1 DEF broker, IInv, DataInv, OneOpenOrder, MayTrade, OneOrderPerIntent, Reserved,
              OutcomeIsTrue, SeenInv
<1> QED  BY <1>3, <1>5, <1>6, <1>7, <1>8 DEF IInv

(***************************************************************************)
(* One order, from its reservation to the broker.                          *)
(***************************************************************************)
LEMMA ReserveStep ==
  ASSUME IInv, NEW w \in Workers, Reserve(w)
  PROVE  IInv' /\ \A i \in Intents : slot[i].request # None => slot'[i] = slot[i]
<1> DEFINE row == [request |-> job[w].request, side |-> job[w].side, day |-> day]
<1>1. /\ Active(w) /\ Move(w, "entering") /\ UNCHANGED <<lane, bound, seen, broker, world>>
      /\ slot' = [slot EXCEPT ![job[w].intent] = row]
      /\ slot[job[w].intent].request = None /\ ~Reserved(job[w].request)
  BY DEF Reserve, At, Active, CanReserve
<1>2. job[w].intent \in Intents /\ job[w].request \in Requests /\ job[w].side \in {"buy", "sell"}
  BY DEF Reserve, At, IInv, Typed, Jobs, JobInv, JobOK, Concerned, OrderSteps
<1>3. \A q \in Requests : ~MayTrade(q)
  BY DEF Reserve, At, IInv, JobInv, JobOK, Quiet, OrderSteps
<1>4. row \in Slots /\ row.request = job[w].request
  BY <1>2 DEF Slots, IInv, Typed
<1> HIDE DEF row
<1>5. /\ slot' \in [Intents -> Slots] /\ slot'[job[w].intent] = row
      /\ \A i \in Intents : i # job[w].intent => slot'[i] = slot[i]
  BY <1>1, <1>2, <1>4 DEF IInv, Typed
<1>6. /\ LaneInv' /\ job' \in [Workers -> Jobs]
      /\ job'[w].at = "entering" /\ job'[w].intent = job[w].intent
      /\ job'[w].request = job[w].request
      /\ \A x \in Workers : x # w => job'[x] = job[x] /\ ~Active(x)
  BY <1>1, Moves DEF lane, Steps, OrderSteps
<1>7. JobOK(w)'
  BY <1>1, <1>2, <1>3, <1>4, <1>5, <1>6
     DEF JobOK, Concerned, Sending, Quiet, OrderSteps, MayTrade, broker
<1>8. JobInv'
  BY <1>6, <1>7, OnlyOne
<1>9. Typed'
  BY <1>1, <1>5, <1>6 DEF IInv, Typed, lane, broker, world
<1>10. \A i \in Intents : slot[i].request # None => slot'[i] = slot[i]
  BY <1>1, <1>5
<1>11. OneOrderPerIntent'
  <2>1. \A q \in Requests : Reserved(q) => Reserved(q)'
    BY <1>10, NamesAssumption DEF Reserved
  <2>2. \A i \in Intents : slot[i].request # job[w].request
    BY <1>1 DEF Reserved
  <2>3. \A i, k \in Intents : slot'[i].request # None /\ slot'[i].request = slot'[k].request => i = k
    BY <1>4, <1>5, <2>2 DEF IInv, DataInv, OneOrderPerIntent
  <2> QED  BY <1>1, <2>1, <2>3 DEF broker, IInv, DataInv, OneOrderPerIntent
<1>12. OneOpenOrder' /\ OutcomeIsTrue' /\ SeenInv'
  BY <1>1 DEF broker, IInv, DataInv, OneOpenOrder, MayTrade, OutcomeIsTrue, SeenInv
<1> QED  BY <1>6, <1>8, <1>9, <1>10, <1>11, <1>12 DEF IInv, DataInv

(* A step of a worker that writes the journal: an identity is attempted    *)
(* only when it is reserved and no other may trade.                        *)
Journals(w, s) ==
  /\ Active(w) /\ s \in Steps \ {"idle"} /\ Move(w, s)
  /\ UNCHANGED <<lane, tables, market, world>> /\ UNCHANGED placed
  /\ paper' \in [Requests -> {"free", "claimed", "void", "attempted", "known"}]
  /\ \A r \in Requests : MayTrade(r)' => MayTrade(r) \/ (s = "calling" /\ r = job[w].request)
  /\ \A r \in Requests : paper'[r] \in {"attempted", "known"} =>
                         paper[r] \in {"attempted", "known"} \/ Reserved(r)
  /\ s # "ending" => job[w].at \in Sending \ {"calling"} /\ s \in Sending

LEMMA JournalStep ==
  ASSUME IInv, NEW w \in Workers, NEW s, Journals(w, s)
  PROVE  IInv'
<1> USE DEF Journals
<1>1. /\ LaneInv' /\ job' \in [Workers -> Jobs]
      /\ job'[w].at = s /\ job'[w].intent = job[w].intent
      /\ job'[w].request = job[w].request
      /\ \A x \in Workers : x # w => job'[x] = job[x] /\ ~Active(x)
  BY Moves DEF lane
<1>2. CASE s = "ending"
  <2>1. JobOK(w)'
    BY <1>1, <1>2 DEF JobOK, Concerned, Sending, Quiet, OrderSteps
  <2>2. OneOpenOrder'
    BY <1>2 DEF IInv, DataInv, OneOpenOrder
  <2> QED
    BY <1>1, <2>1, <2>2, OnlyOne
       DEF lane, tables, world, IInv, Typed, DataInv, OneOrderPerIntent, Reserved, OutcomeIsTrue,
           SeenInv
<1>3. CASE s # "ending"
  <2>1. \A r \in Requests : ~MayTrade(r)
    BY <1>3 DEF IInv, JobInv, JobOK, Sending, Quiet
  <2>2. JobOK(w)'
    BY <1>1, <1>3, <2>1 DEF tables, IInv, JobInv, JobOK, Concerned, Sending, Quiet, OrderSteps
  <2>3. OneOpenOrder'
    BY <2>1 DEF OneOpenOrder
  <2> QED
    BY <1>1, <2>2, <2>3, OnlyOne
       DEF lane, tables, world, IInv, Typed, DataInv, OneOrderPerIntent, Reserved, OutcomeIsTrue,
           SeenInv
<1> QED  BY <1>2, <1>3

LEMMA SendStep ==
  ASSUME IInv, NEW w \in Workers, Claim(w) \/ Attempt(w) \/ Answer(w)
  PROVE  IInv'
<1>1. CASE Claim(w)
  <2>1. /\ Active(w) /\ job[w].at = "cleared" /\ Move(w, "claimed")
        /\ UNCHANGED <<lane, tables, market, world>> /\ UNCHANGED placed
        /\ paper[job[w].request] = "free" /\ paper' = [paper EXCEPT ![job[w].request] = "claimed"]
    BY <1>1 DEF Claim, At, Active, Paper!Claim, Paper!Become
  <2>2. /\ paper' \in [Requests -> {"free", "claimed", "void", "attempted", "known"}]
        /\ \A r \in Requests : paper'[r] \in {"attempted", "known"} =>
                               paper[r] \in {"attempted", "known"}
    BY <2>1 DEF IInv, Typed
  <2>3. \A r \in Requests : MayTrade(r)' => MayTrade(r)
    BY <2>1, <2>2 DEF MayTrade
  <2>4. "claimed" \in Steps \ {"idle"} /\ "claimed" \in Sending
          /\ job[w].at \in Sending \ {"calling"}
    BY <2>1 DEF Steps, Sending, OrderSteps
  <2>5. Journals(w, "claimed")
    BY <2>1, <2>2, <2>3, <2>4 DEF Journals
  <2> QED  BY <2>5, JournalStep
<1>2. CASE Attempt(w)
  <2>1. /\ Active(w) /\ job[w].at = "gated" /\ Move(w, "calling")
        /\ UNCHANGED <<lane, tables, market, world>> /\ UNCHANGED placed
        /\ paper' = [paper EXCEPT ![job[w].request] = "attempted"]
    BY <1>2 DEF Attempt, At, Active, Paper!Attempt, Paper!Become
  <2>2. /\ paper' \in [Requests -> {"free", "claimed", "void", "attempted", "known"}]
        /\ \A r \in Requests : paper'[r] \in {"attempted", "known"} =>
                               paper[r] \in {"attempted", "known"} \/ r = job[w].request
    BY <2>1 DEF IInv, Typed
  <2>3. job[w].request \in Requests => Reserved(job[w].request)
    BY <2>1 DEF IInv, JobInv, JobOK, Concerned, Sending, OrderSteps, Reserved
  <2>4. \A r \in Requests : MayTrade(r)' => MayTrade(r) \/ r = job[w].request
    BY <2>1, <2>2 DEF MayTrade
  <2>5. "calling" \in Steps \ {"idle"} /\ "calling" \in Sending
          /\ job[w].at \in Sending \ {"calling"}
    BY <2>1 DEF Steps, Sending, OrderSteps
  <2>6. Journals(w, "calling")
    BY <2>1, <2>2, <2>3, <2>4, <2>5 DEF Journals
  <2> QED  BY <2>6, JournalStep
<1>3. CASE Answer(w)
  <2>1. /\ Active(w) /\ Move(w, "ending")
        /\ UNCHANGED <<lane, tables, market, world>> /\ UNCHANGED placed
        /\ paper[job[w].request] = "attempted" /\ paper' = [paper EXCEPT ![job[w].request] = "known"]
    BY <1>3 DEF Answer, At, Active, Paper!Learn, Paper!Become
  <2>2. /\ paper' \in [Requests -> {"free", "claimed", "void", "attempted", "known"}]
        /\ \A r \in Requests : paper'[r] \in {"attempted", "known"} =>
                               paper[r] \in {"attempted", "known"}
    BY <2>1 DEF IInv, Typed
  <2>3. \A r \in Requests : MayTrade(r)' => MayTrade(r)
    BY <2>1, <2>2 DEF MayTrade
  <2>4. "ending" \in Steps \ {"idle"}
    BY DEF Steps
  <2>5. Journals(w, "ending")
    BY <2>1, <2>2, <2>3, <2>4 DEF Journals
  <2> QED  BY <2>5, JournalStep
<1> QED  BY <1>1, <1>2, <1>3

(***************************************************************************)
(* The ends of work.                                                       *)
(***************************************************************************)
LEMMA IdleKnows ==
  ASSUME \A x \in Workers : job'[x].at = "idle"
  PROVE  JobInv'
BY DEF JobInv, JobOK, Concerned, Sending, Quiet, OrderSteps

LEMMA EndStep ==
  ASSUME IInv,
         \/ \E w \in Workers : Finish(w)
         \/ CloseEnds \/ Crash
  PROVE  IInv'
<1>1. /\ UNCHANGED <<tables, broker>> /\ UNCHANGED <<stop, day>>
      /\ crashes' \in 0..MaxCrashes
      /\ preflight' \in {"none", "fresh", "stale"}
      /\ owner' \in {None, Runner, "agent"} /\ busy' \in BOOLEAN /\ closing' \in BOOLEAN
  <2>1. CASE \E w \in Workers : Finish(w)
    BY <2>1 DEF Finish, world, IInv, Typed
  <2>2. CASE CloseEnds
    BY <2>2 DEF CloseEnds, world, IInv, Typed
  <2>3. CASE Crash
    <3>1. crashes + 1 \in 0..MaxCrashes
      BY <2>3, BudgetAssumption DEF Crash, IInv, Typed
    <3> QED  BY <2>3, <3>1 DEF Crash
  <2> QED  BY <2>1, <2>2, <2>3
<1>2. Idle \in Jobs /\ Idle.at = "idle"
  BY DEF Idle, Jobs, Steps, OrderSteps
<1>3. job' \in [Workers -> Jobs] /\ \A x \in Workers : job'[x].at = "idle"
  <2>1. CASE \E w \in Workers : Finish(w)
    <3>1. PICK w \in Workers : Finish(w)
      BY <2>1
    <3>2. Active(w) /\ job' = [job EXCEPT ![w] = Idle]
      BY <3>1 DEF Finish, At, Active
    <3>3. \A x \in Workers : x # w => ~Active(x)
      BY <3>2, OneActive DEF IInv
    <3> QED  BY <1>2, <3>2, <3>3 DEF IInv, Typed, Active
  <2>2. CASE CloseEnds
    <3>1. /\ job' = job /\ \A c \in Calls : job[c].at = "idle"
          /\ owner = "agent"
      BY <2>2 DEF CloseEnds, At, IInv, LaneInv
    <3>2. job[Runner].at = "idle"
      BY <3>1, NamesAssumption DEF IInv, LaneInv, Active
    <3> QED  BY <3>1, <3>2 DEF Workers, IInv, Typed
  <2>3. CASE Crash
    BY <1>2, <2>3 DEF Crash
  <2> QED  BY <2>1, <2>2, <2>3
<1>4. closing' => owner' = "agent"
  <2>1. CASE \E w \in Workers : Finish(w)
    <3>1. PICK w \in Workers : Finish(w)
      BY <2>1
    <3>2. CASE w = Runner
      BY <3>1, <3>2, NamesAssumption DEF Finish, At, IInv, LaneInv, Active
    <3>3. CASE w # Runner
      BY <3>1, <3>3 DEF Finish, IInv, LaneInv
    <3> QED  BY <3>2, <3>3
  <2>2. CASE CloseEnds \/ Crash
    BY <2>2 DEF CloseEnds, Crash
  <2> QED  BY <2>1, <2>2
<1>5. LaneInv'
  BY <1>3, <1>4 DEF LaneInv, Active, Workers
<1>6. Typed'
  BY <1>1, <1>3 DEF IInv, Typed, tables, broker
<1> QED  BY <1>1, <1>3, <1>5, <1>6, DataKept, IdleKnows DEF IInv

LEMMA DisconnectStep ==
  ASSUME IInv, NEW c \in Calls, Disconnect(c)
  PROVE  IInv'
<1> DEFINE j == [job[c] EXCEPT !.heard = FALSE]
<1>1. c \in Workers /\ Active(c) /\ job[c] \in Jobs
  BY DEF Disconnect, At, Active, Workers, IInv, Typed
<1>2. job' = [job EXCEPT ![c] = j] /\ UNCHANGED <<lane, tables, broker, world>>
  BY <1>1 DEF Disconnect
<1>3. /\ j \in Jobs /\ j.at = job[c].at /\ j.intent = job[c].intent
      /\ j.request = job[c].request
  BY <1>1 DEF Jobs
<1> HIDE DEF j
<1>4. /\ LaneInv' /\ job' \in [Workers -> Jobs] /\ job'[c] = j
      /\ \A x \in Workers : x # c => job'[x] = job[x] /\ ~Active(x)
  BY <1>1, <1>2, <1>3, Works DEF lane, Active
<1>5. JobOK(c)'
  BY <1>1, <1>2, <1>3, <1>4 DEF tables, broker, MayTrade, IInv, JobInv, JobOK
<1> QED  BY <1>1, <1>2, <1>4, <1>5, GoingOn DEF lane, IInv, Typed

(***************************************************************************)
(* The service, the broker, the operator and the clocks.                   *)
(***************************************************************************)
LEMMA BrokerStep ==
  ASSUME IInv, NEW q \in Requests, Place(q) \/ Trade(q)
  PROVE  IInv'
<1>1. /\ UNCHANGED <<lane, job, tables, world>> /\ UNCHANGED paper
      /\ placed \subseteq placed' /\ placed' \subseteq Requests
  BY DEF Place, Trade, Paper!Place, IInv, Typed
<1>2. /\ market' \in [Requests -> Outcomes]
      /\ \A r \in Requests :
           \/ market'[r] = market[r]
           \/ ~market[r].done /\ market'[r].filled >= market[r].filled
  BY DEF Place, Trade, IInv, Typed
<1>3. \A r \in Requests : MayTrade(r)' => MayTrade(r)
  BY <1>1, <1>2 DEF MayTrade
<1>4. JobInv'
  BY <1>1, <1>3, Unmoved DEF tables
<1>5. Typed' /\ LaneInv'
  BY <1>1, <1>2 DEF lane, tables, world, IInv, Typed, LaneInv, Active
<1>6. OutcomeIsTrue'
  <2>1. SUFFICES ASSUME NEW r \in Requests, seen[r].known
                 PROVE  /\ r \in placed'
                        /\ seen[r].filled <= market'[r].filled
                        /\ seen[r].done => /\ market'[r].done
                                           /\ seen[r].filled = market'[r].filled
    BY <1>1 DEF OutcomeIsTrue, tables
  <2>2. /\ r \in placed /\ seen[r].filled <= market[r].filled
        /\ seen[r].done => market[r].done /\ seen[r].filled = market[r].filled
    BY <2>1 DEF IInv, DataInv, OutcomeIsTrue
  <2>3. seen[r].filled \in Nat /\ market[r].filled \in Nat /\ market'[r].filled \in Nat
    BY <1>2, BudgetAssumption DEF IInv, Typed, Observations, Outcomes
  <2> QED  BY <1>1, <1>2, <2>2, <2>3
<1>7. OneOpenOrder' /\ OneOrderPerIntent' /\ SeenInv'
  BY <1>1, <1>3 DEF tables, IInv, DataInv, OneOpenOrder, OneOrderPerIntent, Reserved, SeenInv
<1> QED  BY <1>4, <1>5, <1>6, <1>7 DEF IInv, DataInv

LEMMA WorldStep ==
  ASSUME IInv, SetStop \/ ClockMoves \/ PreflightAges \/ StartService \/ Close
                 \/ UNCHANGED vars
  PROVE  IInv'
<1>1. /\ UNCHANGED <<job, tables, broker, busy, crashes>>
      /\ UNCHANGED <<owner, closing>> \/ owner' = "agent"
      /\ preflight' \in {"none", "fresh", "stale"} /\ stop' \in BOOLEAN /\ day' \in 0..MaxDay
      /\ closing' \in BOOLEAN
  BY DEF SetStop, ClockMoves, PreflightAges, StartService, Close, vars, lane, world, IInv, Typed
<1>2. Typed'
  BY <1>1 DEF tables, broker, IInv, Typed
<1>3. LaneInv'
  <2>1. CASE StartService
    BY <1>1, <2>1, NamesAssumption DEF StartService, IInv, LaneInv, Active, Workers
  <2>2. CASE Close
    BY <1>1, <2>2 DEF Close, IInv, LaneInv, Active
  <2>3. CASE SetStop \/ ClockMoves \/ PreflightAges \/ UNCHANGED vars
    BY <2>3 DEF SetStop, ClockMoves, PreflightAges, vars, lane, IInv, LaneInv, Active
  <2> QED  BY <2>1, <2>2, <2>3
<1>4. JobInv'
  BY <1>1, Unmoved DEF tables, broker, MayTrade
<1> QED  BY <1>1, <1>2, <1>3, <1>4, DataKept DEF IInv

(***************************************************************************)
(* Every step.                                                             *)
(***************************************************************************)
LEMMA WorkerStep ==
  ASSUME IInv, NEW w \in Workers, Step(w)
  PROVE  IInv'
<1>1. CASE \E q \in Requests : Recover(w, q) \/ Observe(w, q)
  BY <1>1, RecoverStep, ObserveStep
<1>2. CASE Recovered(w) \/ Observed(w) \/ Reserve(w) \/ Pass(w) \/ GiveUp(w)
  BY <1>2, RecoveredStep, ObservedStep, ReserveStep, AdvanceStep
<1>3. CASE Claim(w) \/ Attempt(w) \/ Answer(w)
  BY <1>3, SendStep
<1>4. CASE Finish(w)
  BY <1>4, EndStep
<1> QED  BY <1>1, <1>2, <1>3, <1>4 DEF Step

LEMMA Inductive == IInv /\ [Next]_vars => IInv'
<1> SUFFICES ASSUME IInv, [Next]_vars PROVE IInv'
  OBVIOUS
<1>1. CASE \E trade \in BOOLEAN : StartRunner(trade)
  BY <1>1, StartRunnerStep
<1>2. CASE StartService \/ Close \/ SetStop \/ ClockMoves \/ PreflightAges \/ UNCHANGED vars
  BY <1>2, WorldStep
<1>3. CASE CloseEnds \/ Crash
  BY <1>3, EndStep
<1>4. ASSUME NEW c \in Calls, NEW p \in Proposals,
             \/ StartSubmit(c, p) \/ StartReconcile(c, p)
             \/ \E q \in Requests : StartAssess(c, p, q)
      PROVE  IInv'
  BY <1>4, StartCallStep
<1>5. ASSUME NEW c \in Calls, CallStep(c) \/ Disconnect(c)
      PROVE  IInv'
  BY <1>5, WorkerStep, AssessStep, AdvanceStep, DisconnectStep DEF CallStep, Workers
<1>6. CASE RunnerStep
  <2>1. Runner \in Workers
    BY DEF Workers
  <2>2. CASE \E i \in Bars, q \in Requests, s \in {"buy", "sell"} : Decide(i, q, s)
    BY <2>2, DecideStep
  <2>3. CASE Recheck
    BY <2>1, <2>3, AdvanceStep
  <2>4. CASE Step(Runner)
    BY <2>1, <2>4, WorkerStep
  <2> QED  BY <1>6, <2>2, <2>3, <2>4 DEF RunnerStep
<1>7. CASE \E q \in Requests : Place(q) \/ Trade(q)
  BY <1>7, BrokerStep
<1> QED  BY <1>1, <1>2, <1>3, <1>4, <1>5, <1>6, <1>7 DEF Next

LEMMA Invariant == Spec => []IInv
BY Initially, Inductive, PTL DEF Spec

(* The variables keep their types, and a cycle or a call works alone,      *)
(* whatever clients, the broker and the operator do meanwhile (run, close, *)
(* operator_lock).                                                         *)
THEOREM TypeCorrect == Spec => []TypeOK
<1>1. IInv => TypeOK
  BY OneActive DEF IInv, TypeOK, WorksAlone, LaneInv, Active, At
<1> QED  BY <1>1, Invariant, PTL

(* One order at most may still trade on the account: a worker that is past *)
(* the reservation found nothing pending, it works alone, and an order     *)
(* that may trade keeps its intent pending until the broker says otherwise *)
(* (runner.py, agent_service.py, state.pending_intents).                   *)
THEOREM OneOpen == Spec => []OneOpenOrder
<1>1. IInv => OneOpenOrder
  BY DEF IInv, DataInv
<1> QED  BY <1>1, Invariant, PTL

(* Whatever was sent is the request its bar or proposal is reserved for    *)
(* (state.reserve before adapter.submit).                                  *)
THEOREM OnePerIntent == Spec => []OneOrderPerIntent
<1>1. IInv => OneOrderPerIntent
  BY DEF IInv, DataInv
<1> QED  BY <1>1, Invariant, PTL

(* An outcome on record is one the order had (state.observe_order).        *)
THEOREM OutcomesHold == Spec => []OutcomeIsTrue
<1>1. IInv => OutcomeIsTrue
  BY DEF IInv, DataInv
<1> QED  BY <1>1, Invariant, PTL

(***************************************************************************)
(* What is never given up: only Reserve writes intents and only Assess     *)
(* binds proposals, both where nothing was.                                *)
(***************************************************************************)
LEMMA OnlyReserve ==
  ASSUME Next
  PROVE  (\E w \in Workers : Reserve(w)) \/ UNCHANGED slot
<1> USE DEF lane, tables, broker, world
<1>1. ASSUME NEW w \in Workers, Step(w), ~Reserve(w)
      PROVE  UNCHANGED slot
  BY <1>1 DEF Step, Recover, Observe, Recovered, Observed, Pass, Claim, Attempt, Answer, GiveUp,
              Finish
<1>2. ASSUME NEW c \in Calls, CallStep(c) \/ Disconnect(c), ~Reserve(c)
      PROVE  UNCHANGED slot
  BY <1>1, <1>2 DEF Workers, CallStep, Assess, CheckLane, Snapshot, Disconnect
<1>3. CASE RunnerStep
  BY <1>1, <1>3 DEF Workers, RunnerStep, Recheck, Decide
<1>4. ASSUME NEW c \in Calls, NEW p \in Proposals,
             \/ StartSubmit(c, p) \/ StartReconcile(c, p)
             \/ \E q \in Requests : StartAssess(c, p, q)
      PROVE  UNCHANGED slot
  BY <1>4 DEF StartSubmit, StartReconcile, StartAssess, Accept
<1>5. CASE \/ \E trade \in BOOLEAN : StartRunner(trade)
            \/ StartService \/ Close \/ CloseEnds \/ Crash \/ SetStop \/ ClockMoves
            \/ PreflightAges \/ \E q \in Requests : Place(q) \/ Trade(q)
  BY <1>5 DEF StartRunner, StartService, Close, CloseEnds, Crash, SetStop, ClockMoves,
              PreflightAges, Place, Trade
<1> QED  BY <1>2, <1>3, <1>4, <1>5 DEF Next, Workers

LEMMA OnlyAssess ==
  ASSUME Next
  PROVE  (\E c \in Calls : Assess(c)) \/ UNCHANGED bound
<1> USE DEF lane, tables, broker, world
<1>1. ASSUME NEW w \in Workers, Step(w)
      PROVE  UNCHANGED bound
  BY <1>1 DEF Step, Recover, Observe, Recovered, Observed, Reserve, Pass, Claim, Attempt, Answer,
              GiveUp, Finish
<1>2. ASSUME NEW c \in Calls, CallStep(c) \/ Disconnect(c), ~Assess(c)
      PROVE  UNCHANGED bound
  BY <1>1, <1>2 DEF Workers, CallStep, CheckLane, Snapshot, Disconnect
<1>3. CASE RunnerStep
  BY <1>1, <1>3 DEF Workers, RunnerStep, Recheck, Decide
<1>4. ASSUME NEW c \in Calls, NEW p \in Proposals,
             \/ StartSubmit(c, p) \/ StartReconcile(c, p)
             \/ \E q \in Requests : StartAssess(c, p, q)
      PROVE  UNCHANGED bound
  BY <1>4 DEF StartSubmit, StartReconcile, StartAssess, Accept
<1>5. CASE \/ \E trade \in BOOLEAN : StartRunner(trade)
            \/ StartService \/ Close \/ CloseEnds \/ Crash \/ SetStop \/ ClockMoves
            \/ PreflightAges \/ \E q \in Requests : Place(q) \/ Trade(q)
  BY <1>5 DEF StartRunner, StartService, Close, CloseEnds, Crash, SetStop, ClockMoves,
              PreflightAges, Place, Trade
<1> QED  BY <1>2, <1>3, <1>4, <1>5 DEF Next

(* No reservation and no binding of a proposal is ever given up, whatever  *)
(* fails or dies (state.reserve, agent_service.assess).                    *)
THEOREM NothingIsGivenUp == Spec => NothingGivenUp
<1>1. IInv /\ [Next]_vars =>
        [/\ \A i \in Intents : slot[i].request # None => slot'[i] = slot[i]
         /\ \A p \in Proposals : bound[p] # None => bound'[p] = bound[p]]_vars
  <2> SUFFICES ASSUME IInv, Next
               PROVE  /\ \A i \in Intents : slot[i].request # None => slot'[i] = slot[i]
                      /\ \A p \in Proposals : bound[p] # None => bound'[p] = bound[p]
    OBVIOUS
  <2> QED  BY OnlyReserve, OnlyAssess, ReserveStep, AssessStep
<1> QED  BY <1>1, Invariant, PTL DEF Spec, NothingGivenUp

(***************************************************************************)
(* The budget of a day.                                                    *)
(***************************************************************************)
LEMMA OneMore ==
  ASSUME NEW S, IsFiniteSet(S), NEW i, NEW T \in SUBSET (S \cup {i})
  PROVE  /\ Cardinality(S) \in Nat /\ Cardinality(T) \in Nat
         /\ Cardinality(T) <= Cardinality(S) + 1
<1>1. /\ IsFiniteSet(S \cup {i}) /\ Cardinality(S) \in Nat
      /\ Cardinality(S \cup {i}) <= Cardinality(S) + 1
  BY FS_AddElement, FS_CardinalityType
<1>2. IsFiniteSet(T) /\ Cardinality(T) <= Cardinality(S \cup {i})
  BY <1>1, FS_Subset
<1> QED  BY <1>1, <1>2, FS_CardinalityType

LEMMA ReserveKeepsExits ==
  ASSUME IInv, ExitsKept, NEW w \in Workers, Reserve(w)
  PROVE  ExitsKept'
<1>1. /\ job[w].intent \in Intents
      /\ CanReserve(job[w].intent, job[w].request, job[w].side)
      /\ slot' = [slot EXCEPT ![job[w].intent] =
                    [request |-> job[w].request, side |-> job[w].side, day |-> day]]
  BY DEF Reserve, At, IInv, JobInv, JobOK, Concerned, OrderSteps
<1>2. PICK i \in Intents : i = job[w].intent
  BY <1>1
<1>3. /\ slot'[i].side = job[w].side /\ slot'[i].day = day
      /\ \A k \in Intents : k # i => slot'[k] = slot[k]
  BY <1>1, <1>2 DEF IInv, Typed
<1>4. slot[i].request = None
  BY <1>1, <1>2 DEF CanReserve
<1> SUFFICES ASSUME NEW d \in 0..MaxDay
             PROVE  /\ Cardinality(Entries(d)') + ReservedExits <= MaxDaily
                    /\ Cardinality(Used(d)') <= MaxDaily
  BY DEF ExitsKept
<1>5. /\ IsFiniteSet(Used(d)) /\ IsFiniteSet(Entries(d))
  BY FiniteAssumption, FS_Subset DEF Used, Entries
<1>6. /\ Used(d)' \subseteq Used(d) \cup {i} /\ Entries(d)' \subseteq Entries(d) \cup {i}
  BY <1>3 DEF Used, Entries
<1>7. CASE d # day
  <2>1. Used(d)' = Used(d) /\ Entries(d)' = Entries(d)
    BY <1>3, <1>4, <1>7 DEF Used, Entries
  <2> QED  BY <2>1 DEF ExitsKept
<1>8. CASE d = day
  <2>1. /\ Cardinality(Used(d)) \in Nat /\ Cardinality(Used(d)') \in Nat
        /\ Cardinality(Used(d)') <= Cardinality(Used(d)) + 1
    BY <1>5, <1>6, OneMore
  <2>2. Cardinality(Used(d)') <= MaxDaily
    BY <1>1, <1>8, <2>1, BudgetAssumption DEF CanReserve
  <2>3. CASE job[w].side = "sell"
    <3>1. Entries(d)' = Entries(d)
      BY <1>3, <1>4, <2>3 DEF Used, Entries
    <3> QED  BY <2>2, <3>1 DEF ExitsKept
  <2>4. CASE job[w].side # "sell"
    <3>1. /\ Cardinality(Entries(d)) \in Nat /\ Cardinality(Entries(d)') \in Nat
          /\ Cardinality(Entries(d)') <= Cardinality(Entries(d)) + 1
      BY <1>5, <1>6, OneMore
    <3> QED
      BY <1>1, <1>8, <2>2, <2>4, <3>1, BudgetAssumption DEF CanReserve
  <2> QED  BY <2>3, <2>4
<1> QED  BY <1>7, <1>8

(* Entries leave the attempts kept for exits, and no day has more attempts *)
(* than its budget, however the clock is set (state.reserve).              *)
THEOREM ExitsAreKept == Spec => []ExitsKept
<1>1. Init => ExitsKept
  <2> SUFFICES ASSUME Init, NEW d \in 0..MaxDay
               PROVE  /\ Cardinality(Entries(d)) + ReservedExits <= MaxDaily
                      /\ Cardinality(Used(d)) <= MaxDaily
    BY DEF ExitsKept
  <2>1. Used(d) = {} /\ Entries(d) = {}
    BY DEF Init, Used, Entries, Empty
  <2> QED  BY <2>1, FS_EmptySet, BudgetAssumption
<1>2. IInv /\ ExitsKept /\ [Next]_vars => ExitsKept'
  <2> SUFFICES ASSUME IInv, ExitsKept, [Next]_vars PROVE ExitsKept'
    OBVIOUS
  <2>1. CASE \E w \in Workers : Reserve(w)
    BY <2>1, ReserveKeepsExits
  <2>2. CASE UNCHANGED slot
    BY <2>2 DEF ExitsKept, Entries, Used
  <2> QED  BY <2>1, <2>2, OnlyReserve DEF vars, tables
<1> QED  BY <1>1, <1>2, Invariant, PTL DEF Spec

(***************************************************************************)
(* What reaches the broker: only an order whose attempt the journal has,   *)
(* and so only an order with a reservation.                                *)
(***************************************************************************)
PlacedInv ==
  /\ placed \subseteq Requests
  /\ \A q \in placed : paper[q] \in {"attempted", "known"}

LEMMA JournalSteps ==
  ASSUME IInv, Next
  PROVE  Paper!Next \/ UNCHANGED <<paper, placed>>
<1> USE DEF tables, broker, world
<1>1. ASSUME NEW w \in Workers, Step(w)
      PROVE  Paper!Next \/ UNCHANGED <<paper, placed>>
  <2>1. Claim(w) \/ Attempt(w) \/ Answer(w) => job[w].request \in Requests
    BY DEF Claim, Attempt, Answer, At, IInv, JobInv, JobOK, Concerned, OrderSteps
  <2>2. CASE \E q \in Requests : Recover(w, q)
    BY <2>2 DEF Recover, Paper!Next
  <2>3. CASE Claim(w) \/ Attempt(w) \/ Answer(w)
    BY <2>1, <2>3 DEF Claim, Attempt, Answer, Paper!Next
  <2>4. CASE \/ \E q \in Requests : Observe(w, q)
             \/ Recovered(w) \/ Observed(w) \/ Reserve(w) \/ Pass(w) \/ GiveUp(w) \/ Finish(w)
    BY <2>4 DEF Observe, Recovered, Observed, Reserve, Pass, GiveUp, Finish
  <2> QED  BY <1>1, <2>2, <2>3, <2>4 DEF Step
<1>2. ASSUME NEW c \in Calls, CallStep(c) \/ Disconnect(c)
      PROVE  Paper!Next \/ UNCHANGED <<paper, placed>>
  BY <1>1, <1>2 DEF Workers, CallStep, Assess, CheckLane, Snapshot, Disconnect
<1>3. CASE RunnerStep
  BY <1>1, <1>3 DEF Workers, RunnerStep, Recheck, Decide
<1>4. ASSUME NEW c \in Calls, NEW p \in Proposals,
             \/ StartSubmit(c, p) \/ StartReconcile(c, p)
             \/ \E q \in Requests : StartAssess(c, p, q)
      PROVE  UNCHANGED <<paper, placed>>
  BY <1>4 DEF StartSubmit, StartReconcile, StartAssess, Accept
<1>5. CASE \E q \in Requests : Place(q) \/ Trade(q)
  BY <1>5 DEF Place, Trade, Paper!Next
<1>6. CASE \/ \E trade \in BOOLEAN : StartRunner(trade)
           \/ StartService \/ Close \/ CloseEnds \/ Crash \/ SetStop \/ ClockMoves
           \/ PreflightAges
  BY <1>6 DEF StartRunner, StartService, Close, CloseEnds, Crash, SetStop, ClockMoves,
              PreflightAges
<1> QED  BY <1>2, <1>3, <1>4, <1>5, <1>6 DEF Next

LEMMA PlacedKept ==
  ASSUME IInv, PlacedInv, Paper!Next \/ UNCHANGED <<paper, placed>>
  PROVE  PlacedInv'
<1>1. CASE UNCHANGED <<paper, placed>>
  BY <1>1 DEF PlacedInv
<1>2. CASE Paper!Next
  <2>1. PICK q \in Requests : \/ Paper!Claim(q) \/ Paper!Void(q) \/ Paper!Attempt(q)
                              \/ Paper!Place(q) \/ Paper!Learn(q)
    BY <1>2 DEF Paper!Next
  <2>2. DOMAIN paper = Requests
    BY DEF IInv, Typed
  <2> QED
    BY <2>1, <2>2 DEF PlacedInv, Paper!Claim, Paper!Void, Paper!Attempt, Paper!Place,
                      Paper!Learn, Paper!Become
<1> QED  BY <1>1, <1>2

(* The orders the broker holds for a day's reservations, and its entries.  *)
OfDay(d)     == {q \in placed : \E i \in Used(d) : slot[i].request = q}
EntriesOf(d) == {q \in placed : \E i \in Entries(d) : slot[i].request = q}

BrokerIsBudgeted ==
  /\ \A q \in placed : \E d \in 0..MaxDay : q \in OfDay(d)
  /\ \A d \in 0..MaxDay :
       /\ IsFiniteSet(OfDay(d)) /\ Cardinality(OfDay(d)) <= MaxDaily
       /\ Cardinality(EntriesOf(d)) + ReservedExits <= MaxDaily

(* No more orders than the reservations they were sent for.                *)
LEMMA OneOrderEach ==
  ASSUME NEW S, IsFiniteSet(S), S \subseteq Intents
  PROVE  LET T == {q \in placed : \E i \in S : slot[i].request = q} IN
         /\ IsFiniteSet(T) /\ Cardinality(T) \in Nat /\ Cardinality(S) \in Nat
         /\ Cardinality(T) <= Cardinality(S)
<1> DEFINE T == {q \in placed : \E i \in S : slot[i].request = q}
           R == {i \in S : slot[i].request \in placed}
           f == [i \in R |-> slot[i].request]
<1>1. IsFiniteSet(R) /\ Cardinality(R) <= Cardinality(S)
  BY FS_Subset
<1>2. f \in Surjection(R, T)
  <2>1. f \in [R -> T]
    OBVIOUS
  <2>2. \A q \in T : \E i \in R : f[i] = q
    OBVIOUS
  <2> QED  BY <2>1, <2>2 DEF Surjection
<1> HIDE DEF T, R, f
<1>3. IsFiniteSet(T) /\ Cardinality(T) <= Cardinality(R)
  BY <1>1, <1>2, FS_Surjection
<1>4. Cardinality(T) \in Nat /\ Cardinality(R) \in Nat /\ Cardinality(S) \in Nat
  BY <1>1, <1>3, FS_CardinalityType
<1>5. Cardinality(T) <= Cardinality(S)
  BY <1>1, <1>3, <1>4
<1> QED  BY <1>3, <1>4, <1>5 DEF T

(* Every order the broker holds of this account is one that a bar or a     *)
(* proposal has a reservation for, and of no day are there more than the   *)
(* budget allows, or more entries than leave the exits their attempts:     *)
(* whichever program sent it, on whatever day it got there, however often  *)
(* they died and wherever the clock was set (state.reserve, the paper      *)
(* adapter's _submit_authorized).                                          *)
THEOREM BrokerOrdersAreBudgeted == Spec => []BrokerIsBudgeted
<1>1. Init => PlacedInv
  BY DEF Init, Paper!Init, PlacedInv
<1>2. IInv /\ PlacedInv /\ [Next]_vars => PlacedInv'
  <2>1. ASSUME UNCHANGED vars
        PROVE  UNCHANGED <<paper, placed>>
    BY <2>1 DEF vars, broker
  <2> QED  BY <2>1, JournalSteps, PlacedKept
<1>3. IInv /\ PlacedInv /\ ExitsKept => BrokerIsBudgeted
  <2> SUFFICES ASSUME IInv, PlacedInv, ExitsKept PROVE BrokerIsBudgeted
    OBVIOUS
  <2>1. ASSUME NEW q \in placed
        PROVE  \E d \in 0..MaxDay : q \in OfDay(d)
    <3>1. q \in Requests /\ paper[q] \in {"attempted", "known"}
      BY DEF PlacedInv
    <3>2. PICK i \in Intents : slot[i].request = q
      BY <3>1 DEF IInv, DataInv, OneOrderPerIntent, Reserved
    <3>3. slot[i].day \in 0..MaxDay /\ q # None
      BY <3>1, NamesAssumption DEF IInv, Typed, Slots
    <3> QED  BY <3>2, <3>3 DEF OfDay, Used
  <2>2. ASSUME NEW d \in 0..MaxDay
        PROVE  /\ IsFiniteSet(OfDay(d)) /\ Cardinality(OfDay(d)) <= MaxDaily
               /\ Cardinality(EntriesOf(d)) + ReservedExits <= MaxDaily
    <3>1. /\ IsFiniteSet(Used(d)) /\ IsFiniteSet(Entries(d))
          /\ Used(d) \subseteq Intents /\ Entries(d) \subseteq Intents
      BY FiniteAssumption, FS_Subset DEF Used, Entries
    <3>2. /\ Cardinality(Entries(d)) + ReservedExits <= MaxDaily
          /\ Cardinality(Used(d)) <= MaxDaily
      BY DEF ExitsKept
    <3>3. /\ IsFiniteSet(OfDay(d)) /\ Cardinality(OfDay(d)) \in Nat
          /\ Cardinality(Used(d)) \in Nat
          /\ Cardinality(OfDay(d)) <= Cardinality(Used(d))
      BY <3>1, OneOrderEach DEF OfDay
    <3>4. /\ Cardinality(EntriesOf(d)) \in Nat /\ Cardinality(Entries(d)) \in Nat
          /\ Cardinality(EntriesOf(d)) <= Cardinality(Entries(d))
      BY <3>1, OneOrderEach DEF EntriesOf
    <3> QED  BY <3>2, <3>3, <3>4, BudgetAssumption
  <2> QED  BY <2>1, <2>2 DEF BrokerIsBudgeted
<1> QED  BY <1>1, <1>2, <1>3, Invariant, ExitsAreKept, PTL DEF Spec
=============================================================================
