------------------------ MODULE PaperRefinementProofs ------------------------
(***************************************************************************)
(* PaperSubmission implements PaperOrder, for any number of hosts,         *)
(* requests and receipts.                                                  *)
(***************************************************************************)
EXTENDS PaperSubmissionProofs

Records == [q \in Requests |-> Status(q)]
Booked  == {q \in Requests : order[q] = "accepted"}

(* How a status reads from the state of a row.                             *)
LEMMA StatusOf ==
  ASSUME TypeOK, NEW q \in Requests
  PROVE  /\ row[q].state = "absent"    => Status(q) = "free"
         /\ row[q].state = "claimed"   => Status(q) = "claimed"
         /\ row[q].state = "closed"    => Status(q) = "void"
         /\ row[q].state \in {"submitting", "uncertain"} => Status(q) = "attempted"
         /\ row[q].state \in {"submitted", "found"}      => Status(q) = "known"
BY DEF Status

LEMMA StatusOfNext ==
  ASSUME TypeOK', NEW q \in Requests
  PROVE  /\ row'[q].state = "absent"    => Status(q)' = "free"
         /\ row'[q].state = "claimed"   => Status(q)' = "claimed"
         /\ row'[q].state = "closed"    => Status(q)' = "void"
         /\ row'[q].state \in {"submitting", "uncertain"} => Status(q)' = "attempted"
         /\ row'[q].state \in {"submitted", "found"}      => Status(q)' = "known"
BY DEF Status

(* Where no state changes no status does, and where one does only its      *)
(* identity's may.                                                         *)
LEMMA SameRecords ==
  ASSUME \A q \in Requests : row'[q].state = row[q].state
  PROVE  UNCHANGED Records
<1>1. \A q \in Requests : Status(q)' = Status(q)
  BY DEF Status
<1> QED BY <1>1 DEF Records

LEMMA OneRecord ==
  ASSUME NEW q \in Requests, \A p \in Requests \ {q} : row'[p].state = row[p].state
  PROVE  Records' = [Records EXCEPT ![q] = Status(q)']
<1>1. \A p \in Requests \ {q} : Status(p)' = Status(p)
  BY DEF Status
<1> QED BY <1>1 DEF Records

(* Steps of the lane that are steps of the promise. *)

LEMMA ConsumeClaims ==
  ASSUME IInv, IInv', NEW h \in Hosts, NEW q \in Requests, q = lane[h].request,
         Consume(h)
  PROVE  Promise!Next
<1>1. Claims(h, q, lane[h].receipt)
  BY ConsumeEffect DEF IInv
<1>2. q \in Requests /\ Status(q) = "free" /\ Status(q)' = "claimed"
  BY <1>1, StatusOf, StatusOfNext DEF Claims, Claimed, IInv
<1>3. Records' = [Records EXCEPT ![q] = "claimed"] /\ UNCHANGED Booked
  BY <1>1, <1>2, OneRecord DEF Claims, Booked
<1>4. Promise!Claim(q)
  BY <1>2, <1>3 DEF Promise!Claim, Promise!Become, Records, Booked
<1> QED BY <1>2, <1>4 DEF Promise!Next

(* A write that changes the state of its request from one state to another *)
(* changes that one status.                                                *)
LEMMA WriteMaps ==
  ASSUME IInv, IInv', NEW h \in Hosts, NEW step, NEW next, NEW from, NEW to,
         NEW q \in Requests, q = lane[h].request,
         Writes(h, step, from, to, next)
  PROVE  /\ UNCHANGED Booked
         /\ row[q].state \notin from => UNCHANGED Records
         /\ row[q].state \in from =>
              /\ Records' = [Records EXCEPT ![q] = Status(q)']
              /\ row'[q].state = to
<1>1. \A p \in Requests \ {q} : row'[p].state = row[p].state
  BY DEF Writes, Marks
<1>2. q \in Requests /\ UNCHANGED order
  BY DEF Writes
<1>3. CASE row[q].state \notin from
  <2>1. \A p \in Requests : row'[p].state = row[p].state
    BY <1>3 DEF Writes, Marks
  <2> QED BY <1>2, <1>3, <2>1, SameRecords DEF Booked
<1>4. CASE row[q].state \in from
  BY <1>1, <1>2, <1>4, OneRecord DEF Booked, Writes, Marks
<1> QED BY <1>3, <1>4

LEMMA BeginAttempts ==
  ASSUME IInv, IInv', NEW h \in Hosts, NEW q \in Requests, q = lane[h].request,
         BeginSubmission(h)
  PROVE  Promise!Next
<1>1. Writes(h, "cleared", {"claimed"}, "submitting", "begun")
  BY BeginEffect DEF IInv
<1>2. row[q].state = "claimed"
  BY DEF BeginSubmission
<1>2a. row'[q].state = "submitting"
  BY <1>1, <1>2, WriteMaps
<1>3. Status(q) = "claimed" /\ Status(q)' = "attempted"
  BY <1>2, <1>2a, StatusOf, StatusOfNext DEF IInv
<1>4. Records' = [Records EXCEPT ![q] = "attempted"] /\ UNCHANGED Booked
  BY <1>1, <1>2, <1>3, WriteMaps
<1>5. Promise!Attempt(q)
  BY <1>2, <1>3, <1>4 DEF Promise!Attempt, Promise!Become, Records, Booked
<1> QED BY <1>2, <1>5 DEF Promise!Next

LEMMA CloseVoids ==
  ASSUME IInv, IInv', NEW h \in Hosts, NEW q \in Requests, q = lane[h].request,
         CloseClaim(h)
  PROVE  Promise!Next \/ UNCHANGED <<Records, Booked>>
<1>1. Writes(h, "closing", {"claimed"}, "closed", "idle")
  BY CloseEffect DEF IInv
<1>2. CASE row[q].state # "claimed"
  BY <1>1, <1>2, WriteMaps
<1>3. CASE row[q].state = "claimed"
  <2>1. row'[q].state = "closed"
    BY <1>1, <1>3, WriteMaps
  <2>2. Status(q) = "claimed" /\ Status(q)' = "void"
    BY <1>3, <2>1, StatusOf, StatusOfNext DEF IInv
  <2>3. Records' = [Records EXCEPT ![q] = "void"] /\ UNCHANGED Booked
    BY <1>1, <1>3, <2>2, WriteMaps
  <2>4. Promise!Void(q)
    BY <2>1, <2>2, <2>3 DEF Promise!Void, Promise!Become, Records, Booked
  <2> QED BY <2>1, <2>4 DEF Promise!Next
<1> QED BY <1>2, <1>3

(* A write that resolves an attempt learns of an order that is there; one  *)
(* on a row known already changes nothing.                                 *)
LEMMA WriteLearns ==
  ASSUME IInv, IInv', NEW h \in Hosts, NEW next,
         NEW step \in {"answered", "seen"}, NEW from \in SUBSET Attempted,
         NEW q \in Requests, q = lane[h].request,
         NEW to \in {"submitted", "found"},
         Writes(h, step, from, to, next)
  PROVE  Promise!Next \/ UNCHANGED <<Records, Booked>>
<1>1. q \in Requests /\ q \in Booked
  BY DEF Writes, Booked, IInv, KnownIsAccepted
<1>2. CASE row[q].state \notin from
  BY <1>2, WriteMaps
<1>3. CASE row[q].state \in from /\ row[q].state = "submitted"
  <2>1. \A p \in Requests \ {q} : row'[p].state = row[p].state
    BY DEF Writes, Marks
  <2>2. row'[q].state = to
    BY <1>3, WriteMaps
  <2>3. Status(q) = "known" /\ Status(q)' = "known"
    BY <1>1, <1>3, <2>2, StatusOf, StatusOfNext DEF IInv
  <2>4. Records' = [Records EXCEPT ![q] = "known"] /\ UNCHANGED Booked
    BY <1>3, <2>3, WriteMaps
  <2> QED BY <1>1, <2>3, <2>4 DEF Records
<1>4. CASE row[q].state \in from /\ row[q].state # "submitted"
  <2>1. row[q].state \in {"submitting", "uncertain"}
    BY <1>4 DEF Attempted
  <2>1a. row'[q].state = to
    BY <1>4, WriteMaps
  <2>2. Status(q) = "attempted" /\ Status(q)' = "known"
    BY <2>1, <2>1a, StatusOf, StatusOfNext DEF IInv
  <2>3. Records' = [Records EXCEPT ![q] = "known"] /\ UNCHANGED Booked
    BY <1>4, <2>2, WriteMaps
  <2>4. Promise!Learn(q)
    BY <1>1, <2>2, <2>3 DEF Promise!Learn, Promise!Become, Records, Booked
  <2> QED BY <1>1, <2>4 DEF Promise!Next
<1> QED BY <1>2, <1>3, <1>4

LEMMA UncertainIsAttempted ==
  ASSUME IInv, IInv', NEW h \in Hosts, NEW q \in Requests, q = lane[h].request,
         MarkUncertain(h)
  PROVE  UNCHANGED <<Records, Booked>>
<1>1. Writes(h, "failing", {"submitting"}, "uncertain", "idle")
  BY MarkUncertainEffect DEF IInv
<1>2. row[q].state = "submitting"
  BY DEF MarkUncertain
<1>2a. row'[q].state = "uncertain"
  BY <1>1, <1>2, WriteMaps
<1>3. Status(q) = "attempted" /\ Status(q)' = "attempted"
  BY <1>2, <1>2a, StatusOf, StatusOfNext DEF IInv
<1>4. Records' = [Records EXCEPT ![q] = "attempted"] /\ UNCHANGED Booked
  BY <1>1, <1>2, <1>3, WriteMaps
<1> QED BY <1>2, <1>3, <1>4 DEF Records

LEMMA BrokerPlaces ==
  ASSUME IInv, IInv', NEW q \in Requests, BrokerDecides(q)
  PROVE  Promise!Next \/ UNCHANGED <<Records, Booked>>
<1>1. UNCHANGED Records
  BY SameRecords DEF BrokerDecides, journal
<1>2. PICK outcome \in {"accepted", "lost"} :
        order[q] = "inflight" /\ order' = [order EXCEPT ![q] = outcome]
  BY DEF BrokerDecides
<1>3. \A p \in Requests : order'[p] = IF p = q THEN outcome ELSE order[p]
  BY <1>2 DEF IInv, TypeOK
<1>4. CASE outcome = "lost"
  <2>1. UNCHANGED Booked
    BY <1>2, <1>3, <1>4 DEF Booked
  <2> QED BY <1>1, <2>1
<1>5. CASE outcome = "accepted"
  <2>1. row[q].state \in {"submitting", "uncertain"}
    <3>1. row[q].state \notin Unsent
      BY <1>2 DEF IInv, SentOnce, NothingSent
    <3>2. row[q].state \notin {"submitted", "found"}
      BY <1>2 DEF IInv, KnownIsAccepted
    <3>3. row[q].state \in States
      BY DEF IInv, TypeOK, Rows
    <3> QED BY <3>1, <3>2, <3>3 DEF States, Unsent
  <2>2. Status(q) = "attempted"
    BY <2>1, StatusOf DEF IInv
  <2>3. q \notin Booked /\ Booked' = Booked \cup {q}
    BY <1>2, <1>3, <1>5 DEF Booked
  <2>4. Promise!Place(q)
    BY <1>1, <2>2, <2>3 DEF Promise!Place, Records, Booked
  <2> QED BY <2>4 DEF Promise!Next
<1> QED BY <1>4, <1>5

(* A step that touches no row, and at most sends an order off, is a        *)
(* stutter.                                                                *)
Untouched(q) == \/ order'[q] = order[q]
                \/ order'[q] = "inflight" /\ order[q] = "none"

LEMMA Stutters ==
  ASSUME UNCHANGED row, \A p \in Requests : Untouched(p)
  PROVE  UNCHANGED <<Records, Booked>>
<1>1. UNCHANGED Records
  BY SameRecords
<1>2. UNCHANGED Booked
  BY DEF Booked, Untouched
<1> QED BY <1>1, <1>2

LEMMA StepImplements ==
  ASSUME IInv, IInv', [Next]_vars
  PROVE  Promise!Next \/ UNCHANGED <<Records, Booked>>
<1> DEFINE Goal == Promise!Next \/ UNCHANGED <<Records, Booked>>
<1>2. ASSUME NEW h \in Hosts, Work(h) PROVE Goal
  <2>0. PICK q \in Requests : q = lane[h].request
    BY <1>2, BusyHasRequest DEF IInv, Work, Screen, SubmitRefused, ConsumeExpired,
       Consume, Clear, Stopped, BeginSubmission, BeginFails, CallBroker,
       Answered, CallRaises, MarkSubmitted, MarkSubmittedFails, MarkUncertain,
       GiveUp, CloseClaim, LookUp, MarkFound, ReconcileFails
  <2>1. CASE Consume(h)
    BY <2>1, <2>0, ConsumeClaims
  <2>2. CASE BeginSubmission(h)
    BY <2>2, <2>0, BeginAttempts
  <2>3. CASE MarkSubmitted(h)
    BY <2>3, <2>0, MarkSubmittedEffect, WriteLearns DEF IInv, Attempted
  <2>4. CASE MarkUncertain(h)
    BY <2>4, <2>0, UncertainIsAttempted
  <2>5. CASE CloseClaim(h)
    BY <2>5, <2>0, CloseVoids
  <2>6. CASE MarkFound(h)
    BY <2>6, <2>0, FoundEffect, WriteLearns DEF IInv
  <2>7. CASE CallBroker(h)
    <3>1. UNCHANGED row
      BY <2>7 DEF CallBroker, journal
    <3>2. \A p \in Requests : Untouched(p)
      BY <2>7 DEF CallBroker, IInv, TypeOK, Untouched
    <3> QED BY <3>1, <3>2, Stutters
  <2>8. CASE \/ Screen(h) \/ SubmitRefused(h) \/ ConsumeExpired(h) \/ Clear(h) \/ Stopped(h)
             \/ BeginFails(h) \/ Answered(h) \/ CallRaises(h)
             \/ MarkSubmittedFails(h) \/ GiveUp(h) \/ LookUp(h) \/ ReconcileFails(h)
    <3>1. UNCHANGED <<row, order>>
      BY <2>8 DEF Screen, SubmitRefused, ConsumeExpired, Clear, Stopped, BeginFails,
                  Answered, CallRaises, MarkSubmittedFails, GiveUp, LookUp,
                  ReconcileFails, journal
    <3> QED BY <3>1, Stutters DEF Untouched
  <2> QED BY <1>2, <2>1, <2>2, <2>3, <2>4, <2>5, <2>6, <2>7, <2>8 DEF Work
<1>3. ASSUME NEW q \in Requests, BrokerDecides(q) PROVE Goal
  BY <1>3, BrokerPlaces
<1>4. ASSUME \/ \E h \in Hosts : Crash(h)
             \/ \E h \in Hosts, r \in Receipts : Submit(h, r)
             \/ \E h \in Hosts, q \in Requests : Reconcile(h, q)
             \/ SetStop \/ LiftStop \/ ClockMoves
             \/ UNCHANGED vars
      PROVE  Goal
  <2>1. UNCHANGED <<row, order>>
    BY <1>4 DEF Crash, Submit, Reconcile, SetStop, LiftStop, ClockMoves,
       journal, vars
  <2> QED BY <2>1, Stutters DEF Untouched
<1> QED BY <1>2, <1>3, <1>4 DEF Next

(* What the lane's records say of an identity keeps the promises of        *)
(* PaperOrder.                                                             *)
THEOREM Refinement == Spec => ImplementsPaperOrder
<1>1. Init => Promise!Init
  <2> SUFFICES ASSUME Init PROVE Promise!Init
    OBVIOUS
  <2>1. TypeOK /\ \A q \in Requests : row[q].state = "absent"
    BY InvInit DEF Init, NoRow, IInv
  <2>2. \A q \in Requests : Status(q) = "free"
    BY <2>1, StatusOf
  <2>3. Booked = {}
    BY DEF Init, Booked
  <2> QED BY <2>2, <2>3 DEF Promise!Init, Booked
<1>2. IInv /\ IInv' /\ [Next]_vars =>
        [Promise!Next]_<<[q \in Requests |-> Status(q)], {q \in Requests : order[q] = "accepted"}>>
  BY StepImplements DEF Records, Booked
<1> QED BY <1>1, <1>2, Invariance, PTL DEF Spec, ImplementsPaperOrder,
           Promise!Spec
=============================================================================
