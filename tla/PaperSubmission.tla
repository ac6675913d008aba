-------------------------- MODULE PaperSubmission --------------------------
(***************************************************************************)
(* The Alpaca paper lane: agent tools, adapter and durable submission      *)
(* journal.                                                                *)
(*                                                                         *)
(*   row     SQLiteAlpacaPaperSubmissionJournal, one durable row a request *)
(*   last    the journal's durable last_clock                              *)
(*   lane    what each host process is doing under its tools lock          *)
(*   owned   _owned_claims of each host: lost when the process dies        *)
(*   stop    the operator's STOP, read through execution_enabled           *)
(*   now     the wall clock, which may be set back                         *)
(*   order   what has become of the request at the broker                  *)
(*   calls, overtaken, expired, crashes   history, read by no step         *)
(*                                                                         *)
(* Several hosts may open one journal file: only its transactions are      *)
(* atomic between them.  One action is one transaction, one broker call    *)
(* or one read of STOP, and a host may die between any two.  A journal     *)
(* write may fail before its commit, or report an error after it, when     *)
(* the file permissions cannot be reset.                                   *)
(*                                                                         *)
(* A definition named Bug... is the definition after it with one plausible *)
(* mistake put in; nothing uses it here.                                   *)
(***************************************************************************)
EXTENDS Naturals, FiniteSets

CONSTANTS Hosts,          \* processes with a lane on the same journal
          Requests,       \* canonical request identities
          Receipts,       \* authenticated pass receipts
          RequestOf,      \* the one request each receipt is bound to
          Expiry,         \* expires_at of each receipt
          None,           \* no request, no receipt, no host
          MaxEntries,     \* max_entries of the journal
          MaxClock,       \* bound: the latest reading of the wall clock
          MaxCrashes      \* bound: process deaths in a behaviour

ASSUME BindingAssumption ==
  /\ RequestOf \in [Receipts -> Requests]
  /\ Expiry \in [Receipts -> Nat]
ASSUME BoundAssumption == MaxEntries \in Nat /\ MaxClock \in Nat /\ MaxCrashes \in Nat
ASSUME NoneAssumption == None \notin Hosts \cup Requests \cup Receipts

VARIABLES row, last, lane, owned, stop, now, order, calls, overtaken, expired, crashes

journal == <<row, last>>
history == <<calls, overtaken, expired, crashes>>
vars == <<row, last, lane, owned, stop, now, order, calls, overtaken, expired, crashes>>

-----------------------------------------------------------------------------
(* Data. "found" and "closed" are the two resolutions of a reconciled row: *)
(* broker_order_found and not_submitted.                                   *)

States == {"absent", "claimed", "submitting", "submitted", "uncertain",
           "found", "closed"}

Rows  == [state : States, receipt : Receipts \cup {None},
          claimant : Hosts \cup {None}]
NoRow == [state |-> "absent", receipt |-> None, claimant |-> None]

(* Where a lane stands.  Submission: starting, checking account and receipt, *)
(* claimed, cleared of STOP, begun, calling the broker, answered, failing. *)
(* Reconciliation: closing a claim, looking the order up, or having it.    *)
Steps == {"idle", "starting", "checking", "claimed", "cleared", "begun",
          "calling", "answered", "failing", "closing", "looking", "seen"}

Lanes == [at : Steps, request : Requests \cup {None},
          receipt : Receipts \cup {None}]
Idle  == [at |-> "idle", request |-> None, receipt |-> None]

TypeOK ==
  /\ row \in [Requests -> Rows]
  /\ last \in 0..MaxClock
  /\ lane \in [Hosts -> Lanes]
  /\ owned \in [Hosts -> SUBSET Requests]
  /\ stop \in BOOLEAN
  /\ now \in 0..MaxClock
  /\ order \in [Requests -> {"none", "inflight", "accepted", "lost"}]
  /\ calls \in [Requests -> Nat]
  /\ overtaken \in SUBSET Hosts
  /\ expired \in SUBSET Receipts
  /\ crashes \in 0..MaxCrashes
  /\ \A q \in Requests : (row[q].state = "absent") <=> (row[q].receipt = None)
  /\ \A h \in Hosts : (lane[h].at = "idle") <=> (lane[h].request = None)

Init ==
  /\ row = [q \in Requests |-> NoRow]
  /\ last = 0
  /\ lane = [h \in Hosts |-> Idle]
  /\ owned = [h \in Hosts |-> {}]
  /\ stop = FALSE
  /\ now = 0
  /\ order = [q \in Requests |-> "none"]
  /\ calls = [q \in Requests |-> 0]
  /\ overtaken = {}
  /\ expired = {}
  /\ crashes = 0

-----------------------------------------------------------------------------
(* Helpers. *)

(* The lane takes up a call, moves on with it, or lets its lock go.        *)
Take(h, step, q, r) ==
  lane' = [lane EXCEPT ![h] = [at |-> step, request |-> q, receipt |-> r]]
Move(h, step) == lane' = [lane EXCEPT ![h].at = step]
Release(h)    == lane' = [lane EXCEPT ![h] = Idle]

(* Every journal write first records its own clock reading, and refuses    *)
(* when that is behind the one of an earlier write.                        *)
ClockRecorded == now >= last /\ last' = now

SetState(q, s) == row' = [row EXCEPT ![q].state = s]

(* A write that ended without error takes the claim out of the host's      *)
(* memory; one that reported an error after its commit leaves it there.    *)
Forget(h, q) == owned' = [owned EXCEPT ![h] = @ \ {q}]

(* The states from which a lookup may find the order.                      *)
BugCrashForgotten == {"uncertain", "submitted"}
Attempted == {"submitting", "uncertain", "submitted"}

(* recovery_candidates(): claims and attempts nobody has resolved.         *)
BugOnlyUncertain == {q \in Requests : row[q].state = "uncertain"}
Candidates ==
  {q \in Requests : row[q].state \in {"claimed", "submitting", "uncertain"}}

BugReplaced(q) == TRUE
Unrecorded(q)  == row[q].state = "absent"

-----------------------------------------------------------------------------
(* Submission. *)

(* _dispatch: nothing is recorded for the request and execution is enabled. *)
Submit(h, r) ==
  /\ lane[h].at = "idle"
  /\ row[RequestOf[r]].state = "absent"
  /\ ~stop
  /\ Take(h, "starting", RequestOf[r], r)
  /\ UNCHANGED <<journal, owned, stop, now, order, history>>

(* No candidate is left.                                                   *)
Screen(h) ==
  /\ lane[h].at = "starting"
  /\ Candidates = {}
  /\ Move(h, "checking")
  /\ UNCHANGED <<journal, owned, stop, now, order, history>>

(* There is a candidate or it cannot be read; or the account is            *)
(* unavailable or another one, the guard rejects the receipt, or consume() *)
(* cannot claim it.                                                        *)
SubmitRefused(h) ==
  /\ lane[h].at \in {"starting", "checking"}
  /\ Release(h)
  /\ UNCHANGED <<journal, owned, stop, now, order, history>>

(* consume() on an expired receipt answers False, but commits the clock it *)
(* saw.                                                                    *)
BugExpiryRolledBack(h) ==
  /\ lane[h].at = "checking"
  /\ now >= last
  /\ Expiry[lane[h].receipt] <= now
  /\ expired' = expired \cup {lane[h].receipt}
  /\ Release(h)
  /\ UNCHANGED <<journal, owned, stop, now, order, calls, overtaken, crashes>>
ConsumeExpired(h) ==
  /\ lane[h].at = "checking"
  /\ ClockRecorded
  /\ Expiry[lane[h].receipt] <= now
  /\ expired' = expired \cup {lane[h].receipt}
  /\ Release(h)
  /\ UNCHANGED <<row, owned, stop, now, order, calls, overtaken, crashes>>

(* consume(): the row is inserted once and for all.  The host owns the     *)
(* claim only if the commit reported no error.                             *)
BugClaimed(r, h) == [state |-> "claimed", receipt |-> None, claimant |-> h]
Claimed(r, h)    == [state |-> "claimed", receipt |-> r, claimant |-> h]

Consume(h) ==
  LET r == lane[h].receipt
      q == lane[h].request
  IN /\ lane[h].at = "checking"
     /\ ClockRecorded
     /\ Expiry[r] > now
     /\ Cardinality({p \in Requests : row[p].state # "absent"}) < MaxEntries
     /\ Unrecorded(q)
     /\ row' = [row EXCEPT ![q] = Claimed(r, h)]
     /\ \/ Move(h, "claimed") /\ owned' = [owned EXCEPT ![h] = @ \cup {q}]
        \/ Release(h) /\ UNCHANGED owned
     /\ UNCHANGED <<stop, now, order, history>>

(* _EnabledPaperGateway._submit_authorized reads STOP again, after the     *)
(* account was read and the receipt claimed.  A stopped claim stays.       *)
BugNotRechecked(h) ==
  /\ lane[h].at = "claimed"
  /\ Move(h, "cleared")
  /\ UNCHANGED <<journal, owned, stop, now, order, history>>
Clear(h) ==
  /\ lane[h].at = "claimed"
  /\ ~stop
  /\ Move(h, "cleared")
  /\ UNCHANGED <<journal, owned, stop, now, order, history>>

Stopped(h) ==
  /\ lane[h].at = "claimed"
  /\ stop
  /\ Release(h)
  /\ UNCHANGED <<journal, owned, stop, now, order, history>>

(* begin_submission(): the owner moves its claim into the one attempt.     *)
BugClosedMayBegin(h) ==
  LET q == lane[h].request
  IN /\ lane[h].at = "cleared"
     /\ ClockRecorded
     /\ q \in owned[h]
     /\ SetState(q, "submitting")
     /\ Move(h, "begun") \/ Release(h)
     /\ UNCHANGED <<owned, stop, now, order, history>>
BeginSubmission(h) ==
  LET q == lane[h].request
  IN /\ lane[h].at = "cleared"
     /\ ClockRecorded
     /\ q \in owned[h]
     /\ row[q].state = "claimed" /\ row[q].receipt = lane[h].receipt
     /\ SetState(q, "submitting")
     /\ Move(h, "begun") \/ Release(h)
     /\ UNCHANGED <<owned, stop, now, order, history>>

BeginFails(h) ==
  /\ lane[h].at = "cleared"
  /\ Release(h)
  /\ UNCHANGED <<journal, owned, stop, now, order, history>>

(* client.submit_order leaves the process.  The broker keeps one order a   *)
(* client_order_id.                                                        *)
CallBroker(h) ==
  LET q == lane[h].request
  IN /\ lane[h].at = "begun"
     /\ Move(h, "calling")
     /\ calls' = [calls EXCEPT ![q] = @ + 1]
     /\ order' = [order EXCEPT ![q] = IF @ = "none" THEN "inflight" ELSE @]
     /\ UNCHANGED <<journal, owned, stop, now, overtaken, expired, crashes>>

(* It returns an order with the expected identity, or raises: refused,     *)
(* timed out, or answered with an identity that does not match.            *)
Answered(h) ==
  /\ lane[h].at = "calling"
  /\ order[lane[h].request] = "accepted"
  /\ Move(h, "answered")
  /\ UNCHANGED <<journal, owned, stop, now, order, history>>

CallRaises(h) ==
  /\ lane[h].at = "calling"
  /\ Move(h, "failing")
  /\ UNCHANGED <<journal, owned, stop, now, order, history>>

(* mark_submitted(), which also accepts that another host has already      *)
(* reconciled the order.                                                   *)
MarkSubmitted(h) ==
  LET q == lane[h].request
  IN /\ lane[h].at = "answered"
     /\ ClockRecorded
     /\ q \in owned[h]
     /\ \/ row[q].state = "submitting" /\ SetState(q, "submitted")
        \/ row[q].state = "found" /\ UNCHANGED row
     /\ \/ Forget(h, q) /\ Release(h)
        \/ UNCHANGED owned /\ Move(h, "failing")
     /\ UNCHANGED <<stop, now, order, history>>

MarkSubmittedFails(h) ==
  /\ lane[h].at = "answered"
  /\ Move(h, "failing")
  /\ UNCHANGED <<journal, owned, stop, now, order, history>>

(* mark_uncertain(), whose own failure is suppressed: "submitting" is just *)
(* as sticky.                                                              *)
MarkUncertain(h) ==
  LET q == lane[h].request
  IN /\ lane[h].at = "failing"
     /\ ClockRecorded
     /\ q \in owned[h]
     /\ row[q].state = "submitting"
     /\ SetState(q, "uncertain")
     /\ Forget(h, q) \/ UNCHANGED owned
     /\ Release(h)
     /\ UNCHANGED <<stop, now, order, history>>

BugWriteFailureOnly(h) ==
  /\ lane[h].at = "failing"
  /\ row[lane[h].request].state = "submitting"
  /\ Release(h)
  /\ UNCHANGED <<journal, owned, stop, now, order, history>>
GiveUp(h) ==
  /\ lane[h].at = "failing"
  /\ Release(h)
  /\ UNCHANGED <<journal, owned, stop, now, order, history>>

-----------------------------------------------------------------------------
(* Reconciliation. *)

(* reconcile() reads the row: a claim will be closed locally, an attempt   *)
(* is looked up.  A reconciled row is returned as it is.                   *)
BugClaimsSkipped(h, q) ==
  /\ lane[h].at = "idle"
  /\ row[q].state \in Attempted /\ Take(h, "looking", q, None)
  /\ UNCHANGED <<journal, owned, stop, now, order, history>>
Reconcile(h, q) ==
  /\ lane[h].at = "idle"
  /\ \/ row[q].state = "claimed" /\ Take(h, "closing", q, None)
     \/ row[q].state \in Attempted /\ Take(h, "looking", q, None)
  /\ UNCHANGED <<journal, owned, stop, now, order, history>>

(* mark_reconciled(not_submitted).  The row may have changed since it was  *)
(* read: only one still claimed is closed.                                 *)
BugClosable(q) == row[q].state \in {"claimed", "submitting"}
Closable(q)    == row[q].state = "claimed"

CloseClaim(h) ==
  LET q == lane[h].request
  IN /\ lane[h].at = "closing"
     /\ ClockRecorded
     /\ \/ /\ Closable(q) /\ SetState(q, "closed")
           /\ Forget(h, q) \/ UNCHANGED owned
        \/ row[q].state = "closed" /\ UNCHANGED <<row, owned>>
     /\ Release(h)
     /\ UNCHANGED <<stop, now, order, history>>

(* The account check and get_order_by_client_id.                           *)
LookUp(h) ==
  /\ lane[h].at = "looking"
  /\ order[lane[h].request] = "accepted"
  /\ Move(h, "seen")
  /\ UNCHANGED <<journal, owned, stop, now, order, history>>

(* mark_reconciled(broker_order_found).                                    *)
MarkFound(h) ==
  LET q == lane[h].request
  IN /\ lane[h].at = "seen"
     /\ ClockRecorded
     /\ \/ /\ row[q].state \in Attempted /\ SetState(q, "found")
           /\ Forget(h, q) \/ UNCHANGED owned
        \/ row[q].state = "found" /\ UNCHANGED <<row, owned>>
     /\ Release(h)
     /\ UNCHANGED <<stop, now, order, history>>

(* No answer, no such order, or a journal write that failed: the row is as *)
(* it was.                                                                 *)
ReconcileFails(h) ==
  /\ lane[h].at \in {"closing", "looking", "seen"}
  /\ Release(h)
  /\ UNCHANGED <<journal, owned, stop, now, order, history>>

-----------------------------------------------------------------------------
(* The world around the lanes. *)

BrokerDecides(q) ==
  /\ order[q] = "inflight"
  /\ \E outcome \in {"accepted", "lost"} : order' = [order EXCEPT ![q] = outcome]
  /\ UNCHANGED <<journal, lane, owned, stop, now, history>>

(* The process ends, by a crash or an orderly close, and is started anew.  *)
Crash(h) ==
  /\ crashes < MaxCrashes
  /\ crashes' = crashes + 1
  /\ Release(h)
  /\ owned' = [owned EXCEPT ![h] = {}]
  /\ UNCHANGED <<journal, stop, now, order, calls, overtaken, expired>>

(* overtaken: the lanes STOP came too late for, having passed the second   *)
(* check already.                                                          *)
SetStop ==
  /\ ~stop /\ stop' = TRUE
  /\ overtaken' = {h \in Hosts : lane[h].at \in {"cleared", "begun"}}
  /\ UNCHANGED <<journal, lane, owned, now, order, calls, expired, crashes>>

LiftStop ==
  /\ stop /\ stop' = FALSE
  /\ overtaken' = {}
  /\ UNCHANGED <<journal, lane, owned, now, order, calls, expired, crashes>>

ClockMoves ==
  /\ now' \in 0..MaxClock /\ now' # now
  /\ UNCHANGED <<journal, lane, owned, stop, order, history>>

-----------------------------------------------------------------------------
(* Steps a call that has been started will take. *)
Work(h) ==
  \/ Screen(h) \/ SubmitRefused(h) \/ ConsumeExpired(h) \/ Consume(h)
  \/ Clear(h) \/ Stopped(h)
  \/ BeginSubmission(h) \/ BeginFails(h) \/ CallBroker(h) \/ Answered(h)
  \/ CallRaises(h) \/ MarkSubmitted(h) \/ MarkSubmittedFails(h)
  \/ MarkUncertain(h) \/ GiveUp(h)
  \/ CloseClaim(h) \/ LookUp(h) \/ MarkFound(h) \/ ReconcileFails(h)

Next ==
  \/ \E h \in Hosts : Work(h) \/ Crash(h)
  \/ \E h \in Hosts, r \in Receipts : Submit(h, r)
  \/ \E h \in Hosts, q \in Requests : Reconcile(h, q)
  \/ \E q \in Requests : BrokerDecides(q)
  \/ SetStop \/ LiftStop \/ ClockMoves

(* The lane waits for the broker: for the account, for the answer to an    *)
(* order, or for a lookup.  The broker client is built without a timeout,  *)
(* so nothing in the code ends such a wait.                                *)
OnBroker(h) == lane[h].at \in {"checking", "calling", "looking"}

(* What the two promises of an end assume of the world, and name as Cared. *)
(* Of the broker: a call returns or raises in the end, a lookup finds an   *)
(* order the broker keeps showing, and the broker decides on an order.     *)
BrokerAnswers ==
  /\ \A h \in Hosts : WF_vars(Work(h) /\ OnBroker(h)) /\ SF_vars(LookUp(h))
  /\ \A q \in Requests : WF_vars(BrokerDecides(q))

(* Of the operator: someone goes on reconciling, the journal does not fail *)
(* for ever, and the wall clock, once it has been set right, does not stay *)
(* behind the journal's.                                                   *)
SomebodyReconciles ==
  /\ \A q \in Requests : SF_vars(\E h \in Hosts : Reconcile(h, q))
  /\ \A h \in Hosts : SF_vars(CloseClaim(h)) /\ SF_vars(MarkFound(h))
  /\ <>[](now >= last)

Cared == BrokerAnswers /\ SomebodyReconciles

(* What the code owes on its own: every other step returns or raises.      *)
CallsGoOn == \A h \in Hosts : WF_vars(Work(h) /\ ~OnBroker(h))

Spec == Init /\ [][Next]_vars /\ CallsGoOn

-----------------------------------------------------------------------------
(* Properties. *)

(* The broker is called at most once for a request, however many hosts     *)
(* share the journal and whatever fails between claim and record:          *)
(* consume() inserts a row for good and begin_submission() leaves it only  *)
(* to the owner of the claim.                                              *)
AtMostOneBrokerCall == \A q \in Requests : calls[q] <= 1

(* not_submitted is the truth: a claim closed by a reconciliation, even by *)
(* another host while the claimant is between claim and broker call, was   *)
(* never sent and never will be.                                           *)
ClosedClaimIsNeverSent ==
  \A q \in Requests : row[q].state = "closed" =>
    /\ calls[q] = 0 /\ order[q] = "none"
    /\ \A h \in Hosts :
         lane[h].request = q => lane[h].at \notin {"begun", "calling", "answered"}

(* A host never has two unresolved submissions on its hands: it submits    *)
(* only when recovery_candidates() is empty, and a claim it loses track of *)
(* in a crash is still a candidate.  (Two hosts can have one each: the     *)
(* candidates are read in another transaction than the claim is made.)     *)
OneUnresolvedPerHost ==
  \A p, q \in Requests :
    /\ row[p].state \in {"claimed", "submitting", "uncertain"}
    /\ row[q].state \in {"claimed", "submitting", "uncertain"}
    /\ row[p].claimant = row[q].claimant
    => p = q

(* Once STOP is in force the only submissions that go on are those that    *)
(* had passed the second reading of it already.                            *)
StopReachesEveryLane ==
  \A h \in Hosts :
    stop /\ lane[h].at \in {"cleared", "begun"} => h \in overtaken

(* A receipt the journal once refused as expired is never claimed, even    *)
(* when the wall clock is set back to before its expiry: the refusal       *)
(* commits the reading it was made on.                                     *)
OnceExpiredNeverClaimed ==
  [][\A q \in Requests :
       row[q].state = "absent" /\ row'[q].state # "absent"
         => row'[q].receipt \notin expired]_vars

(* The records of the lane, read as statuses of identities, keep the       *)
(* promises of PaperOrder: no attempt is forgotten, nothing void exists,   *)
(* and an order known to the lane exists.                                  *)
Status(q) ==
  CASE row[q].state = "absent"                       -> "free"
    [] row[q].state = "claimed"                      -> "claimed"
    [] row[q].state = "closed"                       -> "void"
    [] row[q].state \in {"submitting", "uncertain"}  -> "attempted"
    [] row[q].state \in {"submitted", "found"}       -> "known"

Promise == INSTANCE PaperOrder WITH
  status <- [q \in Requests |-> Status(q)],
  placed <- {q \in Requests : order[q] = "accepted"}

ImplementsPaperOrder == Promise!Spec

(* Nothing but a broker call can keep the tools lock: whatever fails       *)
(* between two of them, in the journal or in what another host made of the *)
(* row, the call reaches the next one or its end (the try blocks of        *)
(* call_tool and _submit_authorized).                                      *)
OnlyTheBrokerKeepsALane ==
  \A h \in Hosts : ~OnBroker(h) ~> OnBroker(h) \/ lane[h].at = "idle"

(* A claim its host never took further, because of a crash, of STOP or of  *)
(* a write that reported an error after its commit, is resolved where the  *)
(* lane is Cared for: the broker answers and someone reconciles.           *)
StrandedClaimIsResolved == Cared =>
  \A q \in Requests : row[q].state = "claimed" ~> row[q].state # "claimed"

(* An order the broker accepted becomes known to the journal, whatever was *)
(* lost on the way back, where the lane is Cared for.                      *)
AcceptedOrderBecomesKnown == Cared =>
  \A q \in Requests :
    order[q] = "accepted" ~> row[q].state \in {"submitted", "found"}
=============================================================================
