------------------------ MODULE X402RefinementProofs ------------------------
(***************************************************************************)
(* X402Access implements X402Entitlement: behind requests, tokens, leases, *)
(* crashes and operators, a payment is one charge that entitles to one     *)
(* response or to nothing.                                                 *)
(***************************************************************************)
EXTENDS X402AccessProofs

(* The refinement mapping, as state functions. *)
Status == [p \in Payments |-> Entitled(row[p])]
Bound  == [p \in Payments |-> IF row[p].state = "settling" \/ Cached(p)
                              THEN <<row[p].body, row[p].response>> ELSE None]

(* What a record of the journal stands for, case by case. *)
LEMMA EntitledOf ==
  ASSUME NEW r
  PROVE  /\ r.state \in {"absent", "processing"} => Entitled(r) = "open"
         /\ r.state = "settling" => Entitled(r) = "charging"
         /\ r.state = "settled" /\ r.reason = "settled" => Entitled(r) = "entitled"
         /\ r.state = "settled" /\ r.reason = "settled_response_retired"
              => Entitled(r) = "retired"
         /\ r.state = "settled" /\ r.reason \in {"payment_settlement_failed",
                                               "payment_authorization_retired"}
              => Entitled(r) = "closed"
<1>1. r.state \in {"absent", "processing"} => Entitled(r) = "open"
  BY Zenon DEF Entitled
<1>2. r.state = "settling" => Entitled(r) = "charging"
  BY Zenon DEF Entitled
<1>3. r.state = "settled" /\ r.reason = "settled" => Entitled(r) = "entitled"
  BY Zenon DEF Entitled
<1>4. r.state = "settled" /\ r.reason = "settled_response_retired" => Entitled(r) = "retired"
  BY Zenon DEF Entitled
<1>5. r.state = "settled" /\ r.reason = "payment_settlement_failed" => Entitled(r) = "closed"
  BY Zenon DEF Entitled
<1>6. r.state = "settled" /\ r.reason = "payment_authorization_retired" => Entitled(r) = "closed"
  BY Zenon DEF Entitled
<1> QED BY <1>1, <1>2, <1>3, <1>4, <1>5, <1>6

(* Under the mapping, what a row stands for. *)
LEMMA Mapped ==
  ASSUME IInv, NEW p \in Payments
  PROVE  /\ row[p].state \in {"absent", "processing"} => Status[p] = "open" /\ Bound[p] = None
         /\ row[p].state = "settling" => /\ Status[p] = "charging"
                                         /\ Bound[p] = <<row[p].body, row[p].response>>
         /\ Cached(p) => /\ Status[p] = "entitled"
                         /\ Bound[p] = <<row[p].body, row[p].response>>
         /\ row[p].reason = "settled_response_retired" => Status[p] = "retired" /\ Bound[p] = None
         /\ row[p].reason \in {"payment_settlement_failed", "payment_authorization_retired"}
              => Status[p] = "closed" /\ Bound[p] = None
BY NoneAssumption DEF Status, Bound, Entitled, Cached, IInv, RowInv, Reasons

(* A step that changes what no row stands for is a stuttering step. *)
LEMMA Stutter ==
  ASSUME UNCHANGED delivered,
         \A p \in Payments : Status'[p] = Status[p] /\ Bound'[p] = Bound[p]
  PROVE  UNCHANGED Entitlement!vars
<1>1. Status' = Status /\ Bound' = Bound
  BY DEF Status, Bound
<1> QED BY <1>1 DEF Entitlement!vars, Status, Bound

(* Rows that keep their standing: state, reason, binding and response.     *)
LEMMA SameStanding ==
  ASSUME IInv, UNCHANGED delivered,
         \A p \in Payments :
           \/ row'[p] = row[p]
           \/ /\ row[p].state \in {"absent", "processing"}
              /\ row'[p].state \in {"absent", "processing"}
           \/ /\ row'[p].state = row[p].state /\ row'[p].reason = row[p].reason
              /\ row'[p].body = row[p].body /\ row'[p].response = row[p].response
  PROVE  UNCHANGED Entitlement!vars
<1>1. ASSUME NEW p \in Payments
      PROVE  Entitled(row'[p]) = Entitled(row[p]) /\ Bound'[p] = Bound[p]
  <2>1. CASE row'[p] = row[p]
    BY <2>1 DEF Bound, Cached
  <2>2. CASE /\ row[p].state \in {"absent", "processing"}
             /\ row'[p].state \in {"absent", "processing"}
    <3>1. Entitled(row'[p]) = "open" /\ Entitled(row[p]) = "open"
      BY <2>2, EntitledOf
    <3> QED BY <2>2, <3>1 DEF Bound, Cached
  <2>3. CASE /\ row'[p].state = row[p].state /\ row'[p].reason = row[p].reason
             /\ row'[p].body = row[p].body /\ row'[p].response = row[p].response
    <3>1. \/ row[p].state \in {"absent", "processing", "settling"}
          \/ row[p].state = "settled" /\ row[p].reason \in Reasons
      BY RowColumns DEF IInv, RowInv, TypeOK, States
    <3>2. Entitled(row'[p]) = Entitled(row[p])
      BY <2>3, <3>1, EntitledOf, SMT DEF Reasons
    <3>3. Bound'[p] = Bound[p]
      BY <2>3 DEF Bound, Cached
    <3> QED BY <3>2, <3>3
  <2> QED BY <2>1, <2>2, <2>3
<1> QED BY <1>1, Stutter DEF Status

(* A step in which one payment changes its standing. *)
LEMMA OnePayment ==
  ASSUME NEW p \in Payments, \A q \in Payments : q # p => row'[q] = row[q]
  PROVE  /\ Status' = [Status EXCEPT ![p] = Entitled(row'[p])]
         /\ \A g : Bound'[p] = g => Bound' = [Bound EXCEPT ![p] = g]
<1>1. \A q \in Payments : q # p => Status'[q] = Status[q] /\ Bound'[q] = Bound[q]
  BY DEF Status, Bound, Cached
<1>2. Status'[p] = Entitled(row'[p])
  BY DEF Status
<1> QED BY <1>1, <1>2 DEF Status, Bound

LEMMA BeginSettlementCharges ==
  ASSUME IInv, NEW r \in Requests, NEW resp \in Responses, BeginSettlement(r, resp)
  PROVE  \E p \in Payments, g \in Goods : Entitlement!Charge(p, g)
<1>1. PICK p \in Payments : p = req[r].payment /\ row[p].state = "processing"
  BY DEF BeginSettlement, HoldsClaim, IInv, HandlerInv
<1>2. PICK g \in Goods : g = <<row[p].body, resp>>
  BY <1>1 DEF IInv, RowInv, Present, Goods
<1>3. row' = [row EXCEPT ![p] = Sticky(row[p], resp, None)] /\ UNCHANGED delivered
  BY <1>1 DEF BeginSettlement
<1>4. row'[p] = Sticky(row[p], resp, None) /\ \A q \in Payments : q # p => row'[q] = row[q]
  BY <1>3 DEF IInv, TypeOK
<1>5. /\ row'[p].state = "settling"
      /\ row'[p].body = row[p].body /\ row'[p].response = resp
  BY <1>4 DEF Sticky
<1>6. Entitled(row'[p]) = "charging" /\ Bound'[p] = g
  <2>1. Entitled(row'[p]) = "charging"
    BY <1>5, EntitledOf
  <2> QED BY <1>2, <1>5, <2>1 DEF Bound
<1>7. Status[p] = "open"
  BY <1>1, Mapped
<1>8. Status' = [Status EXCEPT ![p] = "charging"] /\ Bound' = [Bound EXCEPT ![p] = g]
  BY <1>4, <1>6, OnePayment
<1>9. Entitlement!Charge(p, g)
  BY <1>3, <1>7, <1>8 DEF Entitlement!Charge, Status, Bound
<1> QED BY <1>9

(* Settling a row, with or without handing out its response at once. *)
LEMMA SettlingEntitles ==
  ASSUME IInv, NEW p \in Payments, row[p].state = "settling",
         row' = [row EXCEPT ![p] = Settled(row[p])],
         Release(p)
  PROVE  Entitlement!Entitle(p)
<1>1. row'[p] = Settled(row[p]) /\ \A q \in Payments : q # p => row'[q] = row[q]
  BY DEF IInv, TypeOK
<1>2. Status[p] = "charging" /\ Bound[p] = <<row[p].body, row[p].response>>
  BY Mapped
<1>3. Entitled(row'[p]) = "entitled"
  BY <1>1 DEF Settled, Entitled
<1>4. Bound'[p] = Bound[p]
  BY <1>1, <1>2 DEF Settled, Bound, Cached
<1>5. Status' = [Status EXCEPT ![p] = "entitled"]
  BY <1>1, <1>3, <1>4, OnePayment
<1>5a. Bound' = Bound
  <2>1. \A q \in Payments : Bound'[q] = Bound[q]
    BY <1>1, <1>4 DEF Bound, Cached
  <2> QED BY <2>1 DEF Bound
<1>6. \/ delivered' = [delivered EXCEPT ![p] = @ \cup {Bound[p]}]
      \/ UNCHANGED delivered
  BY <1>2 DEF Release, Deliver
<1> QED BY <1>2, <1>5, <1>5a, <1>6 DEF Entitlement!Entitle, Status, Bound

LEMMA ClosingCloses ==
  ASSUME IInv, NEW p \in Payments, row[p].state = "settling",
         NEW why \in {"payment_settlement_failed", "payment_authorization_retired"},
         row' = [row EXCEPT ![p] = Tombstone(row[p], why)], UNCHANGED delivered
  PROVE  Entitlement!Close(p)
<1>1. row'[p] = Tombstone(row[p], why) /\ \A q \in Payments : q # p => row'[q] = row[q]
  BY DEF IInv, TypeOK
<1>2. Status[p] = "charging"
  BY Mapped
<1>3. row'[p].state = "settled" /\ row'[p].reason = why
  BY <1>1 DEF Tombstone
<1>4. Entitled(row'[p]) = "closed" /\ Bound'[p] = None
  BY <1>3 DEF Entitled, Bound, Cached
<1>5. Status' = [Status EXCEPT ![p] = "closed"] /\ Bound' = [Bound EXCEPT ![p] = None]
  BY <1>1, <1>4, OnePayment
<1> QED BY <1>2, <1>5 DEF Entitlement!Close, Status, Bound

LEMMA DeliverHandsOut ==
  ASSUME IInv, NEW p \in Payments, Cached(p), Deliver(p), UNCHANGED row
  PROVE  Entitlement!HandOut(p)
<1>1. Status[p] = "entitled" /\ Bound[p] = <<row[p].body, row[p].response>>
  BY Mapped
<1>2. Status' = Status /\ Bound' = Bound
  BY DEF Status, Bound, Cached
<1> QED BY <1>1, <1>2 DEF Entitlement!HandOut, Deliver, Status, Bound

LEMMA ReleaseHandsOut ==
  ASSUME IInv, NEW p \in Payments, Cached(p), Release(p), UNCHANGED row
  PROVE  Entitlement!HandOut(p) \/ UNCHANGED Entitlement!vars
BY DeliverHandsOut, SameStanding DEF Release

(* Retention and eviction retire entitled payments, and change the         *)
(* standing of no other.                                                   *)
LEMMA RetirementRetires ==
  ASSUME IInv, UNCHANGED delivered,
         NEW S \in SUBSET Payments,
         \A p \in S : Cached(p) /\ row'[p] = Tombstone(row[p], "settled_response_retired"),
         \A p \in Payments \ S : Entitled(row'[p]) = Status[p] /\ Bound'[p] = Bound[p]
  PROVE  Entitlement!Retire(S)
<1>1. \A p \in S : Status[p] = "entitled"
  BY Mapped
<1>2. ASSUME NEW p \in S PROVE Entitled(row'[p]) = "retired" /\ Bound'[p] = None
  <2>1. row'[p] = Tombstone(row[p], "settled_response_retired")
    OBVIOUS
  <2>2. row'[p].state = "settled" /\ row'[p].reason = "settled_response_retired"
    BY <2>1 DEF Tombstone
  <2>3. Entitled(row'[p]) = "retired"
    BY <2>2, EntitledOf
  <2> QED BY <2>2, <2>3 DEF Bound, Cached
<1>3. Status' = [p \in Payments |-> IF p \in S THEN "retired" ELSE Status[p]]
  BY <1>2 DEF Status
<1>4. Bound' = [p \in Payments |-> IF p \in S THEN None ELSE Bound[p]]
  BY <1>2 DEF Bound
<1> QED BY <1>1, <1>3, <1>4 DEF Entitlement!Retire, Status, Bound

-----------------------------------------------------------------------------
(* The steps of the gateway, each as a step of the abstract specification. *)
RowSteps(r) ==
  \/ ClaimHeld(r) \/ AuthorizeFails(r) \/ Abort(r) \/ BeginRefused(r)
  \/ CallSettle(r) \/ SettleLost(r) \/ SettleUncertain(r)
  \/ \E a \in Answers : RecordSettlementResult(r, a)

LEMMA ClaimNewRetires ==
  ASSUME IInv, NEW r \in Requests, ClaimNew(r)
  PROVE  \E S \in SUBSET Payments : Entitlement!Retire(S)
<1> DEFINE p == req[r].payment
           purged == {q \in Payments : Expired(q)}
           hot    == {q \in Payments \ purged : Hot(q)}
           excess == IF Cardinality(hot) >= MaxEntries
                     THEN Cardinality(hot) - MaxEntries + 1 ELSE 0
<1>1. PICK evicted \in OldestCached(excess) :
        row' = [q \in Payments |->
                  IF q = p THEN Claimed(req[r].body, FreshToken)
                  ELSE IF q \in purged THEN NoRow
                  ELSE IF q \in evicted THEN Tombstone(row[q], "settled_response_retired")
                  ELSE row[q]]
  BY DEF ClaimNew
<1>2. p \in Payments /\ row[p].state = "absent" /\ UNCHANGED delivered
  BY DEF ClaimNew, IInv, HandlerInv
<1>3. evicted \in SUBSET Payments /\ \A q \in evicted : Cached(q)
  BY DEF OldestCached
<1> HIDE DEF p, hot, excess
<1>4. \A q \in evicted : q # p /\ q \notin purged
  BY <1>2, <1>3 DEF Cached, Expired
<1>5. \A q \in evicted : row'[q] = Tombstone(row[q], "settled_response_retired")
  BY <1>1, <1>3, <1>4
<1>6. ASSUME NEW q \in Payments \ evicted
      PROVE  Entitled(row'[q]) = Status[q] /\ Bound'[q] = Bound[q]
  <2>1. CASE q = p
    <3>1. row'[q].state = "processing"
      BY <1>1, <2>1 DEF Claimed
    <3>2. Entitled(row'[q]) = "open" /\ Entitled(row[q]) = "open"
      BY <1>2, <2>1, <3>1, EntitledOf
    <3> QED BY <1>2, <2>1, <3>1, <3>2 DEF Status, Bound, Cached
  <2>2. CASE q # p /\ q \in purged
    <3>1. row'[q].state = "absent" /\ row[q].state = "processing"
      BY <1>1, <2>2 DEF NoRow, Expired
    <3>2. Entitled(row'[q]) = "open" /\ Entitled(row[q]) = "open"
      BY <3>1, EntitledOf
    <3> QED BY <3>1, <3>2 DEF Status, Bound, Cached
  <2>3. CASE q # p /\ q \notin purged
    <3>1. row'[q] = row[q]
      BY <1>1, <2>3
    <3> QED BY <3>1 DEF Status, Bound, Cached
  <2> QED BY <2>1, <2>2, <2>3
<1>7. Entitlement!Retire(evicted)
  BY <1>2, <1>3, <1>5, <1>6, RetirementRetires
<1> QED BY <1>3, <1>7

LEMMA RetentionRetires ==
  ASSUME IInv, RetireTerminalResponses
  PROVE  \E S \in SUBSET Payments : Entitlement!Retire(S)
<1>1. PICK S \in SUBSET Aged :
        row' = [p \in Payments |->
                  IF p \notin S THEN row[p]
                  ELSE IF row[p].reason = "payment_settlement_failed"
                       THEN Tombstone(row[p], "payment_authorization_retired")
                       ELSE Tombstone(row[p], "settled_response_retired")]
  BY DEF RetireTerminalResponses
<1> PICK C : C = {p \in S : Cached(p)}
  OBVIOUS
<1>2. C \in SUBSET Payments /\ UNCHANGED delivered
  BY DEF RetireTerminalResponses, Aged
<1>3. \A p \in C : Cached(p) /\ row'[p] = Tombstone(row[p], "settled_response_retired")
  BY <1>1 DEF Aged, Cached
<1>4. ASSUME NEW p \in Payments \ C
      PROVE  Entitled(row'[p]) = Status[p] /\ Bound'[p] = Bound[p]
  <2>1. CASE p \notin S
    <3>1. row'[p] = row[p]
      BY <1>1, <2>1
    <3> QED BY <3>1 DEF Status, Bound, Cached
  <2>2. CASE p \in S
    <3>1. row[p].state = "settled" /\ row[p].reason = "payment_settlement_failed"
      BY <2>2 DEF Aged, Cached
    <3>2. row'[p] = Tombstone(row[p], "payment_authorization_retired")
      BY <1>1, <2>2, <3>1
    <3>3. row'[p].state = "settled" /\ row'[p].reason = "payment_authorization_retired"
      BY <3>2 DEF Tombstone
    <3>4. Entitled(row'[p]) = "closed" /\ Entitled(row[p]) = "closed"
      BY <3>1, <3>3, EntitledOf
    <3> QED BY <3>1, <3>3, <3>4 DEF Status, Bound, Cached
  <2> QED BY <2>1, <2>2
<1>5. Entitlement!Retire(C)
  BY <1>2, <1>3, <1>4, RetirementRetires
<1> QED BY <1>2, <1>5

(* Claims, calls and journaled answers change the standing of no payment.  *)
LEMMA HandlerStutters ==
  ASSUME IInv, NEW r \in Requests, RowSteps(r)
  PROVE  UNCHANGED Entitlement!vars
<1> DEFINE p == req[r].payment
<1>1. CASE AuthorizeFails(r) \/ BeginRefused(r) \/ CallSettle(r) \/ SettleLost(r)
           \/ SettleUncertain(r)
  <2>1. UNCHANGED <<row, delivered>>
    BY <1>1 DEF AuthorizeFails, BeginRefused, CallSettle, SettleLost, SettleUncertain
  <2> QED BY <2>1, SameStanding
<1>2. CASE ClaimHeld(r)
  <2>1. p \in Payments /\ row[p].state = "processing" /\ UNCHANGED delivered
    BY <1>2 DEF ClaimHeld, Expired, IInv, HandlerInv
  <2>2. row' = [row EXCEPT ![p] = Claimed(row[p].body, FreshToken)]
    BY <1>2 DEF ClaimHeld
  <2>3. row'[p] = Claimed(row[p].body, FreshToken) /\ \A q \in Payments : q # p => row'[q] = row[q]
    BY <2>1, <2>2 DEF IInv, TypeOK
  <2>4. row'[p].state = "processing"
    BY <2>3 DEF Claimed
  <2> HIDE DEF p
  <2> QED BY <2>1, <2>3, <2>4, SameStanding
<1>3. CASE Abort(r)
  <2>1. CASE ~HoldsClaim(r)
    BY <1>3, <2>1, SameStanding DEF Abort
  <2>2. CASE HoldsClaim(r)
    <3>1. p \in Payments /\ row[p].state = "processing" /\ UNCHANGED delivered
      BY <1>3, <2>2 DEF Abort, HoldsClaim, IInv, HandlerInv
    <3>2. row' = [row EXCEPT ![p] = NoRow]
      BY <1>3, <2>2 DEF Abort
    <3>3. row'[p] = NoRow /\ \A q \in Payments : q # p => row'[q] = row[q]
      BY <3>1, <3>2 DEF IInv, TypeOK
    <3>4. row'[p].state = "absent"
      BY <3>3 DEF NoRow
    <3> HIDE DEF p
    <3> QED BY <3>1, <3>3, <3>4, SameStanding
  <2> QED BY <2>1, <2>2
<1>4. CASE \E a \in Answers : RecordSettlementResult(r, a)
  <2>1. PICK a \in Answers : RecordSettlementResult(r, a)
    BY <1>4
  <2>2. CASE ~HoldsSettlement(r)
    BY <2>1, <2>2, SameStanding DEF RecordSettlementResult
  <2>3. CASE HoldsSettlement(r)
    <3>1. p \in Payments /\ row[p].state = "settling" /\ UNCHANGED delivered
      BY <2>1, <2>3 DEF RecordSettlementResult, HoldsSettlement, IInv, HandlerInv
    <3>2. row' = [row EXCEPT ![p] = Sticky(row[p], row[p].response, a)]
      BY <2>1, <2>3 DEF RecordSettlementResult
    <3>3. /\ row'[p] = Sticky(row[p], row[p].response, a)
          /\ \A q \in Payments : q # p => row'[q] = row[q]
      BY <3>1, <3>2 DEF IInv, TypeOK
    <3>4. /\ row'[p].state = "settling" /\ row'[p].reason = None
          /\ row'[p].body = row[p].body /\ row'[p].response = row[p].response
      BY <3>3 DEF Sticky
    <3>5. row[p].reason = None
      BY <3>1 DEF IInv, RowInv
    <3> HIDE DEF p
    <3> QED BY <3>1, <3>3, <3>4, <3>5, SameStanding
  <2> QED BY <2>2, <2>3
<1> QED BY <1>1, <1>2, <1>3, <1>4 DEF RowSteps

LEMMA HandleImplements ==
  ASSUME IInv, NEW r \in Requests, Handle(r)
  PROVE  Entitlement!Next \/ UNCHANGED Entitlement!vars
<1>1. CASE RowSteps(r)
  BY <1>1, HandlerStutters
<1>2. CASE ClaimNew(r)
  BY <1>2, ClaimNewRetires DEF Entitlement!Next
<1>3. CASE ClaimSettled(r) \/ BeginSettled(r)
  <2>1. PICK p \in Payments : p = req[r].payment /\ Cached(p) /\ Release(p) /\ UNCHANGED row
    BY <1>3 DEF ClaimSettled, BeginSettled, IInv, HandlerInv
  <2> QED BY <2>1, ReleaseHandsOut DEF Entitlement!Next
<1>4. CASE \E resp \in Responses : BeginSettlement(r, resp)
  BY <1>4, BeginSettlementCharges DEF Entitlement!Next
<1>5. CASE Complete(r)
  <2>1. PICK p \in Payments : /\ p = req[r].payment /\ row[p].state = "settling"
                              /\ row' = [row EXCEPT ![p] = Settled(row[p])] /\ Release(p)
    BY <1>5 DEF Complete, HoldsSettlement, IInv, HandlerInv
  <2> QED BY <2>1, SettlingEntitles DEF Entitlement!Next
<1>6. CASE CompleteFailedSettlement(r)
  <2>1. PICK p \in Payments :
          /\ p = req[r].payment /\ row[p].state = "settling" /\ UNCHANGED delivered
          /\ row' = [row EXCEPT ![p] = Tombstone(row[p], "payment_settlement_failed")]
    BY <1>6 DEF CompleteFailedSettlement, HoldsSettlement, IInv, HandlerInv
  <2> QED BY <2>1, ClosingCloses DEF Entitlement!Next
<1> QED BY <1>1, <1>2, <1>3, <1>4, <1>5, <1>6 DEF Handle, RowSteps

LEMMA NextImplements ==
  ASSUME IInv, Next
  PROVE  Entitlement!Next \/ UNCHANGED Entitlement!vars
<1>1. CASE Serve
  <2>1. CASE \E p \in Payments, b \in Bodies : Replay(p, b)
    <3>1. PICK p \in Payments : Cached(p) /\ Deliver(p) /\ UNCHANGED row
      BY <2>1 DEF Replay
    <3> QED BY <3>1, DeliverHandsOut DEF Entitlement!Next
  <2>2. CASE \E r \in Requests, p \in Payments, b \in Bodies : Authorize(r, p, b)
    <3>1. UNCHANGED <<row, delivered>>
      BY <2>2 DEF Authorize
    <3> QED BY <3>1, SameStanding
  <2> QED BY <1>1, <2>1, <2>2, HandleImplements DEF Serve
<1>2. CASE Operate
  <2>1. ASSUME NEW p \in Payments, ReconcileSettled(p)
        PROVE  Entitlement!Next
    <3>1. /\ row[p].state = "settling" /\ Release(p)
          /\ row' = [row EXCEPT ![p] = Settled(row[p])]
      BY <2>1 DEF ReconcileSettled, Release
    <3> QED BY <3>1, SettlingEntitles DEF Entitlement!Next
  <2>2. ASSUME NEW p \in Payments, RetireUnsettled(p)
        PROVE  Entitlement!Next
    <3>1. /\ row[p].state = "settling" /\ UNCHANGED delivered
          /\ row' = [row EXCEPT ![p] = Tombstone(row[p], "payment_authorization_retired")]
      BY <2>2 DEF RetireUnsettled
    <3> QED BY <3>1, ClosingCloses DEF Entitlement!Next
  <2> QED BY <1>2, <2>1, <2>2, RetentionRetires DEF Operate, Entitlement!Next
<1>3. CASE World
  <2>1. UNCHANGED delivered
    BY <1>3 DEF World, ChainDecides, Start, Stop, Tick, ClockJumpsBack
  <2>2. CASE UNCHANGED row
    BY <2>1, <2>2, SameStanding
  <2>3. CASE Tick \/ ClockJumpsBack
    <3>1. ASSUME NEW p \in Payments
          PROVE  /\ row'[p].state = row[p].state /\ row'[p].reason = row[p].reason
                 /\ row'[p].body = row[p].body /\ row'[p].response = row[p].response
      BY <2>3 DEF Tick, ClockJumpsBack, Restamped
    <3> QED BY <2>1, <3>1, SameStanding
  <2> QED BY <1>3, <2>2, <2>3 DEF World, ChainDecides, Start, Stop
<1> QED BY <1>1, <1>2, <1>3 DEF Next

(* The paid route implements single-charge entitlements: the refinement    *)
(* that X402Safety checks on a small instance, for every instance.         *)
THEOREM Refinement == Spec => ImplementsEntitlement
<1>1. Init => Entitlement!Init
  <2> SUFFICES ASSUME Init PROVE Entitlement!Init
    OBVIOUS
  <2>1. \A p \in Payments : row[p].state = "absent"
    BY DEF Init, NoRow
  <2>2. \A p \in Payments : Entitled(row[p]) = "open"
    BY <2>1, EntitledOf
  <2>3. delivered = [p \in Payments |-> {}]
    BY DEF Init
  <2> QED BY <2>1, <2>2, <2>3 DEF Entitlement!Init, Cached
<1>2. IInv /\ [Next]_vars => [Entitlement!Next]_(Entitlement!vars)
  <2> SUFFICES ASSUME IInv, [Next]_vars PROVE [Entitlement!Next]_(Entitlement!vars)
    OBVIOUS
  <2>1. CASE Next
    BY <2>1, NextImplements
  <2>2. CASE UNCHANGED vars
    <3>1. UNCHANGED <<row, delivered>>
      BY <2>2 DEF vars
    <3> QED BY <3>1, SameStanding
  <2> QED BY <2>1, <2>2
<1> QED BY <1>1, <1>2, InductiveInvariant, PTL DEF Spec, ImplementsEntitlement, Entitlement!Spec
=============================================================================
