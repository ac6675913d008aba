--------------------------- MODULE X402AccessProofs ---------------------------
(***************************************************************************)
(* Safety of X402Access, for every number of payments, handlers, bodies,   *)
(* responses and tokens, every lease, retention and capacity, and with or  *)
(* without clock jumps.                                                    *)
(***************************************************************************)
EXTENDS X402Access, FiniteSetTheorems, TLAPS

(* What a handler in flight may rely on. *)
HandlerInv ==
  \A r \in Requests :
    /\ req[r].pc = "idle" => req[r] = Idle
    /\ req[r].pc # "idle" => /\ runtime = "serving"
                             /\ req[r].payment \in Payments
                             /\ req[r].body \in Bodies
    /\ req[r].pc = "verifying" => req[r].token = None
    /\ req[r].pc \in {"assessing"} \cup Settling => req[r].token \in Tokens
    /\ req[r].pc \in Settling => HoldsSettlement(r)
    /\ req[r].pc = "calling" => calls[req[r].payment] = 0
    /\ req[r].pc \in {"calling", "awaiting"} => /\ ~recorded[req[r].payment]
                                                /\ row[req[r].payment].result = None

(* Two handlers never hold the same token. *)
TokenInv ==
  \A r, s \in Requests : r # s /\ req[r].token \in Tokens => req[r].token # req[s].token

(* What a row says about the charge of its payment. *)
RowInv ==
  \A p \in Payments :
    /\ Present(p) => row[p].body \in Bodies
    /\ row[p].state = "settling" \/ Cached(p) => row[p].response \in Responses
    /\ row[p].state = "settled" <=> row[p].reason # None
    /\ row[p].state \in {"absent", "processing"} => calls[p] = 0 /\ ~recorded[p]
    /\ calls[p] <= 1

(* A success in the journal means that the payment was paid. *)
PaidInv ==
  \A p \in Payments :
    /\ row[p].result = "success" => chain[p] = "paid"
    /\ recorded[p] => \/ row[p].state = "settling" /\ row[p].result = "success"
                      \/ row[p].reason \in {"settled", "settled_response_retired"}
    /\ row[p].reason \in {"settled", "settled_response_retired"} => chain[p] = "paid"

DeliveredInv ==
  \A p \in Payments :
    /\ delivered[p] # {} => row[p].reason \in {"settled", "settled_response_retired"}
    /\ Cached(p) => delivered[p] \subseteq {<<row[p].body, row[p].response>>}
    /\ \A g, h \in delivered[p] : g = h

IInv == TypeOK /\ HandlerInv /\ TokenInv /\ RowInv /\ PaidInv /\ DeliveredInv

-----------------------------------------------------------------------------
(* secrets.token_hex gives a token that nobody holds. *)
LEMMA FreshTokenIsFree ==
  ASSUME \E u \in Tokens : ~InUse(u)
  PROVE  FreshToken \in Tokens /\ ~InUse(FreshToken)
BY DEF FreshToken

(* The columns of a row, one by one. *)
LEMMA RowColumns ==
  ASSUME NEW r \in Rows
  PROVE  /\ r.state \in States
         /\ r.body \in Bodies \cup {None}
         /\ r.lease \in 0..Lease
         /\ r.age \in 0..Retention
         /\ r.response \in Responses \cup {None}
         /\ r.result \in Answers \cup {None}
         /\ r.reason \in Reasons \cup {None}
<1> USE BoundAssumption DEF States, Answers, Reasons
<1>1. CASE r = NoRow
  BY <1>1 DEF NoRow
<1>2. CASE r \in Open
  BY <1>2 DEF Open, RowsOf
<1>3. CASE r \in Replayable
  BY <1>3 DEF Replayable, RowsOf
<1>4. CASE r \in Tombstones
  BY <1>4 DEF Tombstones, RowsOf
<1> QED BY <1>1, <1>2, <1>3, <1>4 DEF Rows

(* Each state is a kind of row of its own. *)
LEMMA RowKinds ==
  ASSUME NEW r \in Rows
  PROVE  /\ r.state = "absent" => r = NoRow
         /\ r.state \in {"processing", "settling"} =>
              r \in Open /\ r.body \in Bodies /\ r.owner \in Tokens
         /\ r.state = "settling" => r.response \in Responses
         /\ r.state = "settled" => r \in Replayable \cup Tombstones /\ r.body \in Bodies
         /\ r.state # "processing" => r.lease = 0
<1>1. CASE r = NoRow
  BY <1>1 DEF NoRow
<1>2. CASE r \in Open
  BY <1>2 DEF Open, RowsOf
<1>3. CASE r \in Replayable
  BY <1>3 DEF Replayable, RowsOf
<1>4. CASE r \in Tombstones
  BY <1>4 DEF Tombstones, RowsOf
<1> QED BY <1>1, <1>2, <1>3, <1>4 DEF Rows

(* Every row an action writes is a row. *)
LEMMA RowTypes ==
  /\ NoRow \in Rows
  /\ \A b \in Bodies, t \in Tokens : Claimed(b, t) \in Rows
  /\ \A r \in Rows, resp \in Responses, a \in Answers \cup {None} :
        r.state \in {"processing", "settling"} => Sticky(r, resp, a) \in Rows
  /\ \A r \in Rows : r.state = "settling" => Settled(r) \in Rows
  /\ \A r \in Rows, why \in Reasons \ {"settled"} :
        r.state \in {"settling", "settled"} => Tombstone(r, why) \in Rows
<1> USE BoundAssumption
<1>1. NoRow \in Rows
  BY DEF Rows
<1>2. \A b \in Bodies, t \in Tokens : Claimed(b, t) \in Rows
  BY DEF Claimed, Rows, Open, RowsOf
<1>3. \A r \in Rows, resp \in Responses, a \in Answers \cup {None} :
        r.state \in {"processing", "settling"} => Sticky(r, resp, a) \in Rows
  <2> SUFFICES ASSUME NEW r \in Rows, NEW resp \in Responses, NEW a \in Answers \cup {None},
                      r.state \in {"processing", "settling"}
               PROVE  Sticky(r, resp, a) \in Open
    BY DEF Rows
  <2> QED BY RowKinds DEF Sticky, Open, RowsOf
<1>4. \A r \in Rows : r.state = "settling" => Settled(r) \in Rows
  <2> SUFFICES ASSUME NEW r \in Rows, r.state = "settling"
               PROVE  Settled(r) \in Replayable
    BY DEF Rows
  <2> QED BY RowKinds DEF Settled, Replayable, RowsOf
<1>5. \A r \in Rows, why \in Reasons \ {"settled"} :
        r.state \in {"settling", "settled"} => Tombstone(r, why) \in Rows
  <2> SUFFICES ASSUME NEW r \in Rows, NEW why \in Reasons \ {"settled"},
                      r.state \in {"settling", "settled"}
               PROVE  Tombstone(r, why) \in Tombstones
    BY DEF Rows
  <2> QED BY RowKinds DEF Tombstone, Tombstones, RowsOf, Reasons
<1> QED BY <1>1, <1>2, <1>3, <1>4, <1>5

(* Time moves a claim's lease and every present row's age, and no more. *)
LEMMA RestampedTypes ==
  ASSUME NEW r \in Rows, NEW lease \in 0..Lease, NEW age \in 0..Retention,
         r.state # "processing" => lease = 0,
         r.state = "absent" => age = 0
  PROVE  Restamped(r, lease, age) \in Rows
<1> USE BoundAssumption
<1>1. CASE r = NoRow
  BY <1>1 DEF NoRow, Restamped, Rows
<1>2. CASE r \in Open
  <2>1. Restamped(r, lease, age) \in Open
    BY <1>2 DEF Restamped, Open, RowsOf
  <2> QED BY <2>1 DEF Rows
<1>3. CASE r \in Replayable
  <2>1. Restamped(r, lease, age) \in Replayable
    BY <1>3 DEF Restamped, Replayable, RowsOf
  <2> QED BY <2>1 DEF Rows
<1>4. CASE r \in Tombstones
  <2>1. Restamped(r, lease, age) \in Tombstones
    BY <1>4 DEF Restamped, Tombstones, RowsOf
  <2> QED BY <2>1 DEF Rows
<1> QED BY <1>1, <1>2, <1>3, <1>4 DEF Rows

THEOREM InitIInv == Init => IInv
<1> SUFFICES ASSUME Init PROVE IInv
  OBVIOUS
<1>1. TypeOK
  BY RowTypes DEF Init, TypeOK, Idle, Handler, Handlers, Phases, Goods
<1>2. HandlerInv /\ TokenInv
  BY NoneAssumption DEF Init, HandlerInv, TokenInv, Idle, Handler, Settling
<1>3. \A p \in Payments :
         row[p] = NoRow /\ calls[p] = 0 /\ ~recorded[p] /\ delivered[p] = {}
  BY DEF Init
<1>4. RowInv
  BY <1>3, NoneAssumption DEF RowInv, NoRow, Present, Cached
<1>5. PaidInv /\ DeliveredInv
  BY <1>3, NoneAssumption DEF PaidInv, DeliveredInv, NoRow, Cached, Reasons, Answers
<1> QED BY <1>1, <1>2, <1>4, <1>5 DEF IInv

-----------------------------------------------------------------------------
(* Frames: what a conjunct of IInv depends on. *)

LEMMA RowFrame ==
  ASSUME RowInv, UNCHANGED <<row, calls, recorded>>
  PROVE  RowInv'
BY DEF RowInv, Present, Cached

LEMMA PaidFrame ==
  ASSUME PaidInv, UNCHANGED <<row, chain, recorded>>
  PROVE  PaidInv'
BY DEF PaidInv

LEMMA DeliveredFrame ==
  ASSUME DeliveredInv, UNCHANGED <<row, delivered>>
  PROVE  DeliveredInv'
BY DEF DeliveredInv, Cached

(* Moving on changes a handler's phase and nothing else of it. *)
LEMMA GotoFields ==
  ASSUME req \in [Requests -> Handlers], NEW r \in Requests, NEW pc \in Phases,
         Goto(r, pc)
  PROVE  /\ req' \in [Requests -> Handlers]
         /\ req'[r].pc = pc /\ req'[r].payment = req[r].payment
         /\ req'[r].body = req[r].body /\ req'[r].token = req[r].token
         /\ \A s \in Requests : s # r => req'[s] = req[s]
BY DEF Goto, Handler, Handlers

LEMMA IdleType == Idle \in Handlers
BY DEF Handlers, Phases, Idle, Handler

(* A handler that ends disturbs nobody else. *)
LEMMA EndFrame ==
  ASSUME IInv, NEW r \in Requests, End(r),
         UNCHANGED <<row, runtime, calls, recorded>>
  PROVE  HandlerInv' /\ TokenInv' /\ req' \in [Requests -> Handlers]
<1> USE DEF IInv
<1>1. req'[r] = Idle /\ \A s \in Requests : s # r => req'[s] = req[s]
  BY DEF End, TypeOK
<1>2. HandlerInv'
  BY <1>1 DEF HandlerInv, HoldsSettlement, Settling, Idle, Handler
<1>3. TokenInv'
  BY <1>1, NoneAssumption DEF TokenInv, Idle, Handler
<1>4. req' \in [Requests -> Handlers]
  BY IdleType DEF TypeOK, End
<1> QED BY <1>2, <1>3, <1>4

(* So a handler may give up, or be cancelled, at any point. *)
LEMMA EndStep ==
  ASSUME IInv, NEW r \in Requests, End(r),
         UNCHANGED <<row, runtime, chain, calls, recorded, delivered>>
  PROVE  IInv'
<1>1. TypeOK'
  BY EndFrame DEF IInv, TypeOK
<1>2. HandlerInv' /\ TokenInv'
  BY EndFrame
<1> QED BY <1>1, <1>2, RowFrame, PaidFrame, DeliveredFrame DEF IInv

(* What a replay hands out is what the settled row holds. *)
LEMMA DeliverStep ==
  ASSUME IInv, NEW p \in Payments, Cached(p), Deliver(p), UNCHANGED row
  PROVE  DeliveredInv' /\ delivered' \in [Payments -> SUBSET Goods]
<1> USE DEF IInv
<1>1. <<row[p].body, row[p].response>> \in Goods
  BY DEF RowInv, Present, Cached, Goods
<1>2. delivered' \in [Payments -> SUBSET Goods]
  BY <1>1 DEF TypeOK, Deliver
<1>3. /\ delivered'[p] = delivered[p] \cup {<<row[p].body, row[p].response>>}
      /\ \A q \in Payments : q # p => delivered'[q] = delivered[q]
  BY DEF TypeOK, Deliver
<1>4. delivered'[p] = {<<row[p].body, row[p].response>>}
  BY <1>3 DEF DeliveredInv
<1>5. DeliveredInv'
  BY <1>3, <1>4 DEF DeliveredInv, Cached
<1> QED BY <1>2, <1>5

LEMMA ReleaseStep ==
  ASSUME IInv, NEW p \in Payments, Cached(p), Release(p), UNCHANGED row
  PROVE  DeliveredInv' /\ delivered' \in [Payments -> SUBSET Goods]
BY DeliverStep, DeliveredFrame DEF Release, IInv, TypeOK

(* A handler that ends by releasing a response settled by another one. *)
LEMMA ReleaseAndEndStep ==
  ASSUME IInv, NEW r \in Requests, NEW p \in Payments, Cached(p), Release(p), End(r),
         UNCHANGED <<row, runtime, chain, calls, recorded>>
  PROVE  IInv'
<1>1. HandlerInv' /\ TokenInv' /\ req' \in [Requests -> Handlers]
  BY EndFrame
<1>2. DeliveredInv' /\ delivered' \in [Payments -> SUBSET Goods]
  BY ReleaseStep
<1>3. TypeOK'
  BY <1>1, <1>2 DEF IInv, TypeOK
<1> QED BY <1>1, <1>2, <1>3, RowFrame, PaidFrame DEF IInv

(* Leases and ages carry no safety: whatever time does to them is allowed. *)
LEMMA TimeStep ==
  ASSUME IInv, row' \in [Payments -> Rows],
         \A p \in Payments :
           /\ row'[p].state = row[p].state
           /\ row'[p].body = row[p].body
           /\ row'[p].owner = row[p].owner
           /\ row'[p].response = row[p].response
           /\ row'[p].result = row[p].result
           /\ row'[p].reason = row[p].reason,
         UNCHANGED <<req, runtime, chain, calls, recorded, delivered>>
  PROVE  IInv'
<1> USE DEF IInv
<1>1. TypeOK'
  BY DEF TypeOK
<1>2. HandlerInv'
  <2>1. ASSUME NEW s \in Requests, req[s].pc \in Settling
        PROVE  HoldsSettlement(s)' /\ row'[req[s].payment].result = row[req[s].payment].result
    BY <2>1 DEF HandlerInv, HoldsSettlement, Settling
  <2> QED BY <2>1 DEF HandlerInv, Settling
<1>3. TokenInv'
  BY DEF TokenInv
<1>4. RowInv'
  BY DEF RowInv, Present, Cached
<1>5. PaidInv'
  BY DEF PaidInv
<1>6. DeliveredInv'
  BY DEF DeliveredInv, Cached
<1> QED BY <1>1, <1>2, <1>3, <1>4, <1>5, <1>6

-----------------------------------------------------------------------------
(* The handlers. *)

LEMMA ReplayStep ==
  ASSUME IInv, NEW p \in Payments, NEW b \in Bodies, Replay(p, b)
  PROVE  IInv'
<1> USE DEF IInv, Replay
<1>1. DeliveredInv' /\ delivered' \in [Payments -> SUBSET Goods]
  BY DeliverStep
<1>2. TypeOK'
  BY <1>1 DEF TypeOK
<1>3. HandlerInv' /\ TokenInv'
  BY DEF HandlerInv, TokenInv, HoldsSettlement
<1> QED BY <1>1, <1>2, <1>3, RowFrame, PaidFrame

LEMMA AuthorizeStep ==
  ASSUME IInv, NEW r \in Requests, NEW p \in Payments, NEW b \in Bodies,
         Authorize(r, p, b)
  PROVE  IInv'
<1> USE DEF IInv
<1>1. TypeOK'
  BY DEF Authorize, TypeOK, Handlers, Phases, Handler
<1>2. HandlerInv'
  BY DEF Authorize, TypeOK, HandlerInv, HoldsSettlement, Settling, Handler
<1>3. TokenInv'
  BY NoneAssumption DEF Authorize, TypeOK, TokenInv, Handler
<1>4. RowInv' /\ PaidInv' /\ DeliveredInv'
  BY RowFrame, PaidFrame, DeliveredFrame DEF Authorize
<1> QED BY <1>1, <1>2, <1>3, <1>4

(* What both kinds of claim have in common: p was not charged, other rows  *)
(* do not come to life or leave settlement, and r holds a fresh token.     *)
LEMMA ClaimStep ==
  ASSUME IInv, NEW r \in Requests, req[r].pc = "verifying",
         NEW p \in Payments, p = req[r].payment,
         row[p].state \in {"absent", "processing"},
         \E u \in Tokens : ~InUse(u),
         NEW b \in Bodies, row' \in [Payments -> Rows],
         row'[p] = Claimed(b, FreshToken),
         \A q \in Payments \ {p} :
           \/ row'[q] = row[q]
           \/ Expired(q) /\ row'[q] = NoRow
           \/ Cached(q) /\ row'[q] = Tombstone(row[q], "settled_response_retired"),
         req' = [req EXCEPT ![r] = Handler("assessing", p, req[r].body, FreshToken)],
         UNCHANGED <<runtime, chain, calls, recorded, delivered>>
  PROVE  IInv'
<1> USE DEF IInv
<1>1. /\ req'[r] = Handler("assessing", p, req[r].body, FreshToken)
      /\ \A s \in Requests : s # r => req'[s] = req[s]
  BY DEF TypeOK
<1>2. TypeOK'
  <2>1. Handler("assessing", p, req[r].body, FreshToken) \in Handlers
    BY FreshTokenIsFree DEF TypeOK, Handlers, Phases, Handler
  <2> QED BY <2>1 DEF TypeOK
<1>3. HandlerInv'
  <2>1. ASSUME NEW s \in Requests, s # r, req[s].pc \in Settling
        PROVE  row'[req[s].payment] = row[req[s].payment]
    BY <2>1 DEF HandlerInv, HoldsSettlement, Settling, Expired, Cached
  <2>2. ASSUME NEW s \in Requests, s # r, req[s].pc \in Settling
        PROVE  HoldsSettlement(s)'
    BY <1>1, <2>1, <2>2 DEF HandlerInv, HoldsSettlement
  <2> QED BY <1>1, <2>1, <2>2, FreshTokenIsFree DEF HandlerInv, Settling, Handler
<1>4. TokenInv'
  <2>1. FreshToken \in Tokens /\ \A s \in Requests : req[s].token # FreshToken
    BY FreshTokenIsFree DEF InUse
  <2> QED BY <1>1, <2>1 DEF TokenInv, Handler
<1>5. RowInv'
  BY NoneAssumption DEF RowInv, Present, Cached, Expired, Claimed, NoRow, Tombstone, Reasons
<1>6. PaidInv'
  BY NoneAssumption
  DEF PaidInv, RowInv, Cached, Expired, Claimed, NoRow, Tombstone, Answers, Reasons
<1>7. DeliveredInv'
  BY NoneAssumption
  DEF DeliveredInv, RowInv, Cached, Expired, Claimed, NoRow, Tombstone, Reasons
<1> QED BY <1>2, <1>3, <1>4, <1>5, <1>6, <1>7

LEMMA ClaimHeldStep ==
  ASSUME IInv, NEW r \in Requests, ClaimHeld(r)
  PROVE  IInv'
<1> DEFINE p == req[r].payment
<1>1. p \in Payments /\ row[p].body \in Bodies /\ row[p].state = "processing"
  BY DEF IInv, HandlerInv, RowInv, ClaimHeld, Expired, Present
<1>2. row' \in [Payments -> Rows] /\ row'[p] = Claimed(row[p].body, FreshToken)
      /\ \A q \in Payments \ {p} : row'[q] = row[q]
  BY <1>1, RowTypes, FreshTokenIsFree DEF ClaimHeld, IInv, TypeOK
<1> QED BY <1>1, <1>2, ClaimStep DEF ClaimHeld

LEMMA ClaimNewStep ==
  ASSUME IInv, NEW r \in Requests, ClaimNew(r)
  PROVE  IInv'
<1> DEFINE p == req[r].payment
           purged == {q \in Payments : Expired(q)}
<1>1. p \in Payments /\ req[r].body \in Bodies /\ row[p].state = "absent"
  BY DEF IInv, HandlerInv, ClaimNew
<1>2. PICK evicted \in SUBSET {q \in Payments : Cached(q)} :
        row' = [q \in Payments |->
                  IF q = p THEN Claimed(req[r].body, FreshToken)
                  ELSE IF q \in purged THEN NoRow
                  ELSE IF q \in evicted
                       THEN Tombstone(row[q], "settled_response_retired")
                  ELSE row[q]]
  BY DEF ClaimNew, OldestCached
<1>3. row' \in [Payments -> Rows] /\ row'[p] = Claimed(req[r].body, FreshToken)
  <2>1. Claimed(req[r].body, FreshToken) \in Rows
    BY <1>1, RowTypes, FreshTokenIsFree DEF ClaimNew
  <2>2. \A q \in Payments : Cached(q) => Tombstone(row[q], "settled_response_retired") \in Rows
    BY RowTypes DEF Cached, IInv, TypeOK, Reasons
  <2> QED BY <1>1, <1>2, <2>1, <2>2, RowTypes DEF IInv, TypeOK
<1>4. \A q \in Payments \ {p} :
        \/ row'[q] = row[q]
        \/ Expired(q) /\ row'[q] = NoRow
        \/ Cached(q) /\ row'[q] = Tombstone(row[q], "settled_response_retired")
  BY <1>2
<1> QED BY <1>1, <1>3, <1>4, ClaimStep DEF ClaimNew

LEMMA ClaimSettledStep ==
  ASSUME IInv, NEW r \in Requests, ClaimSettled(r)
  PROVE  IInv'
BY ReleaseAndEndStep DEF ClaimSettled, IInv, HandlerInv

LEMMA AbortStep ==
  ASSUME IInv, NEW r \in Requests, Abort(r)
  PROVE  IInv'
<1> USE DEF IInv
<1> DEFINE p == req[r].payment
<1>1. CASE ~HoldsClaim(r)
  BY <1>1, EndStep DEF Abort
<1>2. CASE HoldsClaim(r)
  <2>1. /\ req'[r] = Idle /\ req' \in [Requests -> Handlers]
        /\ \A s \in Requests : s # r => req'[s] = req[s]
    BY IdleType DEF Abort, End, TypeOK
  <2>2. p \in Payments /\ row[p].state = "processing"
    BY <1>2 DEF Abort, HoldsClaim, HandlerInv
  <2>3. /\ row'[p] = NoRow /\ row' \in [Payments -> Rows]
        /\ \A q \in Payments : q # p => row'[q] = row[q]
    BY <1>2, <2>2, RowTypes DEF Abort, TypeOK
  <2>4. TypeOK'
    BY <2>1, <2>3 DEF TypeOK, Abort
  <2>5. HandlerInv'
    <3>1. ASSUME NEW s \in Requests, s # r, req[s].pc \in Settling
          PROVE  req[s].payment \in Payments /\ req[s].payment # p
      BY <2>2, <3>1 DEF HandlerInv, HoldsSettlement, Settling
    <3> QED BY <2>1, <2>3, <3>1 DEF Abort, HandlerInv, HoldsSettlement, Settling, Idle, Handler
  <2>6. TokenInv'
    BY <2>1, NoneAssumption DEF TokenInv, Idle, Handler
  <2>7. RowInv' /\ PaidInv'
    BY <2>2, <2>3, NoneAssumption
    DEF Abort, RowInv, PaidInv, Present, Cached, NoRow, Answers, Reasons
  <2>8. DeliveredInv'
    BY <2>2, <2>3, NoneAssumption DEF Abort, DeliveredInv, RowInv, Cached, NoRow, Reasons
  <2> QED BY <2>4, <2>5, <2>6, <2>7, <2>8
<1> QED BY <1>1, <1>2

LEMMA BeginSettlementStep ==
  ASSUME IInv, NEW r \in Requests, NEW resp \in Responses, BeginSettlement(r, resp)
  PROVE  IInv'
<1> USE DEF IInv
<1> DEFINE p == req[r].payment
<1>1. p \in Payments /\ row[p] \in Rows /\ row[p].state = "processing"
      /\ row[p].owner = req[r].token /\ req[r].pc = "assessing"
  BY DEF BeginSettlement, HandlerInv, HoldsClaim, TypeOK
<1>2. /\ row'[p] = Sticky(row[p], resp, None)
      /\ \A q \in Payments : q # p => row'[q] = row[q]
      /\ row' \in [Payments -> Rows]
  BY <1>1, RowTypes DEF BeginSettlement, TypeOK
<1>3. /\ req'[r].pc = "calling" /\ req'[r].payment = p
      /\ req'[r].body = req[r].body /\ req'[r].token = req[r].token
      /\ \A s \in Requests : s # r => req'[s] = req[s]
      /\ req' \in [Requests -> Handlers]
  BY GotoFields DEF BeginSettlement, Phases, TypeOK
<1>4. TypeOK'
  BY <1>2, <1>3 DEF BeginSettlement, TypeOK
<1>5. calls[p] = 0 /\ ~recorded[p]
  BY <1>1 DEF RowInv
<1>6. HandlerInv'
  <2>1. ASSUME NEW s \in Requests, s # r, req[s].pc \in Settling
        PROVE  req[s].payment \in Payments /\ req[s].payment # p
    BY <1>1, <2>1 DEF HandlerInv, HoldsSettlement, Settling
  <2>2. HoldsSettlement(r)'
    BY <1>1, <1>2, <1>3 DEF HoldsSettlement, Sticky
  <2>3. row'[p].result = None /\ req[r].token \in Tokens
    BY <1>1, <1>2 DEF Sticky, HandlerInv
  <2>4. \A s \in Requests : s # r /\ req[s].pc \in Settling => HoldsSettlement(s)'
    BY <1>2, <1>3, <2>1 DEF HandlerInv, HoldsSettlement
  <2> QED BY <1>1, <1>2, <1>3, <1>5, <2>1, <2>2, <2>3, <2>4
          DEF BeginSettlement, HandlerInv, Settling
<1>7. TokenInv'
  BY <1>3 DEF TokenInv
<1>8. RowInv' /\ PaidInv'
  BY <1>1, <1>2, <1>5, NoneAssumption
  DEF BeginSettlement, RowInv, PaidInv, Present, Cached, Sticky, Answers, Reasons
<1>9. DeliveredInv'
  BY <1>1, <1>2, NoneAssumption
  DEF BeginSettlement, DeliveredInv, RowInv, Cached, Sticky, Reasons
<1> QED BY <1>4, <1>6, <1>7, <1>8, <1>9

LEMMA CallSettleStep ==
  ASSUME IInv, NEW r \in Requests, CallSettle(r)
  PROVE  IInv'
<1> USE DEF IInv
<1> DEFINE p == req[r].payment
<1>1. p \in Payments /\ req[r].pc = "calling" /\ calls[p] = 0 /\ HoldsSettlement(r)
  BY DEF CallSettle, HandlerInv, Settling
<1>2. /\ req'[r].pc = "awaiting" /\ req'[r].payment = p
      /\ req'[r].body = req[r].body /\ req'[r].token = req[r].token
      /\ \A s \in Requests : s # r => req'[s] = req[s]
      /\ req' \in [Requests -> Handlers]
  BY GotoFields DEF CallSettle, Phases, TypeOK
<1>3. calls'[p] = 1 /\ \A q \in Payments : q # p => calls'[q] = calls[q]
  BY <1>1 DEF CallSettle, TypeOK
<1>4. /\ \A q \in Payments : q # p => chain'[q] = chain[q]
      /\ chain[p] = "paid" => chain'[p] = "paid"
  BY <1>1 DEF CallSettle, TypeOK
<1>5. TypeOK'
  <2>1. calls' \in [Payments -> Nat]
    BY <1>1 DEF CallSettle, TypeOK
  <2>2. chain' \in [Payments -> {"unseen", "submitted", "paid", "void"}]
    BY DEF CallSettle, TypeOK
  <2> QED BY <1>2, <2>1, <2>2 DEF CallSettle, TypeOK
<1>6. HandlerInv'
  <2>1. ASSUME NEW s \in Requests, s # r, req[s].pc = "calling"
        PROVE  req[s].payment # p
    BY <1>1, <2>1 DEF HandlerInv, TokenInv, HoldsSettlement, Settling
  <2>2. \A s \in Requests : HoldsSettlement(s) => HoldsSettlement(s)'
    BY <1>2 DEF CallSettle, HoldsSettlement
  <2> QED BY <1>1, <1>2, <1>3, <2>1, <2>2 DEF CallSettle, HandlerInv, Settling
<1>7. TokenInv'
  BY <1>2 DEF TokenInv
<1>8. RowInv'
  BY <1>1, <1>3 DEF CallSettle, RowInv, HoldsSettlement, Present, Cached
<1>9. PaidInv'
  BY <1>4 DEF CallSettle, PaidInv
<1> QED BY <1>5, <1>6, <1>7, <1>8, <1>9, DeliveredFrame DEF CallSettle

LEMMA RecordSettlementResultStep ==
  ASSUME IInv, NEW r \in Requests, NEW a \in Answers, RecordSettlementResult(r, a)
  PROVE  IInv'
<1> USE DEF IInv
<1> DEFINE p == req[r].payment
<1>1. /\ p \in Payments /\ req[r].pc = "awaiting" /\ HoldsSettlement(r)
      /\ row[p] \in Rows /\ row[p].state = "settling" /\ ~recorded[p]
  BY DEF RecordSettlementResult, HandlerInv, Settling, HoldsSettlement, TypeOK
<1>2. /\ row'[p] = Sticky(row[p], row[p].response, a)
      /\ \A q \in Payments : q # p => row'[q] = row[q]
      /\ row' \in [Payments -> Rows]
  <2>1. row[p].response \in Responses
    BY <1>1, RowKinds
  <2>2. Sticky(row[p], row[p].response, a) \in Rows
    BY <1>1, <2>1, RowTypes
  <2> QED BY <1>1, <2>2 DEF RecordSettlementResult, TypeOK
<1>3. /\ req'[r].pc = "answered" /\ req'[r].payment = p
      /\ req'[r].body = req[r].body /\ req'[r].token = req[r].token
      /\ \A s \in Requests : s # r => req'[s] = req[s]
      /\ req' \in [Requests -> Handlers]
  BY <1>1, GotoFields DEF RecordSettlementResult, Phases, TypeOK
<1>4. /\ recorded' \in [Payments -> BOOLEAN]
      /\ recorded'[p] => a = "success"
      /\ \A q \in Payments : q # p => recorded'[q] = recorded[q]
  BY <1>1 DEF RecordSettlementResult, TypeOK
<1>5. TypeOK'
  BY <1>2, <1>3, <1>4 DEF RecordSettlementResult, TypeOK
<1>6. HandlerInv'
  <2>1. ASSUME NEW s \in Requests, s # r, req[s].pc \in Settling
        PROVE  req[s].payment \in Payments /\ req[s].payment # p
    BY <1>1, <2>1 DEF HandlerInv, TokenInv, HoldsSettlement, Settling
  <2>2. HoldsSettlement(r)'
    BY <1>1, <1>2, <1>3 DEF HoldsSettlement, Sticky
  <2>3. \A s \in Requests : s # r /\ req[s].pc \in Settling => HoldsSettlement(s)'
    BY <1>2, <1>3, <2>1 DEF HandlerInv, HoldsSettlement
  <2> QED BY <1>1, <1>2, <1>3, <1>4, <2>1, <2>2, <2>3
          DEF RecordSettlementResult, HandlerInv, Settling
<1>7. TokenInv'
  BY <1>3 DEF TokenInv
<1>8. RowInv'
  BY <1>1, <1>2, <1>4, NoneAssumption
  DEF RecordSettlementResult, RowInv, Present, Cached, Sticky
<1>9. PaidInv'
  BY <1>1, <1>2, <1>4, NoneAssumption
  DEF RecordSettlementResult, Answerable, PaidInv, RowInv, Sticky, Answers, Reasons
<1>10. DeliveredInv'
  BY <1>1, <1>2, NoneAssumption
  DEF RecordSettlementResult, DeliveredInv, RowInv, Cached, Sticky, Reasons
<1> QED BY <1>5, <1>6, <1>7, <1>8, <1>9, <1>10

(* Whoever settles a row, the handler or the operator. *)
LEMMA SettledStep ==
  ASSUME IInv, NEW p \in Payments, row[p].state = "settling", chain[p] = "paid",
         row' = [row EXCEPT ![p] = Settled(row[p])], UNCHANGED <<chain, calls>>,
         recorded' \in [Payments -> BOOLEAN],
         \A q \in Payments : q # p => recorded'[q] = recorded[q]
  PROVE  RowInv' /\ PaidInv' /\ row' \in [Payments -> Rows]
<1> USE DEF IInv
<1>1. /\ row'[p] = Settled(row[p])
      /\ \A q \in Payments : q # p => row'[q] = row[q]
      /\ row' \in [Payments -> Rows]
  BY RowTypes DEF TypeOK
<1>2. RowInv'
  BY <1>1, NoneAssumption DEF RowInv, Present, Cached, Settled, Reasons
<1>3. PaidInv'
  BY <1>1 DEF PaidInv, Settled
<1> QED BY <1>1, <1>2, <1>3

LEMMA CompleteStep ==
  ASSUME IInv, NEW r \in Requests, Complete(r)
  PROVE  IInv'
<1> USE DEF IInv
<1> DEFINE p == req[r].payment
<1>1. /\ p \in Payments /\ row[p].state = "settling" /\ HoldsSettlement(r)
      /\ row[p].reason = None /\ chain[p] = "paid" /\ delivered[p] = {}
  BY NoneAssumption
  DEF Complete, Succeeded, HandlerInv, HoldsSettlement, RowInv, PaidInv, DeliveredInv, Reasons
<1>2. RowInv' /\ PaidInv' /\ row' \in [Payments -> Rows]
  BY <1>1, SettledStep DEF Complete, TypeOK
<1>3. row'[p] = Settled(row[p]) /\ \A q \in Payments : q # p => row'[q] = row[q]
  BY <1>1 DEF Complete, TypeOK
<1>4. /\ req'[r] = Idle /\ req' \in [Requests -> Handlers]
      /\ \A s \in Requests : s # r => req'[s] = req[s]
  BY IdleType DEF Complete, End, TypeOK
<1>5. /\ delivered' \in [Payments -> SUBSET Goods]
      /\ delivered'[p] \subseteq {<<row[p].body, row[p].response>>}
      /\ \A q \in Payments : q # p => delivered'[q] = delivered[q]
  <2>1. <<row[p].body, row[p].response>> \in Goods
    BY <1>1 DEF RowInv, Present, Goods
  <2> QED BY <1>1, <2>1 DEF Complete, Release, Deliver, TypeOK
<1>6. TypeOK'
  BY <1>2, <1>4, <1>5 DEF Complete, TypeOK
<1>7. HandlerInv'
  <2>1. ASSUME NEW s \in Requests, s # r, req[s].pc \in Settling
        PROVE  req[s].payment \in Payments /\ req[s].payment # p
    BY <1>1, <2>1 DEF Complete, HandlerInv, TokenInv, HoldsSettlement, Settling
  <2> QED BY <1>3, <1>4, <2>1
          DEF Complete, HandlerInv, HoldsSettlement, Settling, Idle, Handler
<1>8. TokenInv'
  BY <1>4, NoneAssumption DEF TokenInv, Idle, Handler
<1>9. DeliveredInv'
  BY <1>3, <1>5 DEF DeliveredInv, Cached, Settled
<1> QED BY <1>2, <1>6, <1>7, <1>8, <1>9

(* A settling row that no success was journaled for may be closed. *)
LEMMA ClosedStep ==
  ASSUME IInv, NEW p \in Payments, row[p].state = "settling",
         row[p].result # "success",
         NEW why \in {"payment_settlement_failed", "payment_authorization_retired"},
         row' = [row EXCEPT ![p] = Tombstone(row[p], why)],
         UNCHANGED <<chain, calls, recorded, delivered>>
  PROVE  RowInv' /\ PaidInv' /\ DeliveredInv' /\ row' \in [Payments -> Rows]
<1> USE DEF IInv
<1>1. /\ row'[p] = Tombstone(row[p], why)
      /\ \A q \in Payments : q # p => row'[q] = row[q]
      /\ row' \in [Payments -> Rows]
  BY RowTypes DEF TypeOK, Reasons
<1>2. row[p].reason = None
  BY DEF RowInv
<1>3. RowInv'
  BY <1>1, NoneAssumption DEF RowInv, Present, Cached, Tombstone, Reasons
<1>4. PaidInv'
  BY <1>1, <1>2, NoneAssumption DEF PaidInv, Tombstone, Reasons, Answers
<1>5. DeliveredInv'
  BY <1>1, <1>2, NoneAssumption DEF DeliveredInv, Cached, Tombstone, Reasons
<1> QED BY <1>1, <1>3, <1>4, <1>5

LEMMA CompleteFailedSettlementStep ==
  ASSUME IInv, NEW r \in Requests, CompleteFailedSettlement(r)
  PROVE  IInv'
<1> USE DEF IInv
<1> DEFINE p == req[r].payment
<1>1. p \in Payments /\ row[p].state = "settling" /\ row[p].result # "success"
      /\ HoldsSettlement(r)
  BY DEF CompleteFailedSettlement, HandlerInv, HoldsSettlement
<1>2. RowInv' /\ PaidInv' /\ DeliveredInv' /\ row' \in [Payments -> Rows]
  BY <1>1, ClosedStep DEF CompleteFailedSettlement
<1>3. \A q \in Payments : q # p => row'[q] = row[q]
  BY DEF CompleteFailedSettlement, TypeOK
<1>4. /\ req'[r] = Idle /\ req' \in [Requests -> Handlers]
      /\ \A s \in Requests : s # r => req'[s] = req[s]
  BY IdleType DEF CompleteFailedSettlement, End, TypeOK
<1>5. TypeOK'
  BY <1>2, <1>4 DEF CompleteFailedSettlement, TypeOK
<1>6. HandlerInv'
  <2>1. ASSUME NEW s \in Requests, s # r, req[s].pc \in Settling
        PROVE  req[s].payment \in Payments /\ req[s].payment # p
    BY <1>1, <2>1
    DEF CompleteFailedSettlement, HandlerInv, TokenInv, HoldsSettlement, Settling
  <2> QED BY <1>3, <1>4, <2>1
          DEF CompleteFailedSettlement, HandlerInv, HoldsSettlement, Settling, Idle, Handler
<1>7. TokenInv'
  BY <1>4, NoneAssumption DEF TokenInv, Idle, Handler
<1> QED BY <1>2, <1>5, <1>6, <1>7

-----------------------------------------------------------------------------
(* The operator, the world and the clock. *)

LEMMA ChainDecidesStep ==
  ASSUME IInv, NEW p \in Payments, ChainDecides(p)
  PROVE  IInv'
<1> USE DEF IInv, ChainDecides
<1>1. TypeOK'
  BY DEF TypeOK
<1>2. HandlerInv' /\ TokenInv'
  BY DEF HandlerInv, TokenInv, HoldsSettlement
<1>3. PaidInv'
  BY DEF PaidInv, TypeOK
<1> QED BY <1>1, <1>2, <1>3, RowFrame, DeliveredFrame

LEMMA StartStep ==
  ASSUME IInv, NEW role \in {"serving", "maintenance"}, Start(role)
  PROVE  IInv'
<1> USE DEF IInv, Start
<1>1. TypeOK'
  BY DEF TypeOK
<1>2. HandlerInv' /\ TokenInv'
  BY DEF HandlerInv, TokenInv, HoldsSettlement, Settling
<1> QED BY <1>1, <1>2, RowFrame, PaidFrame, DeliveredFrame

LEMMA StopStep ==
  ASSUME IInv, Stop
  PROVE  IInv'
<1> USE DEF IInv, Stop
<1>1. TypeOK'
  BY IdleType DEF TypeOK
<1>2. HandlerInv' /\ TokenInv'
  BY NoneAssumption DEF HandlerInv, TokenInv, Settling, Idle, Handler
<1> QED BY <1>1, <1>2, RowFrame, PaidFrame, DeliveredFrame

(* Under maintenance no handler is in flight. *)
LEMMA MaintenanceFrame ==
  ASSUME IInv, runtime = "maintenance", UNCHANGED <<req, runtime>>
  PROVE  HandlerInv' /\ TokenInv' /\ \A r \in Requests : req[r] = Idle
<1>1. \A r \in Requests : req[r] = Idle /\ req[r].pc = "idle"
  BY DEF IInv, HandlerInv
<1>2. HandlerInv' /\ TokenInv'
  BY <1>1 DEF IInv, HandlerInv, TokenInv, Settling
<1> QED BY <1>1, <1>2

LEMMA ReconcileSettledStep ==
  ASSUME IInv, NEW p \in Payments, ReconcileSettled(p)
  PROVE  IInv'
<1> USE DEF IInv, ReconcileSettled
<1>1. /\ row[p].state = "settling" /\ row[p].reason = None
      /\ chain[p] = "paid" /\ delivered[p] = {}
  BY NoneAssumption DEF Answerable, RowInv, PaidInv, DeliveredInv, Reasons
<1>2. RowInv' /\ PaidInv' /\ row' \in [Payments -> Rows]
  BY <1>1, SettledStep DEF TypeOK
<1>3. row'[p] = Settled(row[p]) /\ \A q \in Payments : q # p => row'[q] = row[q]
  BY DEF TypeOK
<1>4. TypeOK'
  BY <1>2 DEF TypeOK
<1>5. HandlerInv' /\ TokenInv'
  BY MaintenanceFrame
<1>6. DeliveredInv'
  BY <1>1, <1>3 DEF DeliveredInv, Cached
<1> QED BY <1>2, <1>4, <1>5, <1>6

LEMMA RetireUnsettledStep ==
  ASSUME IInv, NEW p \in Payments, RetireUnsettled(p)
  PROVE  IInv'
<1> USE DEF IInv, RetireUnsettled
<1>1. RowInv' /\ PaidInv' /\ DeliveredInv' /\ row' \in [Payments -> Rows]
  BY ClosedStep
<1>2. TypeOK'
  BY <1>1 DEF TypeOK
<1> QED BY <1>1, <1>2, MaintenanceFrame

LEMMA RetireTerminalResponsesStep ==
  ASSUME IInv, RetireTerminalResponses
  PROVE  IInv'
<1> USE DEF IInv
<1>1. \A p \in Payments :
        \/ row'[p] = row[p]
        \/ /\ row[p].state = "settled" /\ row[p].reason = "payment_settlement_failed"
           /\ row'[p] = Tombstone(row[p], "payment_authorization_retired")
        \/ /\ Cached(p)
           /\ row'[p] = Tombstone(row[p], "settled_response_retired")
  BY DEF RetireTerminalResponses, Aged, Cached
<1>2. row' \in [Payments -> Rows]
  <2>1. \A p \in Payments : row'[p] \in Rows
    BY <1>1, RowTypes DEF Cached, TypeOK, Reasons
  <2> QED BY <2>1 DEF RetireTerminalResponses
<1>3. TypeOK'
  BY <1>2 DEF RetireTerminalResponses, TypeOK
<1>4. UNCHANGED <<chain, calls, recorded>>
  BY DEF RetireTerminalResponses
<1>5. ASSUME NEW p \in Payments, row'[p] # row[p]
      PROVE  /\ row'[p].state = "settled" /\ row[p].state = "settled"
             /\ row'[p].body = row[p].body /\ row'[p].result # "success"
             /\ \/ /\ row[p].reason = "payment_settlement_failed"
                   /\ row'[p].reason = "payment_authorization_retired"
                \/ /\ row[p].reason = "settled"
                   /\ row'[p].reason = "settled_response_retired"
  <2>1. CASE /\ row[p].state = "settled" /\ row[p].reason = "payment_settlement_failed"
             /\ row'[p] = Tombstone(row[p], "payment_authorization_retired")
    BY <2>1, NoneAssumption DEF Tombstone, Answers
  <2>2. CASE Cached(p) /\ row'[p] = Tombstone(row[p], "settled_response_retired")
    BY <2>2, NoneAssumption DEF Cached, Tombstone, Answers
  <2> QED BY <1>1, <1>5, <2>1, <2>2
<1>7. RowInv'
  BY <1>4, <1>5, NoneAssumption DEF RowInv, Present, Cached, Reasons
<1>8. PaidInv'
  BY <1>4, <1>5 DEF PaidInv
<1>6. DeliveredInv'
  BY <1>1 DEF RetireTerminalResponses, DeliveredInv, Cached, Tombstone
<1> QED BY <1>3, <1>6, <1>7, <1>8, MaintenanceFrame DEF RetireTerminalResponses

LEMMA TickStep ==
  ASSUME IInv, Tick
  PROVE  IInv'
<1>1. ASSUME NEW p \in Payments, Present(p)
      PROVE  Restamped(row[p], Sooner(row[p].lease), Older(row[p].age)) \in Rows
  <2>1. /\ row[p] \in Rows /\ row[p].lease \in 0..Lease /\ row[p].age \in 0..Retention
        /\ row[p].state # "processing" => row[p].lease = 0
    BY RowColumns, RowKinds DEF IInv, TypeOK
  <2>2. Sooner(row[p].lease) \in 0..Lease /\ Older(row[p].age) \in 0..Retention
    BY <2>1, BoundAssumption DEF Sooner, Older
  <2>3. row[p].state # "processing" => Sooner(row[p].lease) = 0
    BY <2>1 DEF Sooner
  <2> QED BY <1>1, <2>1, <2>2, <2>3, RestampedTypes DEF Present
<1>2. row' \in [Payments -> Rows]
  BY <1>1 DEF IInv, TypeOK, Tick
<1> QED BY <1>2, TimeStep DEF Tick, Restamped

LEMMA ClockJumpsBackStep ==
  ASSUME IInv, ClockJumpsBack
  PROVE  IInv'
<1>1. row' \in [Payments -> Rows]
  BY BoundAssumption, RestampedTypes DEF IInv, TypeOK, ClockJumpsBack
<1> QED BY <1>1, TimeStep DEF ClockJumpsBack, Restamped

-----------------------------------------------------------------------------
(* IInv is inductive. *)
THEOREM NextIInv == IInv /\ [Next]_vars => IInv'
<1> SUFFICES ASSUME IInv, [Next]_vars PROVE IInv'
  OBVIOUS
<1>1. CASE UNCHANGED vars
  <2>1. TypeOK' /\ HandlerInv' /\ TokenInv'
    BY <1>1 DEF vars, IInv, TypeOK, HandlerInv, TokenInv, HoldsSettlement
  <2> QED BY <1>1, <2>1, RowFrame, PaidFrame, DeliveredFrame DEF vars, IInv
<1>2. CASE Serve
  <2>1. ASSUME NEW r \in Requests, Handle(r) PROVE IInv'
    BY <2>1, ClaimHeldStep, ClaimNewStep, ClaimSettledStep, EndStep, AbortStep,
       BeginSettlementStep, ReleaseAndEndStep, CallSettleStep, RecordSettlementResultStep,
       CompleteStep, CompleteFailedSettlementStep
    DEF Handle, AuthorizeFails, BeginRefused, SettleLost, SettleUncertain, BeginSettled,
        IInv, HandlerInv
  <2> QED BY <1>2, <2>1, ReplayStep, AuthorizeStep DEF Serve
<1>3. CASE Operate
  BY <1>3, ReconcileSettledStep, RetireUnsettledStep, RetireTerminalResponsesStep
  DEF Operate
<1>4. CASE World
  BY <1>4, ChainDecidesStep, StartStep, StopStep, TickStep, ClockJumpsBackStep DEF World
<1> QED BY <1>1, <1>2, <1>3, <1>4 DEF Next

THEOREM InductiveInvariant == Spec => []IInv
BY InitIInv, NextIInv, PTL DEF Spec

(* Every reachable state is well-typed. *)
THEOREM TypeCorrect == Spec => []TypeOK
<1>1. IInv => TypeOK
  BY DEF IInv
<1> QED BY <1>1, InductiveInvariant, PTL

(* The facilitator is asked to settle a payment at most once (the sticky   *)
(* state of begin_settlement behind the owner token of claim), through     *)
(* every crash, expiry, purge, takeover, cancellation and clock setting.   *)
THEOREM SettledAtMostOnce == Spec => []AtMostOneSettleCall
<1>1. IInv => AtMostOneSettleCall
  BY DEF IInv, RowInv, AtMostOneSettleCall
<1> QED BY <1>1, InductiveInvariant, PTL

(* A payment that was sent out for settlement stays in the journal: claim's*)
(* purge and abort never reach its row.                                    *)
THEOREM ChargeIsRemembered == Spec => []ChargedIdentityIsKept
<1>1. IInv => ChargedIdentityIsKept
  BY RowColumns DEF IInv, RowInv, TypeOK, States, ChargedIdentityIsKept
<1> QED BY <1>1, InductiveInvariant, PTL

(* Everything handed out for a payment is the one response that was        *)
(* journaled before its settlement, and the payment is paid.               *)
THEOREM DeliveryIsPaidAndUnique == Spec => []OnlyPaidGoodsDelivered
<1>1. IInv => OnlyPaidGoodsDelivered
  BY NoneAssumption
  DEF IInv, RowInv, PaidInv, DeliveredInv, OnlyPaidGoodsDelivered, Reasons
<1> QED BY <1>1, InductiveInvariant, PTL

(* A success in the journal is never turned into a payment closed as       *)
(* unpaid, whatever an operator believes (retire_unsettled).               *)
THEOREM SuccessIsKept == Spec => []RecordedSuccessIsNeverUnpaid
<1>1. IInv => RecordedSuccessIsNeverUnpaid
  BY NoneAssumption DEF IInv, RowInv, PaidInv, RecordedSuccessIsNeverUnpaid, Reasons
<1> QED BY <1>1, InductiveInvariant, PTL

(* One step of the property below: only the handler that is answered, or   *)
(* an operator, takes a row out of settling.                               *)
LEMMA ResolveStep ==
  ASSUME IInv, [Next]_vars, NEW p \in Payments,
         row[p].state = "settling", row'[p].state # "settling"
  PROVE  \/ runtime = "maintenance" /\ \A r \in Requests : req[r] = Idle
         \/ \E r \in Requests : /\ req[r].pc = "answered"
                                /\ req[r].payment = p
                                /\ req[r].token = row[p].owner
<1> USE DEF IInv
<1>1. ASSUME NEW r \in Requests, Handle(r)
      PROVE  /\ req[r].pc = "answered" /\ req[r].payment = p
             /\ req[r].token = row[p].owner
  <2>1. CASE \/ ClaimSettled(r) \/ AuthorizeFails(r) \/ BeginSettled(r) \/ BeginRefused(r)
             \/ CallSettle(r) \/ SettleLost(r) \/ SettleUncertain(r)
    BY <2>1 DEF ClaimSettled, AuthorizeFails, BeginSettled, BeginRefused, CallSettle,
                SettleLost, SettleUncertain
  <2>2. CASE ClaimHeld(r)
    BY <2>2 DEF ClaimHeld, Expired, TypeOK
  <2>3. CASE ClaimNew(r)
    <3>1. PICK evicted \in SUBSET {q \in Payments : Cached(q)} :
            p # req[r].payment /\ p \notin evicted /\ ~Expired(p) => row'[p] = row[p]
      BY <2>3 DEF ClaimNew, OldestCached
    <3> QED BY <2>3, <3>1 DEF ClaimNew, Expired, Cached
  <2>4. CASE Abort(r)
    BY <2>4 DEF Abort, HoldsClaim, TypeOK
  <2>5. CASE \E resp \in Responses : BeginSettlement(r, resp)
    BY <2>5 DEF BeginSettlement, HoldsClaim, TypeOK
  <2>6. CASE \E a \in Answers : RecordSettlementResult(r, a)
    <3>1. PICK a \in Answers : RecordSettlementResult(r, a)
      BY <2>6
    <3>2. CASE HoldsSettlement(r)
      BY <3>1, <3>2 DEF RecordSettlementResult, Sticky, TypeOK
    <3>3. CASE ~HoldsSettlement(r)
      BY <3>1, <3>3 DEF RecordSettlementResult
    <3> QED BY <3>2, <3>3
  <2>7. CASE Complete(r)
    BY <2>7 DEF Complete, HoldsSettlement, TypeOK
  <2>8. CASE CompleteFailedSettlement(r)
    BY <2>8 DEF CompleteFailedSettlement, HoldsSettlement, TypeOK
  <2> QED BY <1>1, <2>1, <2>2, <2>3, <2>4, <2>5, <2>6, <2>7, <2>8 DEF Handle
<1>2. CASE Serve
  BY <1>1, <1>2 DEF Serve, Replay, Authorize
<1>3. CASE Operate
  <2>1. runtime = "maintenance"
    BY <1>3 DEF Operate, ReconcileSettled, RetireUnsettled, RetireTerminalResponses
  <2>2. \A r \in Requests : req[r] = Idle
    BY <2>1 DEF HandlerInv
  <2> QED BY <2>1, <2>2
<1>4. CASE World \/ UNCHANGED vars
  <2>1. row'[p].state = row[p].state
    BY <1>4 DEF World, ChainDecides, Start, Stop, Tick, ClockJumpsBack, Restamped, vars
  <2> QED BY <2>1
<1> QED BY <1>2, <1>3, <1>4 DEF Next

(* Between begin_settlement and the end of a settlement nobody but the     *)
(* handler that began it, or an operator while no gateway serves, resolves *)
(* the row: no expiry, purge, abort or other handler does.                 *)
THEOREM OnlyOwnerResolves == Spec => OnlySettlerOrOperatorResolves
<1>1. ASSUME IInv, [Next]_vars
      PROVE  [\A p \in Payments :
                row[p].state = "settling" /\ row'[p].state # "settling" =>
                  \/ runtime = "maintenance" /\ \A r \in Requests : req[r] = Idle
                  \/ \E r \in Requests : /\ req[r].pc = "answered"
                                         /\ req[r].payment = p
                                         /\ req[r].token = row[p].owner]_vars
  BY <1>1, ResolveStep
<1> QED BY <1>1, InductiveInvariant, PTL DEF Spec, OnlySettlerOrOperatorResolves

(***************************************************************************)
(* What enters and what leaves the journal.                                *)
(***************************************************************************)

(* A handler's own abort deletes its claim. *)
Aborted(p) ==
  \E r \in Requests : /\ req[r].pc = "assessing"
                      /\ req[r].payment = p
                      /\ req[r].token = row[p].owner
                      /\ req'[r] = Idle

(* The operator retires a cached response once it is old enough. *)
RetiredByOperator(p) ==
  /\ row'[p].reason = "settled_response_retired"
  /\ runtime = "maintenance" /\ row[p].age = Retention

(* How a step other than a claim may change the row of p: it makes no row, *)
(* it warms up none, it deletes only what its handler aborts, and takes a  *)
(* cached response only by the operator's hand.                            *)
Ordinary(p) ==
  /\ row'[p].state # "absent" => row[p].state # "absent"
  /\ Hot(p)' => Hot(p)
  /\ Present(p) /\ row'[p].state = "absent" => Aborted(p)
  /\ Cached(p) /\ row'[p].response # row[p].response => RetiredByOperator(p)

(* Every step of a handler but a claim of a new identity is of that kind. *)
LEMMA HandlersAreOrdinary ==
  ASSUME IInv, NEW r \in Requests, Handle(r), ~ClaimNew(r), NEW p \in Payments
  PROVE  Ordinary(p)
<1> USE DEF Ordinary, IInv
<1>1. CASE UNCHANGED row
  BY <1>1 DEF Present, Hot, Cached
<1>2. CASE ClaimHeld(r)
  BY <1>2 DEF ClaimHeld, Expired, Claimed, Hot, Cached, TypeOK, Present
<1>3. CASE Abort(r)
  <2>1. CASE ~HoldsClaim(r)
    BY <1>1, <1>3, <2>1 DEF Abort
  <2>2. CASE HoldsClaim(r) /\ p = req[r].payment
    <3>1. row'[p] = NoRow /\ req'[r] = Idle
      BY <1>3, <2>2 DEF Abort, End, TypeOK
    <3> QED  BY <1>3, <2>2, <3>1, NoneAssumption
             DEF Abort, HoldsClaim, Aborted, NoRow, Hot, Cached, Reasons
  <2>3. CASE HoldsClaim(r) /\ p # req[r].payment
    <3>1. row'[p] = row[p]
      BY <1>3, <2>3 DEF Abort, TypeOK
    <3> QED  BY <3>1 DEF Present, Hot, Cached
  <2> QED  BY <2>1, <2>2, <2>3
<1>4. CASE \E resp \in Responses : BeginSettlement(r, resp)
  BY <1>4 DEF BeginSettlement, HoldsClaim, Sticky, Hot, Cached, TypeOK, Present
<1>5. CASE \E a \in Answers : RecordSettlementResult(r, a)
  <2>1. PICK a \in Answers : RecordSettlementResult(r, a)
    BY <1>5
  <2>2. CASE HoldsSettlement(r)
    BY <2>1, <2>2
    DEF RecordSettlementResult, HoldsSettlement, Sticky, Hot, Cached, TypeOK, Present
  <2>3. CASE ~HoldsSettlement(r)
    BY <1>1, <2>1, <2>3 DEF RecordSettlementResult
  <2> QED  BY <2>2, <2>3
<1>6. CASE Complete(r)
  BY <1>6 DEF Complete, HoldsSettlement, Settled, Hot, Cached, TypeOK, Present
<1>7. CASE CompleteFailedSettlement(r)
  BY <1>7
  DEF CompleteFailedSettlement, HoldsSettlement, Tombstone, Hot, Cached, TypeOK, Present
<1> QED
  BY <1>1, <1>2, <1>3, <1>4, <1>5, <1>6, <1>7
  DEF Handle, ClaimSettled, AuthorizeFails, BeginSettled, BeginRefused, CallSettle,
      SettleLost, SettleUncertain

(* So is every other step of the system: only ClaimNew makes rows. *)
LEMMA OrdinaryStep ==
  ASSUME IInv, [Next]_vars, \A r \in Requests : ~ClaimNew(r), NEW p \in Payments
  PROVE  Ordinary(p)
<1>1. CASE Serve
  <2>1. CASE UNCHANGED row
    BY <2>1 DEF Ordinary, Present, Hot, Cached
  <2> QED  BY <1>1, <2>1, HandlersAreOrdinary DEF Serve, Replay, Authorize
<1>2. CASE \E q \in Payments : ReconcileSettled(q) \/ RetireUnsettled(q)
  BY <1>2
  DEF Ordinary, IInv, TypeOK, ReconcileSettled, RetireUnsettled, Settled, Tombstone,
      Hot, Cached, Present
<1>3. CASE RetireTerminalResponses
  BY <1>3
  DEF Ordinary, RetiredByOperator, RetireTerminalResponses, Aged, Tombstone, Hot, Cached,
      Present
<1>4. CASE World \/ UNCHANGED vars
  <2>1. /\ row'[p].state = row[p].state /\ row'[p].reason = row[p].reason
        /\ row'[p].response = row[p].response
    BY <1>4 DEF World, ChainDecides, Start, Stop, Tick, ClockJumpsBack, Restamped, vars
  <2> QED  BY <2>1 DEF Ordinary, Hot, Cached, Present
<1> QED  BY <1>1, <1>2, <1>3, <1>4 DEF Next, Operate

(* claim's own eviction: a response it retires is the oldest one cached,   *)
(* and max_entries is reached.                                             *)
LEMMA EvictionIsNeeded ==
  ASSUME IInv, NEW r \in Requests, ClaimNew(r), NEW p \in Payments, Cached(p),
         row'[p].response # row[p].response
  PROVE  /\ row'[p].reason = "settled_response_retired"
         /\ Cardinality(Active) >= MaxEntries
         /\ \A q \in Payments : Cached(q) /\ Cached(q)' => row[q].age <= row[p].age
<1> DEFINE hot    == {q \in Payments \ {s \in Payments : Expired(s)} : Hot(q)}
           excess == IF Cardinality(hot) >= MaxEntries
                     THEN Cardinality(hot) - MaxEntries + 1 ELSE 0
           cached == {q \in Payments : Cached(q)}
<1>1. hot = Active
  BY DEF Active
<1>2. PICK evicted \in OldestCached(excess) :
        row' = [q \in Payments |->
                  IF q = req[r].payment THEN Claimed(req[r].body, FreshToken)
                  ELSE IF q \in {s \in Payments : Expired(s)} THEN NoRow
                  ELSE IF q \in evicted
                       THEN Tombstone(row[q], "settled_response_retired")
                  ELSE row[q]]
  BY DEF ClaimNew
<1>3. /\ evicted \in SUBSET cached
      /\ Cardinality(evicted) = IF excess < Cardinality(cached)
                                THEN excess ELSE Cardinality(cached)
      /\ \A e \in evicted, c \in cached \ evicted : row[e].age >= row[c].age
  BY <1>2 DEF OldestCached
<1>4. p # req[r].payment /\ ~Expired(p)
  BY DEF ClaimNew, Cached, Expired
<1>5. p \in evicted /\ row'[p].reason = "settled_response_retired"
  BY <1>2, <1>4 DEF Tombstone
<1>6. ASSUME NEW q \in Payments, Cached(q), Cached(q)'
      PROVE  row[q].age <= row[p].age
  <2>1. q # req[r].payment /\ ~Expired(q)
    BY <1>6 DEF ClaimNew, Cached, Expired
  <2>2. q \notin evicted
    BY <1>2, <1>6, <2>1 DEF Tombstone, Cached
  <2>3. row[p].age \in 0..Retention /\ row[q].age \in 0..Retention
    BY RowColumns DEF IInv, TypeOK
  <2> QED BY <1>3, <1>5, <1>6, <2>2, <2>3, BoundAssumption
<1>7. Cardinality(Active) >= MaxEntries
  <2>1. /\ IsFiniteSet(evicted) /\ IsFiniteSet(cached) /\ IsFiniteSet(hot)
        /\ Cardinality(evicted) \in Nat /\ Cardinality(cached) \in Nat
        /\ Cardinality(hot) \in Nat
    BY <1>3, PaymentAssumption, FS_Subset, FS_CardinalityType
  <2>2. Cardinality(evicted) # 0
    BY <1>5, <2>1, FS_EmptySet
  <2>3. SUFFICES ASSUME ~(Cardinality(hot) >= MaxEntries) PROVE FALSE
    BY <1>1
  <2>4. excess = 0
    BY <2>3
  <2> QED BY <1>3, <2>1, <2>2, <2>4
<1> QED BY <1>5, <1>6, <1>7

(* No room is ever made by discarding a running claim, an unresolved       *)
(* settlement or a charged identity: claim's purge takes expired claims,   *)
(* abort its own handler's, and nothing else deletes a row.  A cached      *)
(* response goes only by retirement, an aged one by the operator, the      *)
(* oldest one by a claim that finds max_entries reached.                   *)
THEOREM OnlyTheDeadAreDropped == Spec => OnlyDeadRowsAreDropped
<1>1. ASSUME IInv, [Next]_vars, NEW p \in Payments, Present(p), row'[p].state = "absent"
      PROVE  (row[p].state = "processing" /\ row[p].lease = 0) \/ Aborted(p)
  <2>1. CASE \E r \in Requests : ClaimNew(r)
    <3>1. PICK r \in Requests : ClaimNew(r)
      BY <2>1
    <3>2. PICK evicted \in SUBSET {q \in Payments : Cached(q)} :
            row'[p] = IF p = req[r].payment THEN Claimed(req[r].body, FreshToken)
                      ELSE IF Expired(p) THEN NoRow
                      ELSE IF p \in evicted
                           THEN Tombstone(row[p], "settled_response_retired")
                      ELSE row[p]
      BY <3>1 DEF ClaimNew, OldestCached
    <3> QED  BY <1>1, <3>2 DEF Claimed, Tombstone, Present, Expired
  <2> QED  BY <1>1, <2>1, OrdinaryStep DEF Ordinary
<1>2. ASSUME IInv, [Next]_vars, NEW p \in Payments, Cached(p),
             row'[p].response # row[p].response
      PROVE  /\ row'[p].reason = "settled_response_retired"
             /\ \/ runtime = "maintenance" /\ row[p].age = Retention
                \/ /\ Cardinality(Active) >= MaxEntries
                   /\ \A q \in Payments :
                        Cached(q) /\ Cached(q)' => row[q].age <= row[p].age
  <2>1. CASE \E r \in Requests : ClaimNew(r)
    BY <1>2, <2>1, EvictionIsNeeded
  <2> QED  BY <1>2, <2>1, OrdinaryStep DEF Ordinary, RetiredByOperator
<1>3. ASSUME IInv, [Next]_vars
      PROVE  [\A p \in Payments :
                /\ Present(p) /\ row'[p].state = "absent" =>
                     \/ row[p].state = "processing" /\ row[p].lease = 0
                     \/ \E r \in Requests : /\ req[r].pc = "assessing"
                                            /\ req[r].payment = p
                                            /\ req[r].token = row[p].owner
                                            /\ req'[r] = Idle
                /\ Cached(p) /\ row'[p].response # row[p].response =>
                     /\ row'[p].reason = "settled_response_retired"
                     /\ \/ runtime = "maintenance" /\ row[p].age = Retention
                        \/ /\ Cardinality(Active) >= MaxEntries
                           /\ \A q \in Payments :
                                Cached(q) /\ Cached(q)' => row[q].age <= row[p].age]_vars
  BY <1>1, <1>2, <1>3 DEF Aborted
<1> QED BY <1>3, InductiveInvariant, PTL DEF Spec, OnlyDeadRowsAreDropped

(* One element more than a set with room below n fits within n. *)
LEMMA RoomForOne ==
  ASSUME NEW n \in Nat, NEW S, IsFiniteSet(S), Cardinality(S) < n,
         NEW x, NEW T \in SUBSET (S \cup {x})
  PROVE  Cardinality(T) <= n
<1>1. /\ IsFiniteSet(S \cup {x}) /\ Cardinality(S) \in Nat
      /\ Cardinality(S \cup {x}) <= Cardinality(S) + 1
  BY FS_AddElement, FS_CardinalityType
<1>2. IsFiniteSet(T) /\ Cardinality(T) <= Cardinality(S \cup {x})
  BY <1>1, FS_Subset
<1>3. Cardinality(T) \in Nat /\ Cardinality(S \cup {x}) \in Nat
  BY <1>1, <1>2, FS_CardinalityType
<1> QED  BY <1>1, <1>2, <1>3

(* Fewer rows fit where more did. *)
LEMMA FewerFit ==
  ASSUME NEW n \in Nat, NEW S \in SUBSET Payments, Cardinality(S) <= n,
         NEW T \in SUBSET S
  PROVE  Cardinality(T) <= n
<1>1. IsFiniteSet(S)
  BY PaymentAssumption, FS_Subset
<1>2. IsFiniteSet(T) /\ Cardinality(T) <= Cardinality(S)
  BY <1>1, FS_Subset
<1>3. Cardinality(T) \in Nat /\ Cardinality(S) \in Nat
  BY <1>1, <1>2, FS_CardinalityType
<1> QED  BY <1>2, <1>3

(* A new claim makes its room first: it counts what the purge leaves, and  *)
(* retires cached responses until one more active row fits.                *)
LEMMA ClaimNewFits ==
  ASSUME IInv, NEW r \in Requests, ClaimNew(r)
  PROVE  JournalIsBounded'
<1> DEFINE p      == req[r].payment
           purged == {q \in Payments : Expired(q)}
           kept   == {q \in Payments \ purged : Present(q)}
           hot    == {q \in Payments \ purged : Hot(q)}
<1>1. Cardinality(kept) < MaxIdentities
  BY DEF ClaimNew, IdentityRoom
<1>2. PICK evicted \in SUBSET {q \in Payments : Cached(q)} :
        /\ Cardinality(hot \ evicted) < MaxEntries
        /\ row' = [q \in Payments |->
                     IF q = p THEN Claimed(req[r].body, FreshToken)
                     ELSE IF q \in purged THEN NoRow
                     ELSE IF q \in evicted
                          THEN Tombstone(row[q], "settled_response_retired")
                     ELSE row[q]]
  BY DEF ClaimNew, OldestCached
<1>3. IsFiniteSet(kept) /\ IsFiniteSet(hot \ evicted)
  BY PaymentAssumption, FS_Subset
<1>4. ASSUME NEW q \in Payments, q # p
      PROVE  /\ Present(q)' => q \in kept
             /\ Hot(q)' => q \in hot \ evicted
  <2>1. CASE q \in purged
    BY <1>2, <1>4, <2>1, NoneAssumption DEF NoRow, Present, Hot, Cached, Reasons
  <2>2. CASE q \notin purged /\ q \in evicted
    BY <1>2, <1>4, <2>2 DEF Tombstone, Present, Hot, Cached
  <2>3. CASE q \notin purged /\ q \notin evicted
    BY <1>2, <1>4, <2>3 DEF Present, Hot, Cached
  <2> QED  BY <2>1, <2>2, <2>3
<1>5. /\ {q \in Payments : Present(q)}' \subseteq kept \cup {p}
      /\ {q \in Payments : Hot(q)}' \subseteq (hot \ evicted) \cup {p}
  BY <1>4
<1> HIDE DEF kept, hot, purged
<1>6. Cardinality({q \in Payments : Present(q)}') <= MaxIdentities
  <2> DEFINE T == {q \in Payments : Present(q)}'
  <2>1. T \in SUBSET (kept \cup {p}) /\ MaxIdentities \in Nat
    BY <1>5, BoundAssumption
  <2> HIDE DEF T
  <2>2. Cardinality(T) <= MaxIdentities
    BY <1>1, <1>3, <2>1, RoomForOne
  <2> QED  BY <2>2 DEF T
<1>7. Cardinality({q \in Payments : Hot(q)}') <= MaxEntries
  <2> DEFINE T == {q \in Payments : Hot(q)}'
             S == hot \ evicted
  <2>1. T \in SUBSET (S \cup {p}) /\ MaxEntries \in Nat
    BY <1>5, BoundAssumption
  <2>3. IsFiniteSet(S) /\ Cardinality(S) < MaxEntries
    BY <1>2, <1>3
  <2> HIDE DEF T, S
  <2>2. Cardinality(T) <= MaxEntries
    BY <2>1, <2>3, RoomForOne
  <2> QED  BY <2>2 DEF T
<1> QED  BY <1>6, <1>7 DEF JournalIsBounded

(* The journal never holds more active rows and cached responses than      *)
(* max_entries, nor more identities than max_terminal_entries: claim, the  *)
(* only writer of new rows, checks both against what it will leave.        *)
THEOREM CapacityIsKept == Spec => []JournalIsBounded
<1>1. Init => JournalIsBounded
  <2> SUFFICES ASSUME Init PROVE JournalIsBounded
    OBVIOUS
  <2>1. \A p \in Payments : ~Present(p) /\ ~Hot(p)
    BY NoneAssumption DEF Init, NoRow, Present, Hot, Cached, Reasons
  <2>2. {p \in Payments : Hot(p)} = {} /\ {p \in Payments : Present(p)} = {}
    BY <2>1
  <2> QED  BY <2>2, FS_EmptySet, BoundAssumption DEF JournalIsBounded
<1>2. IInv /\ JournalIsBounded /\ [Next]_vars => JournalIsBounded'
  <2> SUFFICES ASSUME IInv, JournalIsBounded, [Next]_vars PROVE JournalIsBounded'
    OBVIOUS
  <2>1. CASE \E r \in Requests : ClaimNew(r)
    BY <2>1, ClaimNewFits
  <2>2. CASE \A r \in Requests : ~ClaimNew(r)
    <3>1. ASSUME NEW p \in Payments
          PROVE  (Present(p)' => Present(p)) /\ (Hot(p)' => Hot(p))
      BY <2>2, OrdinaryStep DEF Ordinary, Present
    <3>2. /\ {p \in Payments : Hot(p)}' \subseteq {p \in Payments : Hot(p)}
          /\ {p \in Payments : Present(p)}' \subseteq {p \in Payments : Present(p)}
      BY <3>1
    <3>3. Cardinality({p \in Payments : Hot(p)}') <= MaxEntries
      BY <3>2, FewerFit, BoundAssumption DEF JournalIsBounded
    <3>4. Cardinality({p \in Payments : Present(p)}') <= MaxIdentities
      BY <3>2, FewerFit, BoundAssumption DEF JournalIsBounded
    <3> QED  BY <3>3, <3>4 DEF JournalIsBounded
  <2> QED  BY <2>1, <2>2
<1> QED  BY <1>1, <1>2, InductiveInvariant, PTL DEF Spec
=============================================================================
