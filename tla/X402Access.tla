----------------------------- MODULE X402Access -----------------------------
(***************************************************************************)
(* The paid route of the Trade Safety Gateway: x402 v2 settlement with a   *)
(* durable anti-resettlement journal.                                      *)
(*                                                                         *)
(*   row       SQLiteSettlementJournal, one durable row per payment id     *)
(*   req       the x402_check handlers in flight in the gateway's event    *)
(*             loop; everything in it is lost when the process dies        *)
(*   runtime   who holds the exclusive runtime lock of the journal         *)
(*   chain     where the payment stands outside the gateway                *)
(*   calls     how often facilitator.settle was invoked for a payment      *)
(*   recorded  payments for which a well-formed success was ever journaled *)
(*   delivered the protected bodies handed out for a payment               *)
(*                                                                         *)
(* chain is the world; calls, recorded and delivered are history.  One     *)
(* action is one journal transaction or one wait of the handler: the       *)
(* event loop runs nothing else in between, but the process may die or     *)
(* the request be cancelled at every boundary.                             *)
(*                                                                         *)
(* Wall time is kept relative: a processing row carries the ticks its      *)
(* lease still has, every row the ticks since updated_at, saturating.      *)
(*                                                                         *)
(* A definition named Bug... is the definition after it with one plausible *)
(* mistake put in.  Nothing uses them here: they show that each property   *)
(* can tell the code from a faulty version of it.                          *)
(***************************************************************************)
EXTENDS Naturals, FiniteSets

CONSTANTS Payments,       \* payment ids: SHA-256 of offer and scheme payload
          Requests,       \* concurrent handler slots
          Bodies,         \* request bodies a payment's quote can be bound to
          Responses,      \* exact protected response bytes
          Tokens,         \* owner tokens
          None,           \* SQL NULL
          Lease,          \* processing lease, in ticks
          Retention,      \* older_than of retire-terminal-responses, in ticks
          MaxEntries,     \* max_entries: active rows plus cached responses
          MaxIdentities,  \* max_terminal_entries: rows of any kind
          ClockMayJump    \* whether the wall clock can be set back

ASSUME BoundAssumption ==
  /\ Lease \in Nat \ {0} /\ Retention \in Nat \ {0}
  /\ MaxEntries \in Nat \ {0} /\ MaxIdentities \in Nat \ {0}
  /\ ClockMayJump \in BOOLEAN
ASSUME PaymentAssumption == IsFiniteSet(Payments)

VARIABLES row, req, runtime, chain, calls, recorded, delivered

vars == <<row, req, runtime, chain, calls, recorded, delivered>>

-----------------------------------------------------------------------------
(* The journal's rows. *)

States  == {"absent", "processing", "settling", "settled"}

(* What the facilitator can answer to settle: a success whose terms match  *)
(* the offer, one whose terms do not, a terminal failure, and a failure    *)
(* that is pending or carries a transaction.                               *)
Answers == {"success", "malformed", "failed", "pending"}

Reasons == {"settled", "settled_response_retired",
            "payment_authorization_retired", "payment_settlement_failed"}

ASSUME NoneAssumption ==
  None \notin Bodies \cup Responses \cup Tokens \cup Answers \cup Reasons

NoRow ==
  [state |-> "absent", body |-> None, owner |-> None, lease |-> 0, age |-> 0,
   response |-> None, result |-> None, reason |-> None]

(* A row's columns go with its state: only a claim has a lease, only an    *)
(* open row an owner; a settling row and a replayable one hold a response; *)
(* a tombstone holds none, and no result but the refusal that closed it.   *)
(* A journal that breaks this is one __init__ refuses to open again.       *)
RowsOf(state, owners, leases, responses, results, reasons) ==
  [state : {state}, body : Bodies, owner : owners, lease : leases,
   age : 0..Retention, response : responses, result : results, reason : reasons]

Open == RowsOf("processing", Tokens, 0..Lease, {None}, {None}, {None}) \cup
        RowsOf("settling", Tokens, {0}, Responses, Answers \cup {None}, {None})

Replayable == RowsOf("settled", {None}, {0}, Responses, {"success"}, {"settled"})

Tombstones ==
  RowsOf("settled", {None}, {0}, {None}, {"failed"}, {"payment_settlement_failed"}) \cup
  RowsOf("settled", {None}, {0}, {None}, {None},
         {"settled_response_retired", "payment_authorization_retired"})

Rows == {NoRow} \cup Open \cup Replayable \cup Tombstones

(* A fresh claim: what claim() inserts, and what it leaves of a row it     *)
(* takes over (body and resource are those already bound).                 *)
Claimed(b, t) ==
  [state |-> "processing", body |-> b, owner |-> t, lease |-> Lease, age |-> 0,
   response |-> None, result |-> None, reason |-> None]

(* A row that is sticky: its response is fixed, it has no lease any more.  *)
Sticky(r, resp, answer) ==
  [state |-> "settling", body |-> r.body, owner |-> r.owner, lease |-> 0,
   age |-> 0, response |-> resp, result |-> answer, reason |-> None]

(* A settled row whose response can be replayed. *)
Settled(r) ==
  [state |-> "settled", body |-> r.body, owner |-> None, lease |-> 0, age |-> 0,
   response |-> r.response, result |-> "success", reason |-> "settled"]

(* A tombstone keeps the identity and its binding, and no material but the *)
(* facilitator's own refusal.                                              *)
BugMaterialKept(r, why) ==
  [state |-> "settled", body |-> r.body, owner |-> None, lease |-> 0, age |-> 0,
   response |-> r.response, reason |-> why,
   result |-> IF why = "payment_settlement_failed" THEN "failed" ELSE None]

Tombstone(r, why) ==
  [state |-> "settled", body |-> r.body, owner |-> None, lease |-> 0, age |-> 0,
   response |-> None, reason |-> why,
   result |-> IF why = "payment_settlement_failed" THEN "failed" ELSE None]

Restamped(r, lease, age) ==
  [state |-> r.state, body |-> r.body, owner |-> r.owner, lease |-> lease,
   age |-> age, response |-> r.response, result |-> r.result, reason |-> r.reason]

Present(p) == row[p].state # "absent"
Cached(p)  == row[p].state = "settled" /\ row[p].reason = "settled"

BugSettlingExpires(p) == row[p].state \in {"processing", "settling"} /\ row[p].lease = 0
Expired(p) == row[p].state = "processing" /\ row[p].lease = 0

Hot(p) == row[p].state \in {"processing", "settling"} \/ Cached(p)

Goods == Bodies \X Responses

-----------------------------------------------------------------------------
(* The handlers. *)

Phases == {"idle", "verifying", "assessing", "calling", "awaiting",
           "answered"}

Handler(pc, p, b, t) == [pc |-> pc, payment |-> p, body |-> b, token |-> t]

Idle == Handler("idle", None, None, None)

Handlers ==
  [pc : Phases, payment : Payments \cup {None}, body : Bodies \cup {None},
   token : Tokens \cup {None}]

Settling == {"calling", "awaiting", "answered"}

InUse(t) == \/ \E p \in Payments : row[p].owner = t
            \/ \E r \in Requests : req[r].token = t

(* secrets.token_hex(32): a token nobody holds. *)
FreshToken == CHOOSE t \in Tokens : ~InUse(t)

(* The compare-and-swap on the owner token. *)
HoldsClaim(r) == LET p == req[r].payment
                 IN  row[p].state = "processing" /\ row[p].owner = req[r].token
HoldsSettlement(r) == LET p == req[r].payment
                      IN  row[p].state = "settling" /\ row[p].owner = req[r].token

Goto(r, pc) == req' = [req EXCEPT ![r] = Handler(pc, @.payment, @.body, @.token)]
End(r)      == req' = [req EXCEPT ![r] = Idle]

(* _completed_access_response: the cached or just settled bytes go out ... *)
Deliver(p) ==
  delivered' = [delivered EXCEPT ![p] = @ \cup {<<row[p].body, row[p].response>>}]

(* ... unless the receipt in them has expired or fails its check.          *)
Release(p) == Deliver(p) \/ UNCHANGED delivered

Init ==
  /\ row       = [p \in Payments |-> NoRow]
  /\ req       = [r \in Requests |-> Idle]
  /\ runtime   = "down"
  /\ chain     = [p \in Payments |-> "unseen"]
  /\ calls     = [p \in Payments |-> 0]
  /\ recorded  = [p \in Payments |-> FALSE]
  /\ delivered = [p \in Payments |-> {}]

-----------------------------------------------------------------------------
(* authorize, up to its await: inspect() finds a settled response ... *)
Replay(p, b) ==
  /\ runtime = "serving"
  /\ Cached(p) /\ row[p].body = b
  /\ Deliver(p)
  /\ UNCHANGED <<row, req, runtime, chain, calls, recorded>>

(* ... or nothing that stands in the way of verifying the payment.         *)
BugClaimNeverReopens(r, p, b) ==
  /\ runtime = "serving"
  /\ req[r].pc = "idle" /\ row[p].state = "absent"
  /\ req' = [req EXCEPT ![r] = Handler("verifying", p, b, None)]
  /\ UNCHANGED <<row, runtime, chain, calls, recorded, delivered>>

Authorize(r, p, b) ==
  /\ runtime = "serving"
  /\ req[r].pc = "idle"
  /\ \/ row[p].state = "absent"
     \/ Expired(p) /\ row[p].body = b
  /\ req' = [req EXCEPT ![r] = Handler("verifying", p, b, None)]
  /\ UNCHANGED <<row, runtime, chain, calls, recorded, delivered>>

(* The claim transaction, after facilitator.verify accepted the payment.   *)
(* The journal may have changed during that await.                         *)
ClaimHeld(r) ==
  LET p == req[r].payment
      t == FreshToken
  IN  /\ req[r].pc = "verifying"
      /\ Expired(p) /\ row[p].body = req[r].body
      /\ \E u \in Tokens : ~InUse(u)
      /\ row' = [row EXCEPT ![p] = Claimed(row[p].body, t)]
      /\ req' = [req EXCEPT ![r] = Handler("assessing", p, @.body, t)]
      /\ UNCHANGED <<runtime, chain, calls, recorded, delivered>>

BugNewestCached(n) ==
  LET cached == {p \in Payments : Cached(p)}
  IN  {E \in SUBSET cached :
         /\ Cardinality(E) = IF n < Cardinality(cached)
                             THEN n ELSE Cardinality(cached)
         /\ \A e \in E, c \in cached \ E : row[e].age <= row[c].age}

(* The n cached responses that were updated least recently. *)
OldestCached(n) ==
  LET cached == {p \in Payments : Cached(p)}
  IN  {E \in SUBSET cached :
         /\ Cardinality(E) = IF n < Cardinality(cached)
                             THEN n ELSE Cardinality(cached)
         /\ \A e \in E, c \in cached \ E : row[e].age >= row[c].age}

BugOneTooMany(kept) == Cardinality(kept) <= MaxIdentities
IdentityRoom(kept)  == Cardinality(kept) < MaxIdentities

(* A claim of an unknown identity first deletes every expired claim, and   *)
(* may retire cached responses to stay within max_entries.                 *)
ClaimNew(r) ==
  LET p      == req[r].payment
      t      == FreshToken
      purged == {q \in Payments : Expired(q)}
      hot    == {q \in Payments \ purged : Hot(q)}
      excess == IF Cardinality(hot) >= MaxEntries
                THEN Cardinality(hot) - MaxEntries + 1 ELSE 0
  IN  /\ req[r].pc = "verifying"
      /\ row[p].state = "absent"
      /\ \E u \in Tokens : ~InUse(u)
      /\ IdentityRoom({q \in Payments \ purged : Present(q)})
      /\ \E evicted \in OldestCached(excess) :
           /\ Cardinality(hot \ evicted) < MaxEntries
           /\ row' = [q \in Payments |->
                        IF q = p THEN Claimed(req[r].body, t)
                        ELSE IF q \in purged THEN NoRow
                        ELSE IF q \in evicted
                             THEN Tombstone(row[q], "settled_response_retired")
                        ELSE row[q]]
      /\ req' = [req EXCEPT ![r] = Handler("assessing", p, @.body, t)]
      /\ UNCHANGED <<runtime, chain, calls, recorded, delivered>>

(* The payment was settled for the same body during the await. *)
ClaimSettled(r) ==
  LET p == req[r].payment
  IN  /\ req[r].pc = "verifying"
      /\ Cached(p) /\ row[p].body = req[r].body
      /\ Release(p)
      /\ End(r)
      /\ UNCHANGED <<row, runtime, chain, calls, recorded>>

(* verify rejected the payment or failed, claim() refused it, or the       *)
(* request's deadline cancelled the handler.                               *)
BugOnlyRefusalOfNew(r) ==
  /\ req[r].pc = "verifying" /\ row[req[r].payment].state = "absent"
  /\ End(r)
  /\ UNCHANGED <<row, runtime, chain, calls, recorded, delivered>>

AuthorizeFails(r) ==
  /\ req[r].pc = "verifying"
  /\ End(r)
  /\ UNCHANGED <<row, runtime, chain, calls, recorded, delivered>>

(* The assessment failed or exceeded its byte budget, or the deadline      *)
(* cancelled it: abort() deletes the claim, if it is still this handler's. *)
Abort(r) ==
  /\ req[r].pc = "assessing"
  /\ row' = IF HoldsClaim(r) THEN [row EXCEPT ![req[r].payment] = NoRow] ELSE row
  /\ End(r)
  /\ UNCHANGED <<runtime, chain, calls, recorded, delivered>>

-----------------------------------------------------------------------------
(* settle *)

(* begin_settlement: the response bytes become durable in the transaction  *)
(* that makes the row sticky.  An expired lease is no obstacle here.       *)
BeginSettlement(r, resp) ==
  LET p == req[r].payment
  IN  /\ req[r].pc = "assessing"
      /\ HoldsClaim(r) /\ row[p].body = req[r].body
      /\ row' = [row EXCEPT ![p] = Sticky(@, resp, None)]
      /\ Goto(r, "calling")
      /\ UNCHANGED <<runtime, chain, calls, recorded, delivered>>

(* Another handler settled the payment for the same body meanwhile. *)
BeginSettled(r) ==
  LET p == req[r].payment
  IN  /\ req[r].pc = "assessing"
      /\ Cached(p) /\ row[p].body = req[r].body
      /\ Release(p)
      /\ End(r)
      /\ UNCHANGED <<row, runtime, chain, calls, recorded>>

(* The claim is gone, bound to another body, settling, closed, or owned by *)
(* another handler, or the journal is unavailable: settle() raises, and    *)
(* nothing is aborted.                                                     *)
BeginRefused(r) ==
  /\ req[r].pc = "assessing"
  /\ End(r)
  /\ UNCHANGED <<row, runtime, chain, calls, recorded, delivered>>

(* The settle request leaves the gateway. *)
CallSettle(r) ==
  LET p == req[r].payment
  IN  /\ req[r].pc = "calling"
      /\ calls' = [calls EXCEPT ![p] = @ + 1]
      /\ chain' = [chain EXCEPT ![p] = IF @ = "unseen" THEN "submitted" ELSE @]
      /\ Goto(r, "awaiting")
      /\ UNCHANGED <<row, runtime, recorded, delivered>>

(* Time-out, transport failure, unreadable answer or cancellation, before  *)
(* or after the request left: SettlementUncertain, the row stays settling. *)
BugClaimReleasedOnError(r) ==
  /\ req[r].pc \in {"calling", "awaiting"}
  /\ row' = [row EXCEPT ![req[r].payment] = NoRow]
  /\ End(r)
  /\ UNCHANGED <<runtime, chain, calls, recorded, delivered>>

SettleLost(r) ==
  /\ req[r].pc \in {"calling", "awaiting"}
  /\ End(r)
  /\ UNCHANGED <<row, runtime, chain, calls, recorded, delivered>>

(* An answer the world can give.  The facilitator is trusted to report a   *)
(* success only of a payment that settled, a terminal failure only of one  *)
(* that cannot settle any more.                                            *)
Answerable(p, a) ==
  /\ a = "success" => chain[p] = "paid"
  /\ a = "failed"  => chain[p] = "void"

(* record_settlement_result: the answer is journaled before it is read. *)
RecordSettlementResult(r, a) ==
  LET p == req[r].payment
  IN  /\ req[r].pc = "awaiting"
      /\ Answerable(p, a)
      /\ IF HoldsSettlement(r)
         THEN /\ row' = [row EXCEPT ![p] = Sticky(@, @.response, a)]
              /\ recorded' = [recorded EXCEPT ![p] = @ \/ a = "success"]
              /\ Goto(r, "answered")
         ELSE End(r) /\ UNCHANGED <<row, recorded>>
      /\ UNCHANGED <<runtime, chain, calls, delivered>>

(* complete: only the owner, only against the journaled success. *)
BugAnyAnswerCompletes(r) == row[req[r].payment].result # "failed"
Succeeded(r) == row[req[r].payment].result = "success"

Complete(r) ==
  LET p == req[r].payment
  IN  /\ req[r].pc = "answered"
      /\ HoldsSettlement(r) /\ Succeeded(r)
      /\ row' = [row EXCEPT ![p] = Settled(@)]
      /\ Release(p)
      /\ End(r)
      /\ UNCHANGED <<runtime, chain, calls, recorded>>

(* complete_failed_settlement: a terminal failure closes the payment. *)
CompleteFailedSettlement(r) ==
  LET p == req[r].payment
  IN  /\ req[r].pc = "answered"
      /\ HoldsSettlement(r) /\ row[p].result = "failed"
      /\ row' = [row EXCEPT ![p] = Tombstone(@, "payment_settlement_failed")]
      /\ End(r)
      /\ UNCHANGED <<runtime, chain, calls, recorded, delivered>>

(* Any other answer, a PAYMENT-RESPONSE over the header budget or a journal *)
(* error leaves the row settling, with the answer in it.                   *)
SettleUncertain(r) ==
  /\ req[r].pc = "answered"
  /\ End(r)
  /\ UNCHANGED <<row, runtime, chain, calls, recorded, delivered>>

-----------------------------------------------------------------------------
(* The world outside: a submitted payment settles or becomes void, in its  *)
(* own time and whether or not anyone is waiting for the answer.           *)
ChainDecides(p) ==
  /\ chain[p] = "submitted"
  /\ \E outcome \in {"paid", "void"} : chain' = [chain EXCEPT ![p] = outcome]
  /\ UNCHANGED <<row, req, runtime, calls, recorded, delivered>>

-----------------------------------------------------------------------------
(* The runtime lock: a gateway or the maintenance CLI, never both.  Rows   *)
(* survive a stop of either; handlers and their tokens do not.             *)
Start(role) ==
  /\ runtime = "down"
  /\ runtime' = role
  /\ UNCHANGED <<row, req, chain, calls, recorded, delivered>>

Stop ==
  /\ runtime # "down"
  /\ runtime' = "down"
  /\ req' = [r \in Requests |-> Idle]
  /\ UNCHANGED <<row, chain, calls, recorded, delivered>>

-----------------------------------------------------------------------------
(* The operator's CLI (x402_reconcile), under maintenance only. *)

(* reconcile-settled: from the journaled success, or from an answer the    *)
(* operator obtained elsewhere, which then replaces the journaled one.     *)
ReconcileSettled(p) ==
  /\ runtime = "maintenance"
  /\ row[p].state = "settling"
  /\ row[p].result = "success" \/ Answerable(p, "success")
  /\ row' = [row EXCEPT ![p] = Settled(@)]
  /\ recorded' = [recorded EXCEPT ![p] = TRUE]
  /\ UNCHANGED <<req, runtime, chain, calls, delivered>>

(* retire-unsettled: the operator's word that the payment did not settle,  *)
(* refused when the journal itself holds a claim of success.               *)
BugOperatorBelieved(p) ==
  /\ runtime = "maintenance" /\ row[p].state = "settling"
  /\ row' = [row EXCEPT ![p] = Tombstone(@, "payment_authorization_retired")]
  /\ UNCHANGED <<req, runtime, chain, calls, recorded, delivered>>
BugRetireWhileServing(p) ==
  /\ runtime # "down" /\ row[p].state = "settling"
  /\ row[p].result \notin {"success", "malformed"}
  /\ row' = [row EXCEPT ![p] = Tombstone(@, "payment_authorization_retired")]
  /\ UNCHANGED <<req, runtime, chain, calls, recorded, delivered>>

RetireUnsettled(p) ==
  /\ runtime = "maintenance"
  /\ row[p].state = "settling"
  /\ row[p].result \notin {"success", "malformed"}
  /\ row' = [row EXCEPT ![p] = Tombstone(@, "payment_authorization_retired")]
  /\ UNCHANGED <<req, runtime, chain, calls, recorded, delivered>>

(* retire-terminal-responses: the oldest aged rows that still hold         *)
(* material, up to the limit, become tombstones.                           *)
BugAnyTerminal == {p \in Payments : row[p].state = "settled" /\ row[p].age = Retention}
Aged == {p \in Payments :
           /\ row[p].state = "settled"
           /\ row[p].reason \in {"settled", "payment_settlement_failed"}
           /\ row[p].age = Retention}

RetireTerminalResponses ==
  /\ runtime = "maintenance"
  /\ \E S \in SUBSET Aged \ {{}} :
       row' = [p \in Payments |->
                 IF p \notin S THEN row[p]
                 ELSE IF row[p].reason = "payment_settlement_failed"
                      THEN Tombstone(row[p], "payment_authorization_retired")
                      ELSE Tombstone(row[p], "settled_response_retired")]
  /\ UNCHANGED <<req, runtime, chain, calls, recorded, delivered>>

-----------------------------------------------------------------------------
(* The wall clock. *)
Sooner(lease) == IF lease > 0 THEN lease - 1 ELSE 0
Older(age)    == IF age < Retention THEN age + 1 ELSE age

Tick ==
  /\ row' = [p \in Payments |->
               IF Present(p)
               THEN Restamped(row[p], Sooner(row[p].lease), Older(row[p].age))
               ELSE row[p]]
  /\ UNCHANGED <<req, runtime, chain, calls, recorded, delivered>>

(* Set back, it gives an expired claim its lease again. *)
ClockJumpsBack ==
  /\ ClockMayJump
  /\ row' = [p \in Payments |->
               Restamped(row[p], IF row[p].state = "processing" THEN Lease ELSE 0, 0)]
  /\ UNCHANGED <<req, runtime, chain, calls, recorded, delivered>>

-----------------------------------------------------------------------------
Handle(r) ==
  \/ ClaimHeld(r)
  \/ ClaimNew(r)
  \/ ClaimSettled(r)
  \/ AuthorizeFails(r)
  \/ Abort(r)
  \/ \E resp \in Responses : BeginSettlement(r, resp)
  \/ BeginSettled(r)
  \/ BeginRefused(r)
  \/ CallSettle(r)
  \/ SettleLost(r)
  \/ \E a \in Answers : RecordSettlementResult(r, a)
  \/ Complete(r)
  \/ CompleteFailedSettlement(r)
  \/ SettleUncertain(r)

Serve ==
  \/ \E p \in Payments, b \in Bodies : Replay(p, b)
  \/ \E r \in Requests, p \in Payments, b \in Bodies : Authorize(r, p, b)
  \/ \E r \in Requests : Handle(r)

Operate ==
  \/ \E p \in Payments : ReconcileSettled(p) \/ RetireUnsettled(p)
  \/ RetireTerminalResponses

World ==
  \/ \E p \in Payments : ChainDecides(p)
  \/ \E role \in {"serving", "maintenance"} : Start(role)
  \/ Stop
  \/ Tick
  \/ ClockJumpsBack

Next == Serve \/ Operate \/ World

Spec == Init /\ [][Next]_vars

(***************************************************************************)
(* Every handler ends: the middleware cancels it at its deadline.  The     *)
(* clock advances, the CLI exits after its command, the service manager    *)
(* restarts the gateway; a client keeps presenting its payment and, now    *)
(* and then, the facilitator's verify answers it in time.                  *)
(***************************************************************************)
Fairness ==
  /\ \A r \in Requests : WF_vars(Handle(r))
  /\ WF_vars(Tick)
  /\ WF_vars(runtime = "maintenance" /\ Stop)
  /\ SF_vars(Start("serving"))
  /\ \A p \in Payments, b \in Bodies :
       SF_vars(\E r \in Requests : Authorize(r, p, b))
  /\ \A r \in Requests : SF_vars(ClaimHeld(r))

FairSpec == Spec /\ Fairness

-----------------------------------------------------------------------------
TypeOK ==
  /\ row \in [Payments -> Rows]
  /\ req \in [Requests -> Handlers]
  /\ runtime \in {"down", "serving", "maintenance"}
  /\ chain \in [Payments -> {"unseen", "submitted", "paid", "void"}]
  /\ calls \in [Payments -> Nat]
  /\ recorded \in [Payments -> BOOLEAN]
  /\ delivered \in [Payments -> SUBSET Goods]

(* However claims expire, are purged, taken over, aborted, cancelled or    *)
(* orphaned by a crash, and wherever the clock is set, the gateway asks    *)
(* the facilitator to settle one payment at most once (the never           *)
(* auto-retried state of begin_settlement, the owner token of claim).      *)
AtMostOneSettleCall == \A p \in Payments : calls[p] <= 1

(* A payment that was ever sent out for settlement stays in the journal,   *)
(* past the reach of claim's purge and of abort, so its identity cannot be *)
(* claimed and charged again.                                              *)
ChargedIdentityIsKept ==
  \A p \in Payments : calls[p] > 0 => row[p].state \in {"settling", "settled"}

(* All that is ever handed out for a payment, by the settling handler, by  *)
(* handlers that lost a race to it and by replays after a restart or a     *)
(* reconciliation, is one response to one body, and the payment is paid.   *)
OnlyPaidGoodsDelivered ==
  \A p \in Payments :
    /\ delivered[p] # {} => chain[p] = "paid" /\ row[p].state = "settled"
    /\ \A g, h \in delivered[p] : g = h

(* Once a success is in the journal, no path (a failed completion, an      *)
(* operator's mistaken retire-unsettled, retention) turns the payment into *)
(* one that is closed as unpaid.                                           *)
RecordedSuccessIsNeverUnpaid ==
  \A p \in Payments :
    recorded[p] => row[p].reason \notin {"payment_authorization_retired",
                                         "payment_settlement_failed"}

(* claim keeps active rows and cached responses within max_entries, and    *)
(* identities of any kind within max_terminal_entries.                     *)
JournalIsBounded ==
  /\ Cardinality({p \in Payments : Hot(p)}) <= MaxEntries
  /\ Cardinality({p \in Payments : Present(p)}) <= MaxIdentities

(* What claim counts against max_entries: its purge comes first. *)
Active == {p \in Payments : Hot(p) /\ ~Expired(p)}

(* No room is ever made by discarding a claim whose lease still runs, an   *)
(* unresolved settlement, or an identity that was charged: a row leaves    *)
(* the journal only as an expired claim or by its own handler's abort.  A  *)
(* cached response goes only by retirement: an operator's, once it is old  *)
(* enough, or claim's, when max_entries is reached and no response that is *)
(* kept is older (retire_terminal_responses, _retire_cached_rows).         *)
OnlyDeadRowsAreDropped ==
  [][\A p \in Payments :
       /\ Present(p) /\ row'[p].state = "absent" =>
            \/ row[p].state = "processing" /\ row[p].lease = 0
            \/ \E r \in Requests : /\ req[r].pc = "assessing"
                                   /\ req[r].payment = p
                                   /\ req[r].token = row[p].owner
                                   /\ req'[r] = Idle
       /\ Cached(p) /\ row'[p].response # row[p].response =>
            /\ row'[p].reason = "settled_response_retired"
            /\ \/ runtime = "maintenance" /\ row[p].age = Retention
               \/ /\ Cardinality(Active) >= MaxEntries
                  /\ \A q \in Payments :
                       Cached(q) /\ Cached(q)' => row[q].age <= row[p].age]_vars

(* Between begin_settlement and the end of the payment's settlement only   *)
(* the handler that began it, or an operator while no gateway serves, may  *)
(* resolve the row.                                                        *)
OnlySettlerOrOperatorResolves ==
  [][\A p \in Payments :
       row[p].state = "settling" /\ row'[p].state # "settling" =>
         \/ runtime = "maintenance" /\ \A r \in Requests : req[r] = Idle
         \/ \E r \in Requests : /\ req[r].pc = "answered"
                                /\ req[r].payment = p
                                /\ req[r].token = row[p].owner]_vars

(* The paid route is an implementation of single-charge entitlements. *)
Entitled(r) ==
  CASE r.state \in {"absent", "processing"} -> "open"
    [] r.state = "settling" -> "charging"
    [] r.state = "settled" /\ r.reason = "settled" -> "entitled"
    [] r.state = "settled" /\ r.reason = "settled_response_retired" -> "retired"
    [] OTHER -> "closed"

Entitlement == INSTANCE X402Entitlement WITH
  Goods  <- Goods,
  status <- [p \in Payments |-> Entitled(row[p])],
  bound  <- [p \in Payments |-> IF row[p].state = "settling" \/ Cached(p)
                                THEN <<row[p].body, row[p].response>>
                                ELSE None],
  handed <- delivered

ImplementsEntitlement == Entitlement!Spec

(* A handler never outlives its deadline: every request slot is free again.*)
EveryRequestEnds ==
  \A r \in Requests : req[r].pc # "idle" ~> req[r].pc = "idle"

(* A claim whose handler is gone (crash, restart) cannot lock the payment: *)
(* a client that keeps presenting it is let through again.                 *)
Stranded(p) ==
  /\ row[p].state = "processing"
  /\ \A r \in Requests : req[r].token # row[p].owner

StrandedClaimIsRecovered ==
  \A p \in Payments : Stranded(p) ~> ~Stranded(p)
=============================================================================
