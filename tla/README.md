# A TLA+ development of the LiquiLens evidence carrier

The repository turns market evidence into *receipts*, sells those receipts over
an HTTP gateway paid per call (x402), and uses them to guard orders that a
trading agent sends to a broker. What is hard in it is not the evidence but the
money: a payment must not be charged twice, an order must not be sent twice,
and neither may be forgotten, while processes crash, answers get lost, clocks
are set back and operators intervene. This directory models those parts in
TLA+, checks them with TLC, and proves the results that matter with TLAPS.

## Inventory

| Component | State it keeps | Operations | Hard behaviour |
|---|---|---|---|
| x402 settlement journal (`x402_access.py`) | SQLite row per payment id | inspect, claim, begin, record, complete, abort, retire | expiry and takeover of claims, two capacity limits, sticky uncertainty |
| x402 gate and paid route (`x402_access.py`, `app.py`) | the handlers in flight | authorize, settle, replay | awaits between journal transactions, cancellation at the deadline, lost answers |
| x402 runtime lock and reconcile CLI | an exclusive file lock | serve, reconcile-settled, retire-unsettled, retire-terminal-responses | operator decisions racing settlements |
| request admission (`admission.py`) | token bucket, in-flight count | acquire, release | cancellation between them |
| paper submission journal (`alpaca-paper/journal.py`) | SQLite row per request hash, owned claims in memory | consume, begin, mark, reconcile | crash between claim, attempt and answer; clock rollback |
| paper adapter and agent tools | one call in flight | submit, status, reconcile | STOP raised during a call, broker answers lost |
| order guard (`order_guard.py`) | receipts already consumed | before_order | clock read before the lock |
| copilot store and runner (`state.py`, `runner.py`) | intents, daily budget, order observations | cycle, reserve, observe | crash between reserve and submit, stale portfolio |
| paper agent service and host | the serialized lane, assessments | assess, submit, status, reconcile, close | an HTTP waiter is cancelled while the worker still submits |
| live account connector | SQLite row per live order | preview, submit, inspect, cancel | unknown outcomes, STOP, daily limit |
| outcome export | append-only snapshots | capture, export pages | paging while snapshots are added, revoked consent |
| host backup, attachment, rollout | files, unit states, a resume intent | backup, recover, apply, switch | crash while the host is stopped |
| trade safety decision, carrier, fleet brief, contracts | none | pure functions | precedence and merge rules |
| telemetry, observatory, clients, scripts | none that matters to the above | | not modelled |

The components interact through journals and receipts. The gateway issues a
receipt for a request, for free or for an x402 payment. An agent's lane presents
request and receipt to the order guard, which consumes the receipt in the
submission journal, and the adapter sends the order. The copilot runner and the
agent service wrap that lane with a daily budget of intents and with
observations of the orders at the broker.

## The paid route

`X402Access` models `SQLiteSettlementJournal`, `X402AccessGate`, the handler
`x402_check`, the runtime lock and the reconcile CLI, over an outside world of
facilitator and settlement network.

| Variable | In the code |
|---|---|
| `row` | the journal table: state, body binding, owner token, lease, age, response bytes, facilitator answer, terminal reason |
| `req` | the handlers in flight; lost when the process stops |
| `runtime` | the holder of `_ExclusiveRuntimeLock`: nobody, the gateway or the CLI |
| `chain` | where the payment stands outside |
| `calls`, `recorded`, `delivered` | history: settle requests sent, successes journaled, bodies handed out |

One action is one journal transaction (`BEGIN IMMEDIATE` to commit) or one await
of the handler. `Authorize` is `authorize` up to its await of the facilitator's
verify; `ClaimHeld`, `ClaimNew` and `ClaimSettled` are the three outcomes of
`claim`; `Abort` is every path of the handler that ends before `settle`;
`BeginSettlement`, `CallSettle`, `RecordSettlementResult`, `Complete` and
`CompleteFailedSettlement` are the steps of `settle`, with `BeginRefused`,
`SettleLost` and `SettleUncertain` for the errors and the cancellation at each of
them. `Stop` loses every handler and nothing else. `Tick` and `ClockJumpsBack`
move the wall clock. Time is relative: a row carries the ticks its lease still
has and, saturating at the retention age, the ticks since its last update.

The payment and response *contents* are abstracted: a payment id stands for one
offer with one scheme payload, a body and a response are opaque, an answer of
the facilitator is one of the four cases the code tells apart. The facilitator
is trusted in two things only, stated in `Answerable`: it reports a success only
of a payment that settled and a terminal failure only of one that cannot settle
any more. Everything else (whether and when it answers, and that a payment may
settle with nobody listening) is left open.

`X402Entitlement` is the abstract promise: a payment is charged at most once,
for goods fixed before the charge, and hands out these goods only. `X402Access`
implements it under the mapping `Entitlement`.

| Run | What it asks | Bounds |
|---|---|---|
| `x402_safety` | safety, who may resolve a settlement, and the refinement | 2 payments, 2 handlers, 2 bodies, 2 responses, lease and retention of one tick, a clock that may be set back, both limits 2 |
| `x402_capacity` | both limits of `claim`, and what may be given up to keep them | 4 payments, 1 handler, 2 active rows and 3 identities, so that purge, eviction and refusal all happen; retention of two ticks so that eviction has an order |
| `x402_liveness` | handlers end, stranded claims reopen | 1 payment, 2 handlers, no symmetry |

Two payments and two handlers are enough for every race of the code: a row is
only ever shared by an old and a new owner, and a claim touches the rows of
others only by purge and eviction, for which the second payment stands. There
are two bodies and two responses so that a mix-up would show. Four or five
tokens are one more than can be held at once, which is what a fresh 256-bit
token amounts to. The type of a row (`Rows`) says which columns go with which
state and terminal reason, the relation `__init__` demands of a journal before it
opens it again. Symmetry is used in the safety runs only.

*Fairness.* The middleware cancels a handler at its deadline, so a handler's
steps are weakly fair. The clock advances. The CLI exits after its command and
the service manager starts the gateway again (strongly fair, since the CLI may
take the lock in between). `StrandedClaimIsRecovered` also needs a client that
keeps presenting the payment and a facilitator that now and then verifies in
time; both are assumptions about the world, and without them there is nothing
to recover.

### What is proved

`X402AccessProofs` proves, for all values of the constants, type correctness and
the safety invariants of the run, from one inductive invariant:

- `HandlerInv`: what a handler knows in each phase. From `begin_settlement` on it
  owns the settling row of its payment, whose settle request has not been sent
  before; without this, "at most one call" is not inductive.
- `TokenInv`: an owner token is held by at most one row and one handler.
- `RowInv`, `PaidInv`: how state, reason, answer and history of a row hang
  together. A row still open was never sent out; a success in a row is one on
  the chain; a recorded success can only become a settled row.
- `DeliveredInv`: what was delivered is what the row still holds.

`OnlyOwnerResolves` is an action property from the same invariant.
`X402RefinementProofs` proves that every step is a step of `X402Entitlement` or
a stutter.

Two theorems are about room in the journal. `OnlyTheDeadAreDropped` goes through
the writers: `Ordinary` is what a row can become under any step but an insert; it
deletes nothing that its own handler does not abort, and it retires a cached
response by the operator's hand only, at the retention age. An insert purges
expired claims, and `EvictionIsNeeded` shows that a response it retires is the
oldest one cached and that the limit was reached: with room left it evicts the
empty set. `CapacityIsKept`
rests on the same fact read the other way: no ordinary step makes a row, or makes
a row active or cached that was neither, so that both counts can grow in `ClaimNew`
only, which counts what it is going to leave (`RoomForOne`: one more, when the
limit is not reached). The counts are cardinalities of any finite set of payments.
The two liveness properties are model-checked only.

## The paper lane

`PaperSubmission` models `SQLiteAlpacaPaperSubmissionJournal`, the adapter
`AlpacaPaperTradeSafetyGateway` and the tools `AlpacaPaperAgentTools` of several
host processes on one journal file, with the broker, STOP and the wall clock
around them.

| Variable | In the code |
|---|---|
| `row` | the journal table: state with its resolution, receipt, and the claimant, who holds the owner token of the row |
| `last` | `last_clock` of the journal, the latest reading a write was made on |
| `lane` | the call a host is executing under its tools lock, and how far it is |
| `owned` | `_owned_claims` of the host, gone when the process dies |
| `stop`, `now` | the operator's STOP as `execution_enabled` reads it; the wall clock |
| `order` | what the broker made of the request: nothing yet, in flight, booked, lost |
| `calls`, `overtaken`, `expired`, `crashes` | history |

One action is one journal transaction, one broker call or one read. `Submit` and
`Screen` are the reads of `_dispatch`; `Consume` and `ConsumeExpired` are
`consume`, claiming or refusing; `Clear` and `Stopped` are the second reading of
STOP; `BeginSubmission`, `CallBroker`, `Answered`, `CallRaises`,
`MarkSubmitted` and `MarkUncertain` follow `_submit_authorized`. `Reconcile`
reads the row and `CloseClaim` or `LookUp` and `MarkFound` act on it in a later
transaction, so the row may have changed: that race is what the module is for.
Every write may fail before its commit (`BeginFails`, `MarkSubmittedFails`,
`GiveUp`, `ReconcileFails`, `SubmitRefused`) or report an error after it, because
`_commit` resets file permissions when the transaction is already durable: the
second disjunct of the write actions. The receipt check of the order guard is
abstracted to refusing or not; that a receipt fits one request only is the
constant `RequestOf`, since the guard compares the request hashes. The broker
books an order or never does, at its leisure, and shows it to a lookup only once
it is booked.

`PaperOrder` is the promise about one identity: attempted at most once, void
only when never attempted, known only when it exists, nothing ever taken back.

| Run | What it asks | Bounds |
|---|---|---|
| `paper_safety` | safety and the refinement | 2 hosts, 2 requests, 3 receipts of which two for one request, one crash, STOP at will, a clock standing still |
| `paper_liveness` | only the broker can keep the tools lock; receipts refused as expired stay refused; stranded claims and accepted orders are resolved | 2 hosts, 1 request with 2 receipts, one crash, STOP at will, a clock that jumps both ways over the expiry of one receipt |

Two hosts make every race between the claimant and a reconciler; two requests let
a host be tempted to claim a second identity; the second receipt for a request
is what replay would need. The clock is fixed in the safety run since it only
refuses writes, and every write there may fail anyway; in the other run it
crosses one expiry, both ways, while the other receipt stays good.

*Fairness* comes in three parts, by who provides it. `CallsGoOn` is the code's: a
step that is not a broker call returns or raises, so it is weakly fair. It is all
that `Spec` states and that `OnlyTheBrokerKeepsALane` rests on. The steps of a
broker call are not in it: `AlpacaPaperTradeSafetyGateway` builds its
`TradingClient` without a timeout and `AGENT-TOOLS.md` leaves deadlines to the
host, so a call that hangs keeps the tools lock for as long as it does. The other
two parts are assumptions about the world, and `StrandedClaimIsResolved` and
`AcceptedOrderBecomesKnown` name them as their premise `Cared`; without them
nothing could be promised. `BrokerAnswers`: broker calls end, a lookup finds an
order the broker keeps showing, and the broker decides on what it received.
`SomebodyReconciles`: the operator's part, asked for by the adapter's README and
done by the copilot at the head of each cycle: each unresolved identity is
reconciled again and again, the journal's writes there (`CloseClaim`,
`MarkFound`) do not fail for ever, and the wall clock does not stay behind the
last reading the journal recorded, since the journal refuses every write as long
as it does. No fairness is asked of the journal writes of a submission.

### What is proved

`PaperSubmissionProofs` proves, for any number of hosts, requests and receipts,
any clock and any number of crashes, all five invariants of `paper_safety` and
the action property of `paper_liveness`. None of the five but the type invariant is
inductive. The strengthening says who may be where:

- `ClaimantKnown`: a lane beyond `consume` is the claimant's own, so no two
  lanes are on their way to the broker with one request. The journal is never
  asked this: it follows from the one insert and from `_owned_claims`.
- `SentOnce`: what has not begun was not sent, and a lane about to call the
  broker has a row in `submitting` that was not called for yet. No host other
  than the claimant can move such a row: a reconciler may mark it found only
  when it has seen the order.
- `KnownIsAccepted`: rows and lanes that take an order for existing are right.
- `CleanBeforeClaim`: a host past the candidates check has nothing unresolved.
- `RefusalIsRecorded`: `last` has passed the expiry of every refused receipt.

The journal writes are first restated as effects (`Writes`, `Claims`), then one
lemma per conjunct shows what any such write preserves, and the step lemmas
apply it action by action. `PaperRefinementProofs` proves that each step is a
step of `PaperOrder` or a stutter. The three liveness properties are
model-checked only.

## The live connector

`LiveConnector` models `LiveAccountConnector` as several `liquilens-live`
processes run it on one state directory, under the lock of `state.py`, with the
order journal, the broker, STOP or the activation, and the wall clock.

| Variable | In the code |
|---|---|
| `row` | the table `orders` of `live-orders.sqlite3`: state, `attempted_at`, observation, `cancel_requested` |
| `lock` | the exclusive, non-blocking flock on `operator.lock`, gone with its process |
| `work` | the call a process is executing: how far, on which request and receipt, the first reading of the clock, the broker's last answer |
| `stop`, `now` | STOP present or activation withdrawn, as `_enabled` asks; the wall clock |
| `order`, `position` | the broker's order for each request, perhaps still on its way, and the units it holds |
| `posts`, `faults` | history: the POSTs sent and when; how many calls a fault cut short |

`submit` is the chain `Submit`, `Validate`, `Date`, `NoOpenOrders`, `Fund`,
`Validate`, `Enable`, `Reserve`, `Enable`, `Validate`, `Post`, `Answer`, `Update`:
each reading of the clock, of STOP and of the account is a step, since they can
change in between; the journal cannot, under the lock. `inspect` is `Inspect`,
`Answer`, `Update` and, for a cancellation, `Flag` and `Delete`. `Refuse` is any
check that fails, raised before the INSERT and swallowed after it; `Fault` is a
lost answer, a failed transaction or the end of the process, which look alike to
the journal. The broker books a posted order, turns it down or never sees it; it
may answer with an earlier state of an order. The DELETE changes nothing by
itself, as the broker may close an open order at any time.

Of an answer the connector keeps the status, what is filled and the average
price: absent, positive, at or below zero, or with a figure of more than 64
characters (`Figures` is what the broker may state; `live_safety` leaves out the
two that only the reader minds). Amounts are units of one symbol at a price of one, so the exposure limit bounds
what is bought and the short-sale rule what is sold. Other account controls
(status, cash, daily loss) refuse and do nothing else; a fault stands for them.
`Requests` holds requests that pass the static order rules. A receipt is bound to
one request, so the uniqueness of `receipt_id` in the journal follows from that
of the request. It is assumed, as the connector's document asks, that nobody else
trades on the account, and that the list of positions is no older than an order
the broker reported as final.

`LiveAccount` is the promise about the account: a request is sent once, never
beside another live one, and only when the account can bear it filled.

| Run | What it asks | Bounds |
|---|---|---|
| `live_safety` | safety and the refinement | 2 processes, 2 buys and a sell, two of the three one business intent, a clock of two days that jumps both ways, one fault, STOP at will |
| `live_clock` | POSTs of a day | 2 processes, 3 requests, one attempt a day, midnight at any step, the clock not set back |
| `live_liveness` | booked orders settle | 2 processes, 2 requests, one fault, STOP at will |
| `live_reader` | whether the offline reader takes every row: it does not | 2 processes, 2 requests, one fault, any average price |

Two buys that fit one by one and not together are what the exposure limit can be
broken with, and the sell of the one unit held is what a short position takes. One fault
loses the answer to one POST; more faults would end other calls in the same way.
`DailyPostsBounded` allows one POST more than `max_daily_attempts`, and the run
needs it: an attempt dated before midnight may be posted after it, and the limit
counts by the first date. With the clock set back the bound does not hold; the
attempts by date recorded in the journal stay within the limit even so.

*Fairness.* A call goes on until it ends: the HTTP client has a timeout. The
broker decides on what it received and ends every open order: they are DAY and
IOC. Every recorded order is reconciled again and again, which is what the
document tells the operator to do with an unresolved row, and the lookup does not
for ever show an earlier state, or leave out the price of what was filled.
Nothing is promised of an intent that was
reserved and never posted, because STOP came or the receipt expired between the
INSERT and the POST: its row stays uncertain and holds up the lane, as the
comment in `submit` says it shall.

### What is proved

`LiveConnectorProofs` proves, for every value of the constants, the type
invariant, the two other invariants and the action property of `live_safety`,
and that `LiveConnector` implements `LiveAccount`. `AccountWithinLimits` is not
inductive: filling an order is safe because the account could bear it when it was
read and nothing has moved since. The invariant `IInv` says why:

- `WorkOK`: a call has the lock exactly while it lasts, so one call at most is
  between the reading of the journal and its end.
- `RowOK`: a live order has an unresolved row, and a terminal row is the final
  state of its order. A lookup that finds nothing changes no row, which is what
  makes this true of an order still on its way.
- `OneUnresolved`: one row at most is unresolved. A terminal row accepts no
  answer but the one it has, so it never becomes unresolved again.
- `JobOK`: from `Date` to `Post` nothing else is unresolved, so nothing else can
  fill; from `Fund` on the order still fits.

Each action has its lemma; those that only move a call on share `StateKept`,
`Moves` and `WorkerGoesOn`.

`ReaderRefusesFiguresOnly` compares what the connector records with what the
offline reader accepts (`Readable`): wherever a call was cut off, a row is refused
for the broker's figures and for nothing else. `live_reader` shows that such a
row can be recorded, which is the finding of this part: `_observation` asks for a
positive price only when something is filled and bounds no length, while the
reader refuses a price at or below zero, and figures of more than 64 characters,
on any row. One such row takes the page of saved hashes with it. The rollback
journal that a crash may leave beside the database is refused by design
(`LIVE-CONNECTOR.md` asks for a reviewed recovery) and is not modelled.

The daily limit is two theorems. `DailyAttempts` says that no date has more than
`max_daily_attempts` rows in the journal, with the clock set wherever one likes
(`CountOK`): the count and the INSERT are made under one lock. A POST, however,
carries the date of its attempt and not its own. `DailyPosts` compares the two on
a clock that is not set back: no attempt is dated after the present (`DatesOK`),
and the POSTs of a day are one more at most than the attempts sent of that date
(`PostsOK`): the lock leaves one call at a time between its date and its POST, so
one at most is carried over midnight. `OrderSettles` is model-checked only.

## The paper copilot

`PaperCopilot` models the two programs that may own a paper account in turn, the
one-shot runner (`liquilens-paper once` and `reconcile`) and the agent host that
takes proposals over HTTP, on one state directory.

| Variable | In the code |
|---|---|
| `owner` | who has the flock on `operator.lock` (`operator_lock`) |
| `busy`, `closing` | the agent service's lane, one call at a time, and its shutdown |
| `preflight` | the service's last account check: none, at most ten seconds old, or older |
| `job` | what the runner and each HTTP call are doing, on which intent and request, and whether the client still listens |
| `slot` | the table `intents`: request, side and UTC day of the one attempt a bar or a proposal gets |
| `bound` | the table `agent_assessments`: the request a proposal was given |
| `seen` | the table `order_observations`: the last outcome recorded of a request |
| `paper`, `placed` | the submission journal and the broker's orders, by what `PaperOrder` promises |
| `stop`, `day`, `market`, `crashes` | STOP, the UTC day of the wall clock, how far the broker got, process deaths |

This module composes with the paper lane: its `Claim`, `Attempt`, `Learn` and
`Void` are the actions of `PaperOrder`, the abstract specification that
`PaperSubmission` is proved to implement. A cycle of the runner is `StartRunner`,
`Recover`, `Recovered`, `Observe`, `Observed`, `Decide`, `Recheck`, `Reserve` and
the steps to the broker, `Pass`, `Claim`, `Pass`, `Attempt`, `Answer`; a call to the
service begins with `StartAssess`, `StartSubmit` or `StartReconcile`, and its
submission has `CheckLane` and `Snapshot` before the same steps. Between any two
of them STOP, the day, the age of the preflight and the broker may change, and
`GiveUp` stands for every read that fails and every check that refuses.
`Disconnect` is a client that goes away while its work is shielded, `Close` and
`CloseEnds` the shutdown that waits for it, `Crash` the death of the owner.
What the strategy decides, and what the account shows of itself, is
nondeterministic: the model keeps what the answer is used for. The broker may
answer with an earlier state of an order.

| Run | What it asks | Bounds |
|---|---|---|
| `copilot_safety` | one cycle or call at a time whoever disconnects, one open order, one order per intent, the budget kept for exits, true outcomes, nothing given up | 1 bar, 1 proposal, 3 requests, 2 HTTP calls, 2 attempts a day of which 1 is kept for exits, 2 days in either order, 1 fill, 2 process deaths |

A bar and a proposal are the two kinds of intent, and they compete for the one
lane; with both the second may be reserved while the first still trades, which
takes a crash, a change of program and a late broker. Three requests let one be
assessed again after a restart. No proposal sells in the run (the strategy's
intents may): a selling one differs in its side only, and the runner has both.

### What is proved

`PaperCopilotProofs` proves every property of the run, for any number of intents,
requests, calls, days and crashes, with `JobInv`, `LaneInv`, `SeenInv` and
`DataInv` as the strengthening:

- `LaneInv`: one worker at most is doing anything; it has the lock, and the lane
  if it is a call.
- `JobInv`: what a worker knows where it is. One past the look at what is pending
  (`Quiet`) knows that no other order may trade. That is what `OneOpenOrder`
  needs, and it stays true because nobody else can begin.
- `SeenInv`, `DataInv`: an order that may trade has a reserved intent without a
  final outcome, so that it is pending and keeps the next order away.

`ExitsKept` counts rows and is proved on its own, from `OneMore`: a reservation
adds one row to one day. This is where finiteness of the intents is used.

`BrokerOrdersAreBudgeted` carries the budget to where it matters. No run states it,
as it relates the three parts of the state: an order the broker holds was attempted
(`PlacedInv`), what was attempted is reserved for one intent (`OneOrderPerIntent`),
and so the orders of a day's reservations are no more than these (`OneOrderEach`),
which `ExitsKept` bounds. The day is the one of the reservation: an order may get
there after midnight, and then still counts for the day it was decided on.

The progress of a cycle is not stated: nothing makes an operator start one, and a
reserved intent that was never sent stays pending (`state.py:184`), as in the
live connector.

## From evidence to an order

`TradeSafety` is the decision as operators over records: what a well-formed
request, policy, section and broker preview are (`ValidRequest`, ...), the
decision in its order of precedence (`Outcome`), how long a receipt may stand
(`Ceiling`), when it is issued (`Issuable`) and when it verifies (`Verifies`), and
the server's envelope around the policies callers bring (`Admits`,
`TightensOnly`). A digest is the thing it is the digest of. `NativeEvidence` adds
how an answer of each source becomes a section of a receipt, or an unavailable
one: by its clocks, its figures, and the parts of it that may be unsound.

`EvidenceFlow` runs them: the public gateway behind its load gate, the
operator's two private issuers, and the order gateway.

| Variable | In the code |
|---|---|
| `now`, `slips` | real time in seconds; how far the wall clock has been set back |
| `profile` | the issuer a behaviour is about: the public gateway, `OperatorEvidenceService`, or `ScopedPaperEvidenceService` |
| `gate` | the token bucket and in-flight count of `RequestAdmission` |
| `job` | each assessment in progress: its request, policy, start, and what was fetched |
| `receipts` | the receipts handed out |
| `claim`, `consumer` | the threads at the order gateway, and the in-memory replay guard |
| `orders` | history: the receipts that let an order through, and when |

An HTTP request is `Arrive` (acquire), `Begin` (admission of its policy) or
`TurnAway`, then `Answer` or `TimeOut`, each of which ends in `Leave` (release). The
operator's assessment is `Ask`, `Source` and `Context` in either order, and `Sign`,
which issues the gateway's evidence anew for no longer than it had left; the
scoped profile's is `Ask` and `Issue`, which reads the clock twice. A claim is
`Verify`, `ReadClock` and `Consume` or `Refuse`, because the consumer reads its
clock before it takes its lock.

| Run | What it asks | Bounds |
|---|---|---|
| `evidence_safety` | freshness at the moment of use, single use of a receipt, the load gate's count | 1 visitor, 1 operator assessment, 2 threads, 4 orders, 2 visitor policies, 5 states of the sources, receipts that live 2 to 3 seconds, seconds 2 to 4, the clock set back once, 2 receipts, room for 1 in the consumer |

The four orders are a sale Undertow prices, a purchase only the scoped profile
can price, an observation of an institution and a live order; the states of the
sources are calm, old, stressed with a missing source, expensive, and wrong.
Validities are a few seconds, so that each can run out between two steps; two
threads are enough for one receipt to be presented twice. `SubmittedIsFresh`
speaks of the reading of the clock the order was let through on, and names only
the ends of validity: a clock set back between verification and use may stand
before the beginnings, which the code does not ask for again. The run allows
deadlock, because a behaviour ends at its bounds.

The consumer here is the in-memory one of `order_guard.py`. The paper lane uses
the durable journal in its place, and `PaperSubmission` models that. No receipt
rests on the rights dates of Undertow beyond what the code asks (they are checked
when the section is made and do not bound its expiry), so neither does the model.

### What is proved

`EvidenceFlowProofs` proves the three properties of the run, and one more, for any
sources, policies, orders, requests, threads and validities, from the assumptions
the module names: `FlowAssumption` (validities and limits are numbers, and no issuer
asks for more than `MAX_TTL_SECONDS`), `OwnPolicyAssumption` (the server's
envelope only tightens the hard one, which it is refused for at the start
otherwise, and admits the operator's policy, without which the gateway would give
the operator nothing), `CallersAssumption` (finitely many visitors, none of them
the operator), `DataAssumption` (clocks, costs and limits are numbers) and
`LimitsAssumption` (so are the limits of the envelopes).

`SubmittedIsFresh` spans the whole path, so its argument does:

- A section made from any answer of any source has clocks that are numbers and
  ends when its product's validity does (the lemmas about `Standing`). `Ceiling`
  takes the earliest of everything a decision rests on, and `CeilingIsLow` says
  that it is one of those moments and none is before it.
- `Kept`, of every receipt handed out: it expires no later than its request and
  each piece of evidence its policy requires. `NotRenewed` is the part about the
  operator's signature: a receipt made anew from the gateway's evidence stands no
  longer than the gateway's would have.
- `AuthorizedIsCleared`: verification at the order gateway finds a decision that
  allows the order on evidence of usable state. What it finds of a receipt no
  clock can change, so it holds of the receipt a thread carries (`ClaimOK`) until
  the consumer looks at the expiry again, on its own reading.
- `OrdersInv` keeps this of every order that went through.

`ReceiptUsedOnce` needs `Spent`: a receipt that was used is still remembered, or
the largest reading the consumer has taken is past its expiry. The consumer
forgets expired receipts only and refuses a reading below an earlier one, so a
thread that carries a used receipt, and a clock reading from before another
thread's claim, cannot get it through. `TypeCorrect` contains a count: `GateInv`
says the in-flight figure is the number of visitors inside, so that a request
turned away, answered or cut off at its deadline gives its place back once.

`NoneLooserThanTheHardLimits` is the reason for the envelopes: callers write their
own policies, and a receipt that passes must not be one that the server would not
have passed. It compares two decisions on the same evidence, the one on record and
the one under the hard limits (for the scoped profile, under its caps with every
product asked for). `WhatPassesTheStricter` shows that the decision is monotone in
the policy, although it is an order of precedence: a policy that asks for more
evidence, or for younger, or allows less, blocks whatever the other one blocks.
`AdmittedIsStricter` shows that what `Admits` lets in is stricter than the hard
envelope, as the configured envelope only tightens that. The operator's signature
keeps the evidence, so it keeps the decision.

## The host tools

Four modules follow one paper host under the programs of `deploy/`, which are run
by an operator, by systemd timers and at boot. `HostMachine` has the Linux host:
the unit, the guarded bytes (configuration, unit files, STOP), the journals, the
published authentication files and `operator.lock`. `HostRollout` is
`disabled_rollout.py`, `HostAttach` is `attach_agent_host.py`, `HostBackup` is
`backup_agent_host.py` with its service files, and `HostTools` composes them and
restarts the machine.

| Variables | In the code |
|---|---|
| `host`, `settings`, `bound`, `journals`, `opened`, `published`, `operatorLock` | `ActiveState` of the unit, the bytes `guards()` reads, an account in `config.json`, commits to the two databases, whether the second exists, the plan each authentication file is from, the flock |
| `current`, `tree`, `captured`, `kept`, `result`, `rollout` | the link to the release, the releases, the receipts and `.intent` files on disk, the process |
| `plan`, `attach` | the plan directories, the process |
| `intent`, `job`, `due` | `intent.json`, the process that holds `backup.lock`, the recovery systemd has still to start |
| `dirs`, `copy`, `remote`, `lapsed`, `receipt`, `status` | run directories, the plaintext in them, the archives in the bucket, the runs whose archives outlived their retention, the receipts in the bucket, `status.json` |
| `mishaps` | the bound: each operator edit or command out of turn, kill, failed command, busy lock, machine restart, retention that ends and dropped archive costs one |

Every step of a tool that another process can see is an action: the backup reads
the guards, writes its intent, stops the host, takes the lock, copies the first
and the last file, reads the guards again, starts the host and waits for it, before it uploads
the archive and proves it by downloading it. `Killed` and `MachineRestarts` cut
it at any of them, `Refuse` is every `require` and failure with the handler it
leads to. What `recover()` does next is the same actions, begun by `RecoveryStarts`
(ExecStopPost, or the boot unit) or by the next `TimerFires`.

| Run | What it asks | Bounds |
|---|---|---|
| `host_safety` | what is published is whole; a host found running runs again | 2 releases, 2 plans, 2 runs, 3 kinds of guarded bytes, 1 journal write, 3 mishaps |

Nothing keeps the installation from changing between the second reading of a
rollout and its link. `PublishedIsWhole` says what holds all the same: the move
has an intent on record, and a result receipt exists only of such a move, between
two readings of the same disabled configuration (`ResultIsOfAMove`).

Three mishaps are what the longest story takes: the host is started between the
stop and the capture, a process is killed, and its recovery is killed or the
machine restarts. The run allows deadlock: with the mishaps spent and both runs
used there is nothing left to do. Runs and plans are taken in any fixed order, as
their names are random. An installation is unbound (the rollout's world) or bound
(the attachment's and the backup's) for a whole behaviour, since the tools refuse
the other kind. A disabled host still commits assessments and events, so its
journals may change. `last-failure.json`, which nothing reads, is left out, and so
is a second process that finds `backup.lock` held: it ends at once.

*Fairness.* The backup's process goes on, as each command and request in it has a
timeout (`BackupStep`, weakly fair; it contains the timer and the units systemd
starts), and a forked host opens or fails (`HostOpens`). Kills, restarts and the
operator are not fair. `HostComesBack` leaves out two cases on purpose: a host that
failed, and guarded bytes that changed, are left to the operator by design.

### What is proved

`HostToolsProofs` proves `PublishedIsWhole` for any number of plans, releases, runs,
writes and mishaps. The invariant says who may have `operator.lock` (`LockInv`: so
nothing is committed during a capture, and a copy is of one moment), that a move
is on record before its link, and is verified where it went (`RolloutInv`), that an attachment that links found
files of its own plan only (`LinkInv`), and of the backup, what the intent says in
each stage (`IntentInv`), which run the process works on (`JobInv`), that a copy
is whole once it is complete (`CopyInv`), and how far the proof of an upload has
come (`RemoteInv`).

Five more theorems say what the tools owe each other, which no run states because
they follow from parts of that invariant:

- `AccountIsExclusive`: the serving host, an attachment and a capture exclude each
  other, and so `NothingMovesUnderACapture`: from the first file of a copy to the
  last neither a journal nor the published files change, although the host may be
  started, stopped and killed meanwhile.
- `ListedTokensAreFinal`: `agent-auth.json` is linked last and a link refuses a
  name that exists, so from then on no `apply` changes a file of the attachment.
  With `StartedInv`, every way to start the host asks for that file, and
  `RunningHostHasTokens` follows: a host that runs has the files of one plan.
- `VerifiedArchivesAreKept`: an archive once verified is not overwritten by
  whichever later run, nor dropped by the bucket while its retention lasts.
  `check_retention` asks for 89 days, which is longer than any run; after
  `RetentionEnds` the bucket may drop the archive, and nothing is promised of it.

`HostComesBack` is model-checked only.

## Plan

Done, in this order: the paid route; the paper lane; the live connector, each
with an abstract promise and its refinement proved; the copilot over the paper
lane; request admission, the order guard and the trade safety decision with the
evidence it rests on; the host tools; the proofs of the copilot, of the receipts
and of the host tools; the counting theorems (the capacity of the x402 journal, the
daily limits of the live connector, the copilot's budget at the broker), the hard
limits on receipts, and what the host tools owe each other.

What a next step would take up: outcome grants, once their command takes a lock the
backup knows of; the carrier and fleet brief, if their merge rules grow a state.

## Only model-checked

The seven liveness properties, as fairness is out of the prover's reach:
`EveryRequestEnds`, `StrandedClaimIsRecovered` (x402), `OnlyTheBrokerKeepsALane`,
`StrandedClaimIsResolved`, `AcceptedOrderBecomesKnown` (paper), `OrderSettles`
(live), `HostComesBack` (host tools). Every other property of a passing run is a
theorem; `JournalReadable`, of `live_reader`, is violated and cannot be one.

## What is not modelled

- The figures behind a decision: the strategy's arithmetic (`strategy.py`), the
  market and Riptide readers, order construction. Where the protocol depends on
  one it is chosen freely.
- Evidence carriers, the fleet brief and canonical hashing: pure documents, about
  which a model without their content can say nothing. The MCP server, the CLIs
  and the discovery routes keep no state.
- Outcome export and its grants, the observatory and its capture, telemetry,
  configuration and diagnostics: they report, and what they write is not read by
  anything here.
- The reads of the live connector that change nothing: `preview`, the account
  check, `doctor`, and its refusal of a changed binding or limits.
- Cryptography, parsing, the wire formats of x402, archive and signature formats,
  schema migrations at open, file permissions and hardening.
- The clients (browser, TypeScript, VS Code, OpenBB), release and packaging.
- Faults other than a crash that loses memory: disk corruption, a journal
  restored from an old copy while its account traded on.

Three hazards have no property. A live or paper intent that was reserved and
never sent keeps its lane until the operator acts, and nothing in the records
tells it from one that was sent. A changed configuration during a capture keeps
the host down until it is reviewed. `outcome_consent.py` writes the list of
tokens under none of the locks the backup takes.
