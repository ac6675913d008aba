--------------------------- MODULE LiveConnector ---------------------------
(***************************************************************************)
(* The live account connector: CLI processes on one state directory, their *)
(* lock, the durable order journal, the broker and the operator.           *)
(*                                                                         *)
(*   row     live-orders.sqlite3, one durable row a request                *)
(*   lock    who holds the exclusive flock on operator.lock                *)
(*   work    what each process is doing                                    *)
(*   stop    STOP is present, or the activation is withdrawn               *)
(*   now     the wall clock, which may be set back if ClockSetBack         *)
(*   order, position   what the broker has of each request, and holds      *)
(*   posts   history: the POSTs sent and when; read by no step             *)
(*   faults  history: calls a fault or a process death cut short           *)
(*                                                                         *)
(* One action is one reading of the clock, of STOP or of the account, one  *)
(* transaction, or one broker call; the journal cannot change under the    *)
(* lock, so its readings go with the action that uses them.  An order is   *)
(* counted in units of one symbol at the price of one.                     *)
(*                                                                         *)
(* A definition named Bug... is the definition after it with one plausible *)
(* mistake put in; nothing uses it here.                                   *)
(***************************************************************************)
EXTENDS Naturals, Sequences, FiniteSets

CONSTANTS Workers,       \* processes running liquilens-live
          Requests,      \* canonical requests that meet the static order rules
          Receipts,      \* authenticated, enforced pass receipts
          RequestOf,     \* the one request each receipt is bound to
          ValidAt,       \* when each receipt and its evidence are current
          IntentOf,      \* request_id of each request
          Buys,          \* requests that buy; the others sell
          Qty,           \* units each request asks for
          Held,          \* units the account holds at the start
          MaxGross,      \* max_gross_exposure_usd, in units
          MaxDaily,      \* max_daily_attempts
          Capacity,      \* rows the journal takes: 10000 in the code
          DayLength,     \* clock readings a UTC day
          ClockSetBack,  \* whether the wall clock may be set back
          Figures,       \* what the broker may state as an average price
          None,          \* no process, request, receipt or observation
          MaxClock,      \* bound: the latest reading of the wall clock
          MaxFaults      \* bound: faults in a behaviour

ASSUME BindingAssumption ==
  /\ RequestOf \in [Receipts -> Requests]
  /\ ValidAt \in [Receipts -> SUBSET Nat]
  /\ DOMAIN IntentOf = Requests
ASSUME AccountAssumption ==
  /\ Buys \subseteq Requests
  /\ Qty \in [Requests -> Nat \ {0}]
  /\ Held \in Nat /\ MaxGross \in Nat /\ Held <= MaxGross
ASSUME BoundAssumption ==
  /\ MaxDaily \in Nat \ {0} /\ Capacity \in Nat /\ DayLength \in Nat \ {0}
  /\ MaxClock \in Nat /\ MaxFaults \in Nat /\ ClockSetBack \in BOOLEAN
ASSUME NoneAssumption ==
  /\ None \notin Workers \cup Requests \cup Receipts
  /\ None \notin [status : {"open", "filled", "closed"}, filled : Nat,
                  price : {"none", "good", "zero", "long"}]
ASSUME FiguresAssumption == Figures \subseteq {"none", "good", "zero", "long"}

VARIABLES row, lock, work, stop, now, order, position, posts, faults

broker == <<order, position>>
vars == <<row, lock, work, stop, now, order, position, posts, faults>>

-----------------------------------------------------------------------------
(* Data. *)

(* What the connector keeps of a broker answer.  "open" stands for the     *)
(* statuses outside TERMINAL, "closed" for canceled, expired and rejected. *)
(* price is filled_avg_price: absent, positive, at or below zero, or any   *)
(* figure of the answer longer than 64 characters.                         *)
Prices       == {"none", "good", "zero", "long"}
Observations == [status : {"open", "filled", "closed"}, filled : Nat, price : Prices]
Final(o)     == o.status # "open"
SameState(o, p) == o.status = p.status /\ o.filled = p.filled

Rows  == [state : {"absent", "uncertain", "pending", "terminal"}, at : Nat,
          seen : Observations \cup {None}, cancel : BOOLEAN]
NoRow == [state |-> "absent", at |-> 0, seen |-> None, cancel |-> FALSE]

(* How far a call is.  submit: opened .. posted; inspect: asking; both:    *)
(* answered; cancel: flagging, deleting.                                   *)
SubmitSteps == {"opened", "valid", "dated", "unencumbered", "funded", "revalidated",
                "enabled", "reserved", "permitted", "cleared", "posted"}
Steps == {"idle", "asking", "answered", "flagging", "deleting"} \cup SubmitSteps

Work == [at : Steps, request : Requests \cup {None}, receipt : Receipts \cup {None},
         time : Nat, told : Observations \cup {None}, cancel : BOOLEAN]
Idle == [at |-> "idle", request |-> None, receipt |-> None, time |-> 0,
         told |-> None, cancel |-> FALSE]

(* An order is on its way, booked and open, over, or was never booked.     *)
Orders  == [status : {"none", "flying", "lost", "open", "filled", "closed"}, filled : Nat]
NoOrder == [status |-> "none", filled |-> 0]
Booked(q) == order[q].status \in {"open", "filled", "closed"}
Live(q)   == order[q].status \in {"flying", "open"}

Day(t) == t \div DayLength

Init ==
  /\ row = [q \in Requests |-> NoRow]
  /\ lock = None
  /\ work = [w \in Workers |-> Idle]
  /\ stop = FALSE
  /\ now = 0
  /\ order = [q \in Requests |-> NoOrder]
  /\ position = Held
  /\ posts = <<>>
  /\ faults = 0

-----------------------------------------------------------------------------
(* Helpers. *)

At(w, step)   == work[w].at = step
Move(w, step) == work' = [work EXCEPT ![w].at = step]

(* operator_lock: taken at once or not at all, and gone with the process.  *)
BugNoLock == TRUE
LockFree == lock = None
Acquire(w, job) == LockFree /\ lock' = w /\ work' = [work EXCEPT ![w] = job]
Release(w)      == lock' = None /\ work' = [work EXCEPT ![w] = Idle]

(* What the offline reader of the journal takes for a row.                 *)
Readable(r) ==
  IF r.seen = None THEN r.state = "uncertain"
  ELSE /\ r.state = "terminal" <=> Final(r.seen)
       /\ r.seen.price \notin {"zero", "long"}
       /\ r.seen.filled > 0 => r.seen.price # "none"

(* The first reading of the clock, after the receipt was found current.    *)
Unresolved(q)  == row[q].state \in {"uncertain", "pending"}
Recorded       == {q \in Requests : row[q].state # "absent"}
AttemptsOn(d)  == {q \in Recorded : Day(row[q].at) = d}

BugOneMore ==
  /\ \A q \in Requests : ~Unresolved(q)
  /\ \A q \in Recorded : row[q].at <= now
  /\ Cardinality(AttemptsOn(Day(now))) <= MaxDaily
  /\ Cardinality(Recorded) < Capacity
Admissible ==
  /\ \A q \in Requests : ~Unresolved(q)
  /\ \A q \in Recorded : row[q].at <= now
  /\ Cardinality(AttemptsOn(Day(now))) < MaxDaily
  /\ Cardinality(Recorded) < Capacity

(* The list of positions: what all of them are worth, and how much there   *)
(* is of one.  Units of one symbol at the price of one make them the same. *)
Gross    == position
Owned    == position

(* _account: gross exposure with a buy, shares held for a sell.            *)
Fits(q) == IF q \in Buys THEN Gross + Qty[q] <= MaxGross ELSE Qty[q] <= Owned

(* _observation: the answer states a price for what was filled, at least,  *)
(* and does not contradict the last one.                                   *)
Priced(o) == o.filled > 0 => o.price \in {"good", "long"}

BugAnyAnswer(seen, o) == TRUE
Consistent(seen, o) ==
  \A s \in {seen} \ {None} : o.filled >= s.filled /\ (Final(s) => SameState(o, s))

Accepted(q, o) == Priced(o) /\ Consistent(row[q].seen, o)

(* What the broker may say of an order: its state, or an earlier one.      *)
Views(q) ==
  [status : {"open"}, filled : 0..order[q].filled, price : Figures] \cup
  [status : {order[q].status}, filled : {order[q].filled}, price : Figures]

-----------------------------------------------------------------------------
(* submit.  A recorded request is answered from its row, changing nothing. *)

Submit(w, r) ==
  /\ At(w, "idle")
  /\ row[RequestOf[r]].state = "absent"
  /\ ~stop
  /\ Acquire(w, [Idle EXCEPT !.at = "opened", !.request = RequestOf[r], !.receipt = r])
  /\ UNCHANGED <<row, stop, now, broker, posts, faults>>

(* _validated and _enabled, from one step to the next.                     *)
AfterReceipt == [opened |-> "valid", funded |-> "revalidated", permitted |-> "cleared"]
AfterStop    == [revalidated |-> "enabled", reserved |-> "permitted"]

Validate(w) ==
  /\ work[w].at \in DOMAIN AfterReceipt
  /\ now \in ValidAt[work[w].receipt]
  /\ Move(w, AfterReceipt[work[w].at])
  /\ UNCHANGED <<row, lock, stop, now, broker, posts, faults>>

Enable(w) ==
  /\ work[w].at \in DOMAIN AfterStop
  /\ ~stop
  /\ Move(w, AfterStop[work[w].at])
  /\ UNCHANGED <<row, lock, stop, now, broker, posts, faults>>

Date(w) ==
  /\ At(w, "valid")
  /\ Admissible
  /\ work' = [work EXCEPT ![w].at = "dated", ![w].time = now]
  /\ UNCHANGED <<row, lock, stop, now, broker, posts, faults>>

(* The account answers in turn: status, open orders, positions.            *)
NoOpenOrders(w) ==
  /\ At(w, "dated")
  /\ \A q \in Requests : order[q].status # "open"
  /\ Move(w, "unencumbered")
  /\ UNCHANGED <<row, lock, stop, now, broker, posts, faults>>

Fund(w) ==
  /\ At(w, "unencumbered")
  /\ Fits(work[w].request)
  /\ Move(w, "funded")
  /\ UNCHANGED <<row, lock, stop, now, broker, posts, faults>>

(* The INSERT, under the date of the first reading.                        *)
Unused(q) == \A p \in Recorded : IntentOf[p] # IntentOf[q]

Reserve(w) ==
  /\ At(w, "enabled")
  /\ Unused(work[w].request)
  /\ row' = [row EXCEPT ![work[w].request] =
               [NoRow EXCEPT !.state = "uncertain", !.at = work[w].time]]
  /\ Move(w, "reserved")
  /\ UNCHANGED <<lock, stop, now, broker, posts, faults>>

(* The broker knows the client_order_id of an order it has.                *)
Post(w) ==
  LET q == work[w].request IN
  /\ At(w, "cleared")
  /\ posts' = Append(posts, [request |-> q, at |-> now])
  /\ order' = [order EXCEPT ![q].status = IF @ = "none" THEN "flying" ELSE @]
  /\ Move(w, "posted")
  /\ UNCHANGED <<row, lock, stop, now, position, faults>>

-----------------------------------------------------------------------------
(* inspect, with reconcile or cancel; the account identity is in order.    *)

Inspect(w, q, c) ==
  /\ At(w, "idle")
  /\ row[q].state # "absent"
  /\ Acquire(w, [Idle EXCEPT !.at = "asking", !.request = q, !.cancel = c])
  /\ UNCHANGED <<row, stop, now, broker, posts, faults>>

(* The broker's answer, to the POST or to the lookup.                      *)
Answer(w) ==
  /\ work[w].at \in {"posted", "asking"}
  /\ Booked(work[w].request)
  /\ \E o \in Views(work[w].request) :
       work' = [work EXCEPT ![w].at = "answered", ![w].told = o]
  /\ UNCHANGED <<row, lock, stop, now, broker, posts, faults>>

(* The UPDATE.  A cancel of an order that is not over goes on.             *)
Observed(q, o) ==
  [row[q] EXCEPT !.state = IF Final(o) THEN "terminal" ELSE "pending", !.seen = o]

Update(w) ==
  LET q == work[w].request
      o == work[w].told
  IN
  /\ At(w, "answered")
  /\ Accepted(q, o)
  /\ row' = [row EXCEPT ![q] = Observed(q, o)]
  /\ IF work[w].cancel /\ ~Final(o) THEN Move(w, "flagging") /\ UNCHANGED lock
                                    ELSE Release(w)
  /\ UNCHANGED <<stop, now, broker, posts, faults>>

Flag(w) ==
  /\ At(w, "flagging")
  /\ row' = [row EXCEPT ![work[w].request].cancel = TRUE]
  /\ Move(w, "deleting")
  /\ UNCHANGED <<lock, stop, now, broker, posts, faults>>

(* The DELETE is acknowledged; whether it closes the order is another      *)
(* matter, and the row does not change.                                    *)
BugCancelBelieved(w) ==
  /\ At(w, "deleting")
  /\ row' = [row EXCEPT ![work[w].request].state = "terminal",
                        ![work[w].request].seen.status = "closed"]
  /\ Release(w)
  /\ UNCHANGED <<stop, now, broker, posts, faults>>
Delete(w) ==
  /\ At(w, "deleting")
  /\ Release(w)
  /\ UNCHANGED <<row, stop, now, broker, posts, faults>>

-----------------------------------------------------------------------------
(* Calls that end early.                                                   *)

(* A check that fails: an exception before the INSERT, a swallowed one     *)
(* after it.  The row stays as it is.                                      *)
Fails(w) ==
  LET q == work[w].request IN
  \/ work[w].at \in DOMAIN AfterReceipt /\ now \notin ValidAt[work[w].receipt]
  \/ work[w].at \in DOMAIN AfterStop /\ stop
  \/ At(w, "valid") /\ ~Admissible
  \/ At(w, "dated") /\ \E p \in Requests : order[p].status = "open"
  \/ At(w, "unencumbered") /\ ~Fits(q)
  \/ At(w, "enabled") /\ ~Unused(q)
  \/ work[w].at \in {"posted", "asking"} /\ ~Booked(q)
  \/ At(w, "answered") /\ ~Accepted(q, work[w].told)

BugAbsenceBelieved(w) ==
  /\ Fails(w)
  /\ row' = IF At(w, "asking")
            THEN [row EXCEPT ![work[w].request].state = "terminal"] ELSE row
  /\ Release(w)
  /\ UNCHANGED <<stop, now, broker, posts, faults>>
BugLockKept(w) ==
  /\ Fails(w)
  /\ IF At(w, "asking") THEN Move(w, "idle") /\ UNCHANGED lock ELSE Release(w)
  /\ UNCHANGED <<row, stop, now, broker, posts, faults>>
Refuse(w) ==
  /\ Fails(w)
  /\ Release(w)
  /\ UNCHANGED <<row, stop, now, broker, posts, faults>>

(* A broker call or a transaction fails, or the process dies.              *)
Fault(w) ==
  /\ ~At(w, "idle")
  /\ faults < MaxFaults
  /\ faults' = faults + 1
  /\ Release(w)
  /\ UNCHANGED <<row, stop, now, broker, posts>>

-----------------------------------------------------------------------------
(* The broker, the operator and the clock.                                 *)

(* An order on its way is booked, turned down, or never seen again.        *)
BrokerDecides(q) ==
  /\ order[q].status = "flying"
  /\ \E s \in {"open", "closed", "lost"} : order' = [order EXCEPT ![q].status = s]
  /\ UNCHANGED <<row, lock, work, stop, now, position, posts, faults>>

Fill(q) ==
  /\ order[q].status = "open"
  /\ order' = [order EXCEPT ![q] =
       [status |-> IF @.filled + 1 = Qty[q] THEN "filled" ELSE "open",
        filled |-> @.filled + 1]]
  /\ position' = IF q \in Buys THEN position + 1 ELSE position - 1
  /\ UNCHANGED <<row, lock, work, stop, now, posts, faults>>

(* Canceled, at the connector's request or by another hand, or expired.    *)
Close(q) ==
  /\ order[q].status = "open"
  /\ order' = [order EXCEPT ![q].status = "closed"]
  /\ UNCHANGED <<row, lock, work, stop, now, position, posts, faults>>

SetStop ==
  /\ stop' = ~stop
  /\ UNCHANGED <<row, lock, work, now, broker, posts, faults>>

ClockMoves ==
  /\ \E t \in 0..MaxClock : (ClockSetBack \/ t > now) /\ now' = t
  /\ UNCHANGED <<row, lock, work, stop, broker, posts, faults>>

-----------------------------------------------------------------------------
Step(w) ==
  \/ Validate(w) \/ Enable(w) \/ Date(w) \/ NoOpenOrders(w) \/ Fund(w)
  \/ Reserve(w) \/ Post(w) \/ Answer(w) \/ Update(w) \/ Flag(w) \/ Delete(w)
  \/ Refuse(w)

Next ==
  \/ \E w \in Workers :
       \/ \E r \in Receipts : Submit(w, r)
       \/ \E q \in Requests, c \in BOOLEAN : Inspect(w, q, c)
       \/ Step(w) \/ Fault(w)
  \/ \E q \in Requests : BrokerDecides(q) \/ Fill(q) \/ Close(q)
  \/ SetStop \/ ClockMoves

Spec == Init /\ [][Next]_vars

(* A call goes on until it ends; the broker decides on what it was sent    *)
(* and ends what it booked; every order is reconciled again and again, and *)
(* the broker does not for ever answer with an earlier state of it, or     *)
(* leave the price of what was filled out.                                 *)
Reconcile(q)   == \E w \in Workers : Inspect(w, q, FALSE)
FreshAnswer(q) == \E w \in Workers :
                    /\ work[w].request = q
                    /\ Answer(w)
                    /\ SameState(work'[w].told, order[q])
                    /\ Priced(work'[w].told)
Fairness ==
  /\ \A w \in Workers : WF_vars(Step(w))
  /\ \A q \in Requests : /\ WF_vars(BrokerDecides(q)) /\ WF_vars(Close(q))
                         /\ SF_vars(Reconcile(q)) /\ SF_vars(FreshAnswer(q))

FairSpec == Spec /\ Fairness

-----------------------------------------------------------------------------
(* Properties. *)

(* The variables keep their types; a process has a request and the lock    *)
(* exactly while it has a call.                                            *)
TypeOK ==
  /\ row \in [Requests -> Rows]
  /\ lock \in Workers \cup {None}
  /\ work \in [Workers -> Work]
  /\ stop \in BOOLEAN
  /\ now \in 0..MaxClock
  /\ order \in [Requests -> Orders]
  /\ position \in Nat
  /\ posts \in Seq([request : Requests, at : 0..MaxClock])
  /\ faults \in 0..MaxFaults
  /\ \A w \in Workers : /\ At(w, "idle") <=> work[w].request = None
                        /\ At(w, "idle") <=> lock # w
                        /\ work[w].at \in SubmitSteps => work[w].receipt # None

(* Whatever is still on its way or open at the broker, filling it in full  *)
(* leaves the account inside max_gross_exposure_usd and never short: the   *)
(* account was read before the POST, perhaps several crashes ago.          *)
AccountWithinLimits ==
  \A q \in Requests : Live(q) =>
    IF q \in Buys THEN position + (Qty[q] - order[q].filled) <= MaxGross
                  ELSE Qty[q] - order[q].filled <= position

(* A row says terminal only of an order the broker will never touch again, *)
(* with the units it filled; a row frees the lane by nothing else.         *)
TerminalIsFinal ==
  \A q \in Requests :
    row[q].state = "terminal" =>
      row[q].seen # None /\ SameState(row[q].seen, order[q]) /\ Final(order[q])

(* The local reader of the journal (status, orders, export) accepts every  *)
(* row the connector leaves behind, whatever the broker's figures: one row *)
(* it refuses takes the page of saved hashes with it.                      *)
JournalReadable == \A q \in Recorded : Readable(row[q])

(* On a clock that is not set back, no more than max_daily_attempts orders *)
(* and one begun before midnight are posted on any day.                    *)
PostsOn(d) == {i \in DOMAIN posts : Day(posts[i].at) = d}
DailyPostsBounded ==
  ~ClockSetBack =>
    \A d \in 0..Day(MaxClock) : Cardinality(PostsOn(d)) <= MaxDaily + 1

(* What the journal knows of an order never goes back: no answer takes     *)
(* filled units away or reopens a terminal row, however old it is.         *)
ObservationNeverRegresses ==
  [][\A q \in Requests :
       /\ row[q].seen # None => row'[q].seen # None /\ Consistent(row[q].seen, row'[q].seen)
       /\ row[q].state = "terminal" => row'[q].state = "terminal"]_vars

(* The connector keeps the promises of LiveAccount.                        *)
AccountStatus(o) == CASE o.status = "none" -> "none"
                      [] o.status \in {"flying", "open"} -> "live"
                      [] OTHER -> "over"
Account == INSTANCE LiveAccount WITH
  status   <- [q \in Requests |-> AccountStatus(order[q])],
  filled   <- [q \in Requests |-> order[q].filled]
ImplementsLiveAccount == Account!Spec

(* An order the broker booked ends up in a terminal row, even when the     *)
(* answer to its POST was lost.                                            *)
OrderSettles ==
  \A q \in Requests : Booked(q) ~> row[q].state = "terminal"
=============================================================================
