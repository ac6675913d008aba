------------------------ MODULE LiveConnectorProofs ------------------------
(***************************************************************************)
(* Proofs about LiveConnector, for every value of its constants.           *)
(*                                                                         *)
(* AccountWithinLimits is not inductive.  IInv adds what the lock holder   *)
(* may rely on (JobOK: since the journal was read, nothing else is         *)
(* unresolved, and since the account was read, the order fits), what a row *)
(* says of the order (RowOK), and that one row at most is unresolved.      *)
(***************************************************************************)
EXTENDS LiveConnector, FiniteSetTheorems, TLAPS

-----------------------------------------------------------------------------
(* The inductive invariant. *)

WorkOK ==
  /\ lock \in Workers \cup {None}
  /\ work \in [Workers -> Work]
  /\ \A w \in Workers : /\ At(w, "idle") <=> work[w].request = None
                        /\ At(w, "idle") <=> lock # w
                        /\ work[w].at \in SubmitSteps => work[w].receipt # None

DataOK ==
  /\ row \in [Requests -> Rows]
  /\ stop \in BOOLEAN
  /\ now \in 0..MaxClock
  /\ order \in [Requests -> Orders]
  /\ position \in Nat
  /\ posts \in Seq([request : Requests, at : 0..MaxClock])
  /\ faults \in 0..MaxFaults

Fresh    == {"opened", "valid", "dated", "unencumbered", "funded", "revalidated", "enabled"}
Reserved == {"reserved", "permitted", "cleared"}
Funded   == {"funded", "revalidated", "enabled"} \cup Reserved
Alone    == {"dated", "unencumbered"} \cup Funded
Known    == {"posted", "asking", "answered", "flagging", "deleting"}

JobOK(j) ==
  /\ j.at \in Fresh => row[j.request].state = "absent"
  /\ j.at \in Reserved => /\ row[j.request].state = "uncertain"
                          /\ row[j.request].seen = None
                          /\ order[j.request].status = "none"
  /\ j.at \in Known => row[j.request].state # "absent"
  /\ j.at = "answered" => /\ j.told \in Observations
                          /\ Final(j.told) => SameState(j.told, order[j.request])
  /\ j.at \in Alone => \A p \in Requests \ {j.request} : ~Unresolved(p)
  /\ j.at \in Funded => Fits(j.request)

RowOK(q) ==
  /\ row[q].state = "absent" => order[q].status = "none" /\ row[q].seen = None
  /\ order[q].status \in {"none", "flying", "lost"} => order[q].filled = 0
  /\ order[q].status = "open" => order[q].filled < Qty[q]
  /\ row[q].state = "terminal" =>
       row[q].seen # None /\ SameState(row[q].seen, order[q]) /\ Final(order[q])
  /\ row[q].seen # None => Priced(row[q].seen)
  /\ row[q].seen = None => row[q].state \in {"absent", "uncertain"}
  /\ row[q].seen # None => (row[q].state = "terminal" <=> Final(row[q].seen))

OneUnresolved ==
  \A p, q \in Requests : Unresolved(p) /\ Unresolved(q) => p = q

StateOK ==
  /\ \A q \in Requests : RowOK(q)
  /\ OneUnresolved
  /\ AccountWithinLimits

JobsOK == \A w \in Workers : JobOK(work[w])

IInv == WorkOK /\ DataOK /\ StateOK /\ JobsOK

LEMMA TypeParts == (WorkOK /\ DataOK) <=> TypeOK
PROOF
  BY DEF TypeOK, WorkOK, DataOK

(* An order that may still be filled keeps its row unresolved.             *)
LEMMA LiveIsUnresolved ==
  ASSUME DataOK, NEW q \in Requests, RowOK(q), Live(q)
  PROVE  Unresolved(q)
PROOF
  BY DEF DataOK, Rows, Observations, RowOK, Live, Unresolved, Final, SameState

-----------------------------------------------------------------------------
(* How the lock and the work of the processes change together.             *)

LEMMA WorkerGoesOn ==
  ASSUME WorkOK, NEW w \in Workers, NEW j \in Work,
         j.at # "idle", j.request # None,
         j.at \in SubmitSteps => j.receipt # None,
         lock = w \/ lock = None,
         work' = [work EXCEPT ![w] = j], lock' = w
  PROVE  /\ WorkOK'
         /\ JobOK(j)' => JobsOK'
PROOF
<1>. USE NoneAssumption
<1>1. \A v \in Workers : work'[v] = IF v = w THEN j ELSE work[v]
  BY DEF WorkOK
<1>2. \A v \in Workers \ {w} : work[v].at = "idle" /\ work[v].request = None
  BY DEF WorkOK, At
<1>3. work' \in [Workers -> Work]
  BY DEF WorkOK
<1>4. ASSUME NEW v \in Workers
      PROVE  /\ work'[v].at = "idle" <=> work'[v].request = None
             /\ work'[v].at = "idle" <=> lock' # v
             /\ work'[v].at \in SubmitSteps => work'[v].receipt # None
  BY <1>1, <1>2 DEF SubmitSteps
<1>5. WorkOK'
  BY <1>3, <1>4 DEF WorkOK, At
<1>6. JobOK(j)' => JobsOK'
  <2>. SUFFICES ASSUME JobOK(j)', NEW v \in Workers PROVE JobOK(work[v])'
    BY DEF JobsOK
  <2>1. CASE v = w
    <3>1. work'[v] = j
      BY <1>1, <2>1
    <3>. QED
      BY <3>1 DEF JobOK, Unresolved, Fits, Gross, Owned, Final
  <2>2. CASE v # w
    <3>1. work'[v].at = "idle"
      BY <1>1, <1>2, <2>2
    <3>. QED
      BY <3>1 DEF JobOK, Fresh, Reserved, Known, Alone, Funded
  <2>. QED
    BY <2>1, <2>2
<1>. QED
  BY <1>5, <1>6

LEMMA WorkerEnds ==
  ASSUME WorkOK, NEW w \in Workers, ~At(w, "idle"), Release(w)
  PROVE  WorkOK' /\ JobsOK'
PROOF
<1>. USE NoneAssumption
<1>1. \A v \in Workers : work'[v] = IF v = w THEN Idle ELSE work[v]
  BY DEF WorkOK, Release
<1>2. \A v \in Workers : work'[v].at = "idle" /\ work'[v].request = None
  BY <1>1 DEF WorkOK, At, Idle
<1>3. Idle \in Work
  BY DEF Idle, Work, Steps
<1>4. work' \in [Workers -> Work]
  BY <1>3 DEF WorkOK, Release
<1>5. WorkOK'
  BY <1>2, <1>4 DEF WorkOK, At, Release, SubmitSteps
<1>6. JobsOK'
  BY <1>2 DEF JobsOK, JobOK, Fresh, Reserved, Known, Alone, Funded
<1>. QED
  BY <1>5, <1>6

(* A call that only moves on, or starts, leaves the rest as it is.         *)
LEMMA StateKept ==
  ASSUME StateOK, row' = row, order' = order, position' = position
  PROVE  StateOK' /\ \A j \in Work : JobOK(j) => JobOK(j)'
PROOF
<1>1. StateOK'
  BY DEF StateOK, RowOK, OneUnresolved, Unresolved, AccountWithinLimits, Live, Final
<1>2. ASSUME NEW j \in Work, JobOK(j) PROVE JobOK(j)'
  BY <1>2 DEF JobOK, Unresolved, Fits, Gross, Owned
<1>. QED
  BY <1>1, <1>2

-----------------------------------------------------------------------------
(* The steps of a call.                                                    *)

LEMMA SubmitKeeps ==
  ASSUME IInv, NEW w \in Workers, NEW r \in Receipts, Submit(w, r)
  PROVE  IInv'
PROOF
<1>. DEFINE j == [Idle EXCEPT !.at = "opened", !.request = RequestOf[r], !.receipt = r]
<1>1. /\ j \in Work /\ j.at = "opened" /\ j.request = RequestOf[r]
      /\ j.receipt = r /\ RequestOf[r] \in Requests
  BY BindingAssumption DEF Idle, Work, Steps, SubmitSteps
<1>2. WorkOK' /\ (JobOK(j)' => JobsOK')
  BY <1>1, WorkerGoesOn, NoneAssumption DEF Submit, Acquire, LockFree, IInv
<1>3. JobOK(j)
  BY <1>1 DEF Submit, JobOK, Fresh, Reserved, Known, Alone, Funded
<1>4. StateOK' /\ JobOK(j)'
  BY <1>1, <1>3, StateKept DEF IInv, Submit, broker
<1>5. DataOK'
  BY DEF IInv, DataOK, Submit, broker
<1>. QED
  BY <1>2, <1>4, <1>5 DEF IInv

LEMMA InspectKeeps ==
  ASSUME IInv, NEW w \in Workers, NEW q \in Requests, NEW c \in BOOLEAN, Inspect(w, q, c)
  PROVE  IInv'
PROOF
<1>. DEFINE j == [Idle EXCEPT !.at = "asking", !.request = q, !.cancel = c]
<1>1. j \in Work /\ j.at = "asking" /\ j.request = q
  BY DEF Idle, Work, Steps
<1>2. WorkOK' /\ (JobOK(j)' => JobsOK')
  BY <1>1, WorkerGoesOn, NoneAssumption DEF Inspect, Acquire, LockFree, IInv, SubmitSteps
<1>3. JobOK(j)
  BY <1>1 DEF Inspect, JobOK, Fresh, Reserved, Known, Alone, Funded
<1>4. StateOK' /\ JobOK(j)'
  BY <1>1, <1>3, StateKept DEF IInv, Inspect, broker
<1>5. DataOK'
  BY DEF IInv, DataOK, Inspect, broker
<1>. QED
  BY <1>2, <1>4, <1>5 DEF IInv

(* A step within a call: the holder of the lock moves on.                  *)
LEMMA Moves ==
  ASSUME WorkOK, NEW w \in Workers, ~At(w, "idle"),
         NEW s \in Steps \ {"idle"},
         s \in SubmitSteps => work[w].at \in SubmitSteps,
         Move(w, s), lock' = lock
  PROVE  \E j \in Work :
           /\ j = [work[w] EXCEPT !.at = s]
           /\ j.at = s
           /\ j.request = work[w].request /\ j.request \in Requests
           /\ j.told = work[w].told /\ j.cancel = work[w].cancel
           /\ j.time = work[w].time /\ j.receipt = work[w].receipt
           /\ WorkOK'
           /\ JobOK(j)' => JobsOK'
PROOF
<1>. USE NoneAssumption
<1>1. work[w] \in Work /\ lock = w /\ work[w].request # None
  BY DEF WorkOK, At
<1>. DEFINE m == [work[w] EXCEPT !.at = s]
<1>2. PICK j \in Work : j = m
  BY <1>1 DEF Work
<1>3. /\ j.at = s /\ j.request = work[w].request /\ j.told = work[w].told
      /\ j.cancel = work[w].cancel /\ j.time = work[w].time
      /\ j.receipt = work[w].receipt /\ j.request \in Requests
  BY <1>1, <1>2 DEF Work
<1>4. j.at \in SubmitSteps => j.receipt # None
  BY <1>3 DEF WorkOK
<1>5. work' = [work EXCEPT ![w] = j]
  BY <1>2 DEF Move
<1>6. WorkOK' /\ (JobOK(j)' => JobsOK')
  BY <1>1, <1>3, <1>4, <1>5, WorkerGoesOn
<1>. QED
  BY <1>2, <1>3, <1>6

(* The checks of a submission.                                             *)
LEMMA CheckKeeps ==
  ASSUME IInv, NEW w \in Workers,
         Validate(w) \/ Enable(w) \/ NoOpenOrders(w) \/ Fund(w)
  PROVE  IInv'
PROOF
<1>. DEFINE s == CASE At(w, "opened") -> "valid"
                  [] At(w, "dated") -> "unencumbered"
                  [] At(w, "unencumbered") -> "funded"
                  [] At(w, "funded") -> "revalidated"
                  [] At(w, "revalidated") -> "enabled"
                  [] At(w, "reserved") -> "permitted"
                  [] At(w, "permitted") -> "cleared"
                  [] OTHER -> "posted"
<1>1. /\ work[w].at \in {"opened", "dated", "unencumbered", "funded", "revalidated",
                         "reserved", "permitted"}
      /\ Move(w, s) /\ lock' = lock
      /\ At(w, "unencumbered") => Fits(work[w].request)
  BY DEF Validate, Enable, NoOpenOrders, Fund, AfterReceipt, AfterStop, Move, At
<1>2. s \in Steps \ {"idle"} /\ work[w].at \in SubmitSteps
  BY <1>1 DEF Steps, SubmitSteps, At
<1>3. PICK j \in Work :
        /\ j.at = s /\ j.request = work[w].request
        /\ WorkOK' /\ (JobOK(j)' => JobsOK')
  BY <1>1, <1>2, Moves DEF IInv, At
<1>4. row' = row /\ order' = order /\ position' = position
  BY DEF Validate, Enable, NoOpenOrders, Fund, broker
<1>5. JobOK(work[w])
  BY DEF IInv, JobsOK
<1>6. JobOK(j)
  BY <1>1, <1>3, <1>5 DEF JobOK, Fresh, Reserved, Known, Alone, Funded, At
<1>7. StateOK' /\ JobOK(j)'
  BY <1>4, <1>6, StateKept DEF IInv
<1>8. DataOK'
  BY DEF IInv, DataOK, Validate, Enable, NoOpenOrders, Fund, broker
<1>. QED
  BY <1>3, <1>7, <1>8 DEF IInv

LEMMA DateKeeps ==
  ASSUME IInv, NEW w \in Workers, Date(w)
  PROVE  IInv'
PROOF
<1>. DEFINE m == [work[w] EXCEPT !.at = "dated", !.time = now]
<1>1. work[w] \in Work /\ At(w, "valid") /\ lock = w /\ work[w].receipt # None
      /\ work[w].request # None /\ now \in Nat
  BY BoundAssumption DEF IInv, WorkOK, DataOK, Date, At, SubmitSteps
<1>2. m \in Work
  BY <1>1 DEF Work, Steps, SubmitSteps
<1>3. PICK j \in Work : j = m
  BY <1>2
<1>4. j.at = "dated" /\ j.request = work[w].request /\ j.receipt = work[w].receipt
  BY <1>1, <1>3 DEF Work
<1>5. work' = [work EXCEPT ![w] = j] /\ lock' = w
  BY <1>1, <1>3 DEF Date
<1>6. WorkOK' /\ (JobOK(j)' => JobsOK')
  BY <1>1, <1>4, <1>5, WorkerGoesOn DEF IInv
<1>7. JobOK(work[w])
  BY DEF IInv, JobsOK
<1>8. JobOK(j)
  BY <1>1, <1>4, <1>7 DEF JobOK, Fresh, Reserved, Known, Alone, Funded, At, Date, Admissible
<1>9. StateOK' /\ JobOK(j)'
  BY <1>8, StateKept DEF IInv, Date, broker
<1>10. DataOK'
  BY DEF IInv, DataOK, Date, broker
<1>. QED
  BY <1>6, <1>9, <1>10 DEF IInv

(* What the broker says is final is what it has, and stays so.             *)
LEMMA AnswerKeeps ==
  ASSUME IInv, NEW w \in Workers, Answer(w)
  PROVE  IInv'
PROOF
<1>1. work[w] \in Work /\ work[w].at \in {"posted", "asking"} /\ lock = w
      /\ work[w].request \in Requests
  BY DEF IInv, WorkOK, Answer, At, Work
<1>. DEFINE q == work[w].request
<1>2. PICK o \in Views(q) :
        work' = [work EXCEPT ![w].at = "answered", ![w].told = o]
  BY DEF Answer
<1>3. o \in Observations /\ (Final(o) => SameState(o, order[q]))
  <2>1. /\ order[q] \in Orders /\ order[q].status \in {"open", "filled", "closed"}
        /\ order[q].filled \in Nat
    BY <1>1 DEF Answer, Booked, IInv, DataOK, Orders
  <2>2. CASE o \in [status : {"open"}, filled : 0..order[q].filled, price : Figures]
    <3>1. o.status = "open" /\ o.filled \in 0..order[q].filled /\ o.price \in Figures
          /\ o = [status |-> o.status, filled |-> o.filled, price |-> o.price]
      BY <2>2
    <3>2. o.filled \in Nat /\ o.price \in Prices
      BY <2>1, <3>1, FiguresAssumption DEF Prices
    <3>. QED
      BY <3>1, <3>2 DEF Observations, Final
  <2>3. CASE o \in [status : {order[q].status}, filled : {order[q].filled}, price : Figures]
    <3>1. o.status = order[q].status /\ o.filled = order[q].filled /\ o.price \in Figures
          /\ o = [status |-> o.status, filled |-> o.filled, price |-> o.price]
      BY <2>3
    <3>2. o.price \in Prices
      BY <3>1, FiguresAssumption DEF Prices
    <3>. QED
      BY <2>1, <3>1, <3>2 DEF Observations, SameState
  <2>. QED
    BY <1>2, <2>2, <2>3 DEF Views
<1>. DEFINE m == [work[w] EXCEPT !.at = "answered", !.told = o]
<1>4. PICK j \in Work : j = m
  BY <1>1, <1>3 DEF Work, Steps
<1>5. j.at = "answered" /\ j.request = q /\ j.told = o
  BY <1>1, <1>4 DEF Work
<1>6. work' = [work EXCEPT ![w] = j] /\ lock' = w
  BY <1>1, <1>2, <1>4 DEF Answer
<1>7. WorkOK' /\ (JobOK(j)' => JobsOK')
  BY <1>1, <1>5, <1>6, WorkerGoesOn, NoneAssumption DEF IInv, SubmitSteps
<1>8. JobOK(work[w])
  BY DEF IInv, JobsOK
<1>9. JobOK(j)
  BY <1>1, <1>3, <1>5, <1>8 DEF JobOK, Fresh, Reserved, Known, Alone, Funded
<1>10. StateOK' /\ JobOK(j)'
  BY <1>9, StateKept DEF IInv, Answer, broker
<1>11. DataOK'
  BY DEF IInv, DataOK, Answer, broker
<1>. QED
  BY <1>7, <1>10, <1>11 DEF IInv

LEMMA ReserveKeeps ==
  ASSUME IInv, NEW w \in Workers, Reserve(w)
  PROVE  IInv'
PROOF
<1>. DEFINE q == work[w].request
<1>1. At(w, "enabled") /\ work[w] \in Work /\ ~At(w, "idle")
  BY DEF Reserve, At, IInv, WorkOK
<1>2. PICK j \in Work :
        /\ j.at = "reserved" /\ j.request = q /\ q \in Requests
        /\ WorkOK' /\ (JobOK(j)' => JobsOK')
  BY <1>1, Moves DEF Reserve, IInv, At, Steps, SubmitSteps
<1>3. JobOK(work[w])
  BY DEF IInv, JobsOK
<1>4. /\ row[q].state = "absent" /\ Fits(q)
      /\ \A p \in Requests \ {q} : ~Unresolved(p)
  BY <1>1, <1>3 DEF JobOK, At, Fresh, Alone, Funded
<1>5. row \in [Requests -> Rows] /\ work[w].time \in Nat
  BY <1>1 DEF IInv, DataOK, Work
<1>6. /\ row'[q].state = "uncertain" /\ row'[q].seen = None
      /\ \A p \in Requests \ {q} : row'[p] = row[p]
      /\ row' \in [Requests -> Rows]
      /\ order' = order /\ position' = position
  BY <1>2, <1>5 DEF Reserve, Rows, NoRow, broker
<1>7. \A p \in Requests : RowOK(p)
  BY DEF IInv, StateOK
<1>8. order[q].status = "none"
  BY <1>2, <1>4, <1>7 DEF RowOK
<1>9. JobOK(j)'
  BY <1>2, <1>4, <1>6, <1>8 DEF JobOK, Fresh, Reserved, Known, Alone, Funded, Unresolved, Fits, Gross, Owned
<1>10. \A p \in Requests : RowOK(p)'
  BY <1>2, <1>6, <1>7, <1>8 DEF RowOK, Final
<1>11. OneUnresolved'
  BY <1>2, <1>4, <1>6 DEF OneUnresolved, Unresolved
<1>12. AccountWithinLimits'
  BY <1>6 DEF IInv, StateOK, AccountWithinLimits, Live
<1>13. DataOK'
  BY <1>6 DEF IInv, DataOK, Reserve, broker
<1>. QED
  BY <1>2, <1>9, <1>10, <1>11, <1>12, <1>13 DEF IInv, StateOK

LEMMA PostKeeps ==
  ASSUME IInv, NEW w \in Workers, Post(w)
  PROVE  IInv'
PROOF
<1>. DEFINE q == work[w].request
<1>1. At(w, "cleared") /\ work[w] \in Work /\ ~At(w, "idle")
  BY DEF Post, At, IInv, WorkOK
<1>2. PICK j \in Work :
        /\ j.at = "posted" /\ j.request = q /\ q \in Requests
        /\ WorkOK' /\ (JobOK(j)' => JobsOK')
  BY <1>1, Moves DEF Post, IInv, At, Steps, SubmitSteps
<1>3. JobOK(work[w])
  BY DEF IInv, JobsOK
<1>4. /\ row[q].state = "uncertain" /\ row[q].seen = None
      /\ order[q].status = "none" /\ Fits(q)
  BY <1>1, <1>3 DEF JobOK, At, Reserved, Funded
<1>5. \A p \in Requests : RowOK(p)
  BY DEF IInv, StateOK
<1>6. order \in [Requests -> Orders] /\ order[q].filled = 0
  BY <1>2, <1>4, <1>5 DEF IInv, DataOK, RowOK
<1>7. /\ order'[q].status = "flying" /\ order'[q].filled = 0
      /\ \A p \in Requests \ {q} : order'[p] = order[p]
      /\ order' \in [Requests -> Orders]
      /\ row' = row /\ position' = position
  BY <1>2, <1>4, <1>6 DEF Post, Orders
<1>8. JobOK(j)'
  BY <1>2, <1>4, <1>7 DEF JobOK, Fresh, Reserved, Known, Alone, Funded
<1>9. \A p \in Requests : RowOK(p)'
  BY <1>2, <1>4, <1>5, <1>7 DEF RowOK, Final
<1>10. OneUnresolved'
  BY <1>7 DEF IInv, StateOK, OneUnresolved, Unresolved
<1>11. AccountWithinLimits'
  BY <1>2, <1>4, <1>7, AccountAssumption
     DEF IInv, StateOK, AccountWithinLimits, Live, Fits, Gross, Owned
<1>12. DataOK'
  BY <1>2, <1>7 DEF IInv, DataOK, Post
<1>. QED
  BY <1>2, <1>8, <1>9, <1>10, <1>11, <1>12 DEF IInv, StateOK

(* A terminal row accepts nothing but what it says already, so no UPDATE   *)
(* makes a second row unresolved.                                          *)
LEMMA UpdateKeeps ==
  ASSUME IInv, NEW w \in Workers, Update(w)
  PROVE  IInv'
PROOF
<1>. DEFINE q == work[w].request
            o == work[w].told
<1>1. /\ At(w, "answered") /\ ~At(w, "idle") /\ work[w] \in Work
      /\ q \in Requests /\ lock = w
  BY NoneAssumption DEF Update, At, IInv, WorkOK, Work
<1>2. JobOK(work[w])
  BY DEF IInv, JobsOK
<1>3. /\ row[q].state # "absent" /\ o \in Observations /\ o # None
      /\ Final(o) => SameState(o, order[q])
      /\ Priced(o) /\ Consistent(row[q].seen, o)
  BY <1>1, <1>2, NoneAssumption DEF JobOK, At, Known, Observations, Prices, Update, Accepted
<1>4. \A p \in Requests : RowOK(p)
  BY DEF IInv, StateOK
<1>5. row \in [Requests -> Rows] /\ order \in [Requests -> Orders]
  BY DEF IInv, DataOK
<1>6. /\ row'[q].state = IF Final(o) THEN "terminal" ELSE "pending"
      /\ row'[q].seen = o
      /\ \A p \in Requests \ {q} : row'[p] = row[p]
      /\ row' \in [Requests -> Rows]
      /\ order' = order /\ position' = position
  BY <1>1, <1>3, <1>5 DEF Update, Observed, Rows, broker
<1>7. \A p \in Requests : RowOK(p)'
  BY <1>1, <1>3, <1>4, <1>6 DEF RowOK, Final, SameState
<1>8. row'[q].state \in {"uncertain", "pending"} => row[q].state \in {"uncertain", "pending"}
  <2>1. CASE row[q].state = "terminal"
    <3>1. row[q].seen # None /\ Final(row[q].seen)
      BY <1>1, <1>4, <2>1 DEF RowOK, SameState, Final
    <3>2. SameState(o, row[q].seen)
      BY <1>3, <3>1 DEF Consistent
    <3>. QED
      BY <1>6, <3>1, <3>2 DEF SameState, Final
  <2>2. CASE row[q].state # "terminal"
    BY <1>1, <1>3, <1>5, <2>2 DEF Rows
  <2>. QED
    BY <2>1, <2>2
<1>9. OneUnresolved'
  BY <1>1, <1>6, <1>8 DEF IInv, StateOK, OneUnresolved, Unresolved
<1>10. AccountWithinLimits'
  BY <1>6 DEF IInv, StateOK, AccountWithinLimits, Live
<1>11. DataOK'
  BY <1>6 DEF IInv, DataOK, Update, broker
<1>12. WorkOK' /\ JobsOK'
  <2>1. CASE work[w].cancel /\ ~Final(o)
    <3>1. Move(w, "flagging") /\ lock' = lock
      BY <2>1 DEF Update
    <3>2. PICK j \in Work :
            /\ j.at = "flagging" /\ j.request = q
            /\ WorkOK' /\ (JobOK(j)' => JobsOK')
      BY <1>1, <3>1, Moves DEF IInv, Steps, SubmitSteps
    <3>3. JobOK(j)'
      BY <1>6, <3>2 DEF JobOK, Fresh, Reserved, Known, Alone, Funded
    <3>. QED
      BY <3>2, <3>3
  <2>2. CASE ~(work[w].cancel /\ ~Final(o))
    BY <1>1, <2>2, WorkerEnds DEF Update, IInv
  <2>. QED
    BY <2>1, <2>2
<1>. QED
  BY <1>7, <1>9, <1>10, <1>11, <1>12 DEF IInv, StateOK

LEMMA FlagKeeps ==
  ASSUME IInv, NEW w \in Workers, Flag(w)
  PROVE  IInv'
PROOF
<1>. DEFINE q == work[w].request
<1>1. At(w, "flagging") /\ ~At(w, "idle") /\ work[w] \in Work
  BY DEF Flag, At, IInv, WorkOK
<1>2. PICK j \in Work :
        /\ j.at = "deleting" /\ j.request = q /\ q \in Requests
        /\ WorkOK' /\ (JobOK(j)' => JobsOK')
  BY <1>1, Moves DEF Flag, IInv, Steps, SubmitSteps
<1>3. JobOK(work[w])
  BY DEF IInv, JobsOK
<1>4. row[q].state # "absent"
  BY <1>1, <1>3 DEF JobOK, At, Known
<1>5. /\ \A p \in Requests : row'[p].state = row[p].state /\ row'[p].seen = row[p].seen
      /\ row' \in [Requests -> Rows]
      /\ order' = order /\ position' = position
  BY <1>2 DEF Flag, IInv, DataOK, Rows, broker
<1>6. JobOK(j)'
  BY <1>2, <1>4, <1>5 DEF JobOK, Fresh, Reserved, Known, Alone, Funded
<1>7. \A p \in Requests : RowOK(p)'
  BY <1>5 DEF IInv, StateOK, RowOK
<1>8. OneUnresolved'
  BY <1>5 DEF IInv, StateOK, OneUnresolved, Unresolved
<1>9. AccountWithinLimits'
  BY <1>5 DEF IInv, StateOK, AccountWithinLimits, Live
<1>10. DataOK'
  BY <1>5 DEF IInv, DataOK, Flag, broker
<1>. QED
  BY <1>2, <1>6, <1>7, <1>8, <1>9, <1>10 DEF IInv, StateOK

LEMMA EndKeeps ==
  ASSUME IInv, NEW w \in Workers, Delete(w) \/ Refuse(w) \/ Fault(w)
  PROVE  IInv'
PROOF
<1>1. ~At(w, "idle") /\ Release(w)
  BY DEF Delete, Refuse, Fault, Fails, At, AfterReceipt, AfterStop
<1>2. WorkOK' /\ JobsOK'
  BY <1>1, WorkerEnds DEF IInv
<1>3. StateOK'
  BY StateKept DEF IInv, Delete, Refuse, Fault, broker
<1>4. DataOK'
  BY BoundAssumption DEF IInv, DataOK, Delete, Refuse, Fault, broker
<1>. QED
  BY <1>2, <1>3, <1>4 DEF IInv

-----------------------------------------------------------------------------
(* The steps of the broker, the operator and the clock.                    *)

(* While a call relies on being alone, no order of another request is      *)
(* live; its own does not exist before the POST.                           *)
LEMMA BrokerKeepsJobs ==
  ASSUME IInv, NEW q \in Requests, Live(q), work' = work, row' = row,
         \A p \in Requests \ {q} : order'[p] = order[p],
         position' = position \/ \A w \in Workers : work[w].at \notin Funded
  PROVE  JobsOK'
PROOF
<1>. SUFFICES ASSUME NEW w \in Workers PROVE JobOK(work[w])'
  BY DEF JobsOK
<1>1. PICK j \in Work : j = work[w]
  BY DEF IInv, WorkOK
<1>2. JobOK(j) /\ work'[w] = j
  BY <1>1 DEF IInv, JobsOK
<1>3. j.at \in {"answered"} \cup Reserved => j.request \in Requests
  BY <1>1 DEF IInv, WorkOK, At, Work, Reserved
<1>4. JobOK(j)'
  <2>1. j.at \in Reserved => order'[j.request].status = "none"
    BY <1>2, <1>3 DEF JobOK, Live
  <2>2. j.at = "answered" /\ Final(j.told) => SameState(j.told, order'[j.request])
    <3>. SUFFICES ASSUME j.at = "answered", Final(j.told)
                  PROVE  SameState(j.told, order'[j.request])
      OBVIOUS
    <3>1. SameState(j.told, order[j.request]) /\ j.told \in Observations
      BY <1>2 DEF JobOK
    <3>2. ~Live(j.request)
      BY <3>1 DEF Live, Observations, Final, SameState
    <3>. QED
      BY <1>3, <3>1, <3>2
  <2>3. j.at \in Funded => Fits(j.request)'
    BY <1>1, <1>2 DEF JobOK, Fits, Gross, Owned
  <2>. QED
    BY <1>2, <2>1, <2>2, <2>3 DEF JobOK, Unresolved, Final
<1>. QED
  BY <1>2, <1>4

LEMMA NoneFundedBeside ==
  ASSUME IInv, NEW q \in Requests, Live(q), NEW w \in Workers
  PROVE  work[w].at \notin Funded
PROOF
<1>. SUFFICES ASSUME work[w].at \in Funded PROVE FALSE
  OBVIOUS
<1>1. JobOK(work[w]) /\ RowOK(q) /\ Unresolved(q)
  BY LiveIsUnresolved DEF IInv, JobsOK, StateOK
<1>2. q = work[w].request
  BY <1>1 DEF JobOK, Alone
<1>. QED
  BY <1>1, <1>2 DEF JobOK, Funded, Fresh, Reserved, Unresolved, Live

LEMMA BrokerKeeps ==
  ASSUME IInv, NEW q \in Requests, BrokerDecides(q) \/ Close(q)
  PROVE  IInv'
PROOF
<1>1. Live(q) /\ order \in [Requests -> Orders]
  BY DEF BrokerDecides, Close, Live, IInv, DataOK
<1>2. /\ order'[q].status \in {"open", "closed", "lost"}
      /\ order'[q].status \in {"open", "lost"} => order[q].status = "flying"
      /\ order'[q].filled = order[q].filled
      /\ \A p \in Requests \ {q} : order'[p] = order[p]
      /\ order' \in [Requests -> Orders]
      /\ row' = row /\ position' = position /\ work' = work /\ lock' = lock
  BY <1>1 DEF BrokerDecides, Close, Orders
<1>3. \A p \in Requests : RowOK(p)
  BY DEF IInv, StateOK
<1>4. Unresolved(q)
  BY <1>1, <1>3, LiveIsUnresolved DEF IInv
<1>5. JobsOK'
  BY <1>1, <1>2, BrokerKeepsJobs
<1>6. Qty[q] \in Nat \ {0}
  BY AccountAssumption
<1>7. \A p \in Requests : RowOK(p)'
  BY <1>2, <1>3, <1>4, <1>6 DEF RowOK, Unresolved, Final
<1>8. OneUnresolved'
  BY <1>2 DEF IInv, StateOK, OneUnresolved, Unresolved
<1>9. AccountWithinLimits'
  BY <1>1, <1>2 DEF IInv, StateOK, AccountWithinLimits, Live
<1>10. WorkOK' /\ DataOK'
  BY <1>2 DEF IInv, WorkOK, DataOK, At, BrokerDecides, Close
<1>. QED
  BY <1>5, <1>7, <1>8, <1>9, <1>10 DEF IInv, StateOK

(* The one live order fills a unit of what the account was found to bear.  *)
LEMMA FillKeeps ==
  ASSUME IInv, NEW q \in Requests, Fill(q)
  PROVE  IInv'
PROOF
<1>1. /\ Live(q) /\ order[q].status = "open"
      /\ order \in [Requests -> Orders] /\ position \in Nat
      /\ Qty[q] \in Nat /\ order[q].filled \in Nat /\ MaxGross \in Nat
  BY AccountAssumption DEF Fill, Live, IInv, DataOK, Orders
<1>2. \A p \in Requests : RowOK(p)
  BY DEF IInv, StateOK
<1>3. Unresolved(q) /\ order[q].filled < Qty[q]
  BY <1>1, <1>2, LiveIsUnresolved DEF IInv, RowOK
<1>4. /\ order'[q].status = IF order[q].filled + 1 = Qty[q] THEN "filled" ELSE "open"
      /\ order'[q].filled = order[q].filled + 1
      /\ \A p \in Requests \ {q} : order'[p] = order[p]
      /\ order' \in [Requests -> Orders]
      /\ row' = row /\ work' = work /\ lock' = lock
      /\ position' = IF q \in Buys THEN position + 1 ELSE position - 1
  BY <1>1 DEF Fill, Orders
<1>5. \A p \in Requests \ {q} : ~Live(p)
  <2>. SUFFICES ASSUME NEW p \in Requests \ {q}, Live(p) PROVE FALSE
    OBVIOUS
  <2>1. Unresolved(p)
    BY <1>2, LiveIsUnresolved DEF IInv
  <2>. QED
    BY <1>3, <2>1 DEF IInv, StateOK, OneUnresolved
<1>6. IF q \in Buys THEN position + (Qty[q] - order[q].filled) <= MaxGross
                    ELSE Qty[q] - order[q].filled <= position
  BY <1>1 DEF IInv, StateOK, AccountWithinLimits
<1>7. AccountWithinLimits'
  BY <1>1, <1>4, <1>5, <1>6 DEF AccountWithinLimits, Live
<1>8. position' \in Nat
  BY <1>1, <1>3, <1>4, <1>6
<1>9. \A p \in Requests : RowOK(p)'
  <2>. SUFFICES ASSUME NEW p \in Requests PROVE RowOK(p)'
    OBVIOUS
  <2>1. CASE p = q
    BY <1>1, <1>2, <1>3, <1>4, <2>1 DEF RowOK, Unresolved
  <2>2. CASE p # q
    BY <1>2, <1>4, <2>2 DEF RowOK, Final
  <2>. QED
    BY <2>1, <2>2
<1>10. OneUnresolved'
  BY <1>4 DEF IInv, StateOK, OneUnresolved, Unresolved
<1>11. JobsOK'
  BY <1>1, <1>4, BrokerKeepsJobs, NoneFundedBeside
<1>12. WorkOK' /\ DataOK'
  BY <1>4, <1>8 DEF IInv, WorkOK, DataOK, At, Fill
<1>. QED
  BY <1>7, <1>9, <1>10, <1>11, <1>12 DEF IInv, StateOK

LEMMA SurroundingsKeep ==
  ASSUME IInv, SetStop \/ ClockMoves \/ UNCHANGED vars
  PROVE  IInv'
PROOF
<1>1. /\ row' = row /\ order' = order /\ position' = position
      /\ work' = work /\ lock' = lock
  BY DEF SetStop, ClockMoves, vars, broker
<1>2. WorkOK' /\ DataOK'
  BY <1>1 DEF IInv, WorkOK, DataOK, At, SetStop, ClockMoves, vars
<1>3. StateOK'
  BY <1>1, StateKept DEF IInv
<1>4. JobsOK'
  BY <1>1 DEF IInv, JobsOK, JobOK, Unresolved, Fits, Gross, Owned
<1>. QED
  BY <1>2, <1>3, <1>4 DEF IInv

-----------------------------------------------------------------------------
(* The theorems. *)

LEMMA InitEstablishes == Init => IInv
PROOF
<1>. SUFFICES ASSUME Init PROVE IInv
  OBVIOUS
<1>1. WorkOK
  BY NoneAssumption DEF Init, WorkOK, Idle, Work, Steps, SubmitSteps, At
<1>2. DataOK
  <2>1. NoRow \in Rows /\ NoOrder \in Orders
    BY DEF NoRow, Rows, NoOrder, Orders
  <2>2. row \in [Requests -> Rows] /\ order \in [Requests -> Orders]
    BY <2>1 DEF Init
  <2>3. posts \in Seq([request : Requests, at : 0..MaxClock])
    <3>1. \A S : <<>> \in Seq(S)
      OBVIOUS
    <3>. QED
      BY <3>1, Zenon DEF Init
  <2>4. stop \in BOOLEAN /\ now = 0 /\ position = Held /\ faults = 0
    BY DEF Init
  <2>. QED
    BY <2>2, <2>3, <2>4, AccountAssumption, BoundAssumption DEF DataOK
<1>3. \A q \in Requests : row[q] = NoRow /\ order[q] = NoOrder
  BY DEF Init
<1>4. NoRow.state = "absent" /\ NoRow.seen = None /\ NoOrder.status = "none" /\ NoOrder.filled = 0
  BY DEF NoRow, NoOrder
<1>5. StateOK
  <2>1. \A q \in Requests : RowOK(q)
    BY <1>3, <1>4 DEF RowOK
  <2>2. OneUnresolved /\ AccountWithinLimits
    BY <1>3, <1>4 DEF OneUnresolved, Unresolved, AccountWithinLimits, Live
  <2>. QED
    BY <2>1, <2>2 DEF StateOK
<1>6. JobsOK
  BY DEF Init, JobsOK, JobOK, Idle, Fresh, Reserved, Known, Alone, Funded
<1>. QED
  BY <1>1, <1>2, <1>5, <1>6 DEF IInv

LEMMA StepKeeps == IInv /\ [Next]_vars => IInv'
PROOF
<1>. SUFFICES ASSUME IInv, [Next]_vars PROVE IInv'
  OBVIOUS
<1>1. ASSUME NEW w \in Workers, Step(w) \/ Fault(w) PROVE IInv'
  BY <1>1, CheckKeeps, DateKeeps, ReserveKeeps, PostKeeps, AnswerKeeps, UpdateKeeps,
     FlagKeeps, EndKeeps DEF Step
<1>2. ASSUME NEW q \in Requests, BrokerDecides(q) \/ Fill(q) \/ Close(q) PROVE IInv'
  BY <1>2, BrokerKeeps, FillKeeps
<1>. QED
  BY <1>1, <1>2, SubmitKeeps, InspectKeeps, SurroundingsKeep DEF Next

THEOREM Inductive == Spec => []IInv
PROOF
  BY InitEstablishes, StepKeeps, PTL DEF Spec

(* The variables keep their types and the lock its one holder; that the    *)
(* position stays a natural number is already that nothing is sold short.  *)
THEOREM TypeCorrect == Spec => []TypeOK
PROOF
<1>1. IInv => TypeOK
  BY TypeParts DEF IInv
<1>. QED
  BY <1>1, Inductive, PTL

(* Filling what is on its way or open takes the account past no limit.     *)
THEOREM AccountSafe == Spec => []AccountWithinLimits
PROOF
<1>1. IInv => AccountWithinLimits
  BY DEF IInv, StateOK
<1>. QED
  BY <1>1, Inductive, PTL

(* A terminal row is the broker's last word.                               *)
THEOREM TerminalHolds == Spec => []TerminalIsFinal
PROOF
<1>1. IInv => TerminalIsFinal
  BY DEF IInv, StateOK, RowOK, TerminalIsFinal
<1>. QED
  BY <1>1, Inductive, PTL

(* Wherever a call was cut off, the offline reader (live_journal._record)  *)
(* refuses a row for the broker's figures only: an average price at or     *)
(* below zero, which _observation lets pass while nothing is filled, or a  *)
(* figure that is too long.  It never refuses one for its state.           *)
THEOREM ReaderRefusesFiguresOnly ==
  Spec => [](\A q \in Recorded :
               Readable(row[q]) <=> \/ row[q].seen = None
                                    \/ row[q].seen.price \in {"none", "good"})
PROOF
<1>1. ASSUME IInv
      PROVE  \A q \in Recorded :
               Readable(row[q]) <=> \/ row[q].seen = None
                                    \/ row[q].seen.price \in {"none", "good"}
  <2>. SUFFICES ASSUME NEW q \in Recorded
                PROVE  Readable(row[q]) <=> \/ row[q].seen = None
                                            \/ row[q].seen.price \in {"none", "good"}
    OBVIOUS
  <2>1. /\ row[q] \in Rows /\ RowOK(q) /\ row[q].state # "absent"
    BY <1>1 DEF IInv, StateOK, DataOK, Recorded
  <2>2. CASE row[q].seen = None
    BY <2>1, <2>2 DEF RowOK, Readable
  <2>3. CASE row[q].seen # None
    <3>1. row[q].seen.price \in Prices
      BY <2>1, <2>3 DEF Rows, Observations
    <3>. QED
      BY <2>1, <2>3, <3>1 DEF RowOK, Readable, Priced, Prices
  <2>. QED
    BY <2>2, <2>3
<1>. QED
  BY <1>1, Inductive, PTL

(* No answer, however old, takes back what the journal knows.              *)
Kept(q) ==
  /\ row[q].seen # None => row'[q].seen # None /\ Consistent(row[q].seen, row'[q].seen)
  /\ row[q].state = "terminal" => row'[q].state = "terminal"

LEMMA RowsKept ==
  ASSUME IInv, Next, NEW q \in Requests
  PROVE  Kept(q)
PROOF
<1>1. row \in [Requests -> Rows] /\ RowOK(q)
  BY DEF IInv, DataOK, StateOK
<1>2. Consistent(row[q].seen, row[q].seen)
  BY <1>1, NoneAssumption DEF Consistent, Rows, Observations, SameState
<1>3. CASE row' = row
  BY <1>2, <1>3 DEF Kept
<1>4. ASSUME NEW w \in Workers, Reserve(w) PROVE Kept(q)
  <2>1. row[work[w].request].state = "absent"
    BY <1>4 DEF Reserve, IInv, JobsOK, JobOK, Fresh, At
  <2>2. CASE q = work[w].request
    BY <1>1, <2>1, <2>2 DEF RowOK, Kept
  <2>3. CASE q # work[w].request
    <3>1. row'[q] = row[q]
      BY <1>1, <1>4, <2>3 DEF Reserve
    <3>. QED
      BY <1>2, <3>1 DEF Kept
  <2>. QED
    BY <2>2, <2>3
<1>5. ASSUME NEW w \in Workers, Update(w) PROVE Kept(q)
  <2>1. CASE q = work[w].request
    <3>1. work[w].told \in Observations
      BY <1>5 DEF Update, IInv, JobsOK, JobOK, At
    <3>2. row'[q].seen = work[w].told /\ (Final(work[w].told) => row'[q].state = "terminal")
      BY <1>1, <1>5, <2>1 DEF Update, Observed, Rows
    <3>3. Consistent(row[q].seen, work[w].told)
      BY <1>5, <2>1 DEF Update, Accepted
    <3>4. row[q].state = "terminal" =>
            row[q].seen # None /\ Final(row[q].seen)
      BY <1>1 DEF RowOK, SameState, Final
    <3>5. row[q].state = "terminal" => SameState(work[w].told, row[q].seen)
      BY <3>3, <3>4 DEF Consistent
    <3>. QED
      BY <3>1, <3>2, <3>3, <3>4, <3>5, NoneAssumption
      DEF Kept, Observations, Prices, SameState, Final
  <2>2. CASE q # work[w].request
    <3>1. row'[q] = row[q]
      BY <1>1, <1>5, <2>2 DEF Update
    <3>. QED
      BY <1>2, <3>1 DEF Kept
  <2>. QED
    BY <2>1, <2>2
<1>6. ASSUME NEW w \in Workers, Flag(w) PROVE Kept(q)
  <2>1. row'[q].seen = row[q].seen /\ row'[q].state = row[q].state
    BY <1>1, <1>6 DEF Flag, Rows
  <2>. QED
    BY <1>2, <2>1 DEF Kept
<1>7. row' = row \/ \E w \in Workers : Reserve(w) \/ Update(w) \/ Flag(w)
  BY DEF Next, Step, Submit, Inspect, Validate, Enable, Date, NoOpenOrders, Fund, Post,
         Answer, Delete, Refuse, Fault, BrokerDecides, Fill, Close, SetStop, ClockMoves
<1>. QED
  BY <1>3, <1>4, <1>5, <1>6, <1>7

THEOREM NeverRegresses == Spec => ObservationNeverRegresses
PROOF
<1>1. IInv /\ [Next]_vars => [\A q \in Requests : Kept(q)]_vars
  BY RowsKept
<1>. QED
  BY <1>1, Inductive, PTL DEF Spec, ObservationNeverRegresses, Kept

-----------------------------------------------------------------------------
(* LiveConnector implements LiveAccount.                                   *)

(* The abstract state of every request, before and after a step.           *)
StatusOf == [q \in Requests |-> AccountStatus(order[q])]
FilledOf == [q \in Requests |-> order[q].filled]

LEMMA LiveMeansLive ==
  ASSUME DataOK, NEW q \in Requests
  PROVE  StatusOf[q] = "live" <=> Live(q)
PROOF
  BY DEF StatusOf, AccountStatus, Live, DataOK, Orders

LEMMA PostSends ==
  ASSUME IInv, NEW w \in Workers, Post(w)
  PROVE  Account!Next
PROOF
<1>. DEFINE q == work[w].request
<1>1. At(w, "cleared") /\ JobOK(work[w])
  BY DEF Post, IInv, JobsOK
<1>2. q \in Requests
  BY <1>1 DEF IInv, WorkOK, At, Work
<1>3. /\ order[q].status = "none" /\ Fits(q)
      /\ \A p \in Requests \ {q} : ~Unresolved(p)
  BY <1>1 DEF JobOK, At, Reserved, Funded, Alone
<1>4. \A p \in Requests : StatusOf[p] # "live"
  <2>1. \A p \in Requests : ~Live(p)
    BY <1>3, LiveIsUnresolved DEF IInv, StateOK, Live
  <2>. QED
    BY <2>1, LiveMeansLive DEF IInv
<1>5. StatusOf[q] = "none"
  BY <1>2, <1>3 DEF StatusOf, AccountStatus
<1>6. order' = [order EXCEPT ![q].status = "flying"] /\ order \in [Requests -> Orders]
  BY <1>3 DEF Post, IInv, DataOK
<1>7. StatusOf' = [StatusOf EXCEPT ![q] = "live"]
  BY <1>2, <1>6 DEF StatusOf, AccountStatus, Orders
<1>8. FilledOf' = FilledOf /\ position' = position
  BY <1>2, <1>6 DEF FilledOf, Orders, Post
<1>9. Account!Send(q)
  BY <1>3, <1>4, <1>5, <1>7, <1>8 DEF Account!Send, Account!Fits, Fits, Gross, Owned, StatusOf, FilledOf
<1>. QED
  BY <1>2, <1>9 DEF Account!Next

LEMMA BrokerEnds ==
  ASSUME IInv, NEW q \in Requests, BrokerDecides(q) \/ Close(q)
  PROVE  Account!Next \/ UNCHANGED <<StatusOf, FilledOf, position>>
PROOF
<1>1. Live(q) /\ order \in [Requests -> Orders]
  BY DEF BrokerDecides, Close, Live, IInv, DataOK
<1>2. StatusOf[q] = "live"
  BY <1>1, LiveMeansLive DEF IInv
<1>3. PICK s \in {"open", "closed", "lost"} : order' = [order EXCEPT ![q].status = s]
  BY DEF BrokerDecides, Close
<1>4. StatusOf' = [StatusOf EXCEPT ![q] = IF s = "open" THEN "live" ELSE "over"]
  BY <1>1, <1>3 DEF StatusOf, AccountStatus, Orders
<1>5. FilledOf' = FilledOf /\ position' = position
  BY <1>1, <1>3 DEF FilledOf, Orders, BrokerDecides, Close
<1>6. CASE s = "open"
  <2>1. StatusOf' = StatusOf
    BY <1>2, <1>4, <1>6 DEF StatusOf
  <2>. QED
    BY <1>5, <2>1
<1>7. CASE s # "open"
  <2>1. Account!End(q)
    BY <1>2, <1>4, <1>5, <1>7 DEF Account!End, StatusOf, FilledOf
  <2>. QED
    BY <2>1 DEF Account!Next
<1>. QED
  BY <1>6, <1>7

LEMMA FillFills ==
  ASSUME IInv, NEW q \in Requests, Fill(q)
  PROVE  Account!Next
PROOF
<1>1. Live(q) /\ order[q].status = "open" /\ order \in [Requests -> Orders] /\ RowOK(q)
  BY DEF Fill, Live, IInv, DataOK, StateOK
<1>2. StatusOf[q] = "live"
  BY <1>1, LiveMeansLive DEF IInv
<1>3. FilledOf[q] = order[q].filled /\ FilledOf[q] < Qty[q]
  BY <1>1 DEF FilledOf, RowOK
<1>4. StatusOf' = [StatusOf EXCEPT ![q] = IF FilledOf[q] + 1 = Qty[q] THEN "over" ELSE "live"]
  BY <1>1, <1>3 DEF StatusOf, AccountStatus, Fill, Orders
<1>5. FilledOf' = [FilledOf EXCEPT ![q] = @ + 1]
  BY <1>1 DEF FilledOf, Fill, Orders
<1>6. position' = IF q \in Buys THEN position + 1 ELSE position - 1
  BY DEF Fill
<1>7. Account!Fill(q)
  BY <1>2, <1>3, <1>4, <1>5, <1>6 DEF Account!Fill, StatusOf, FilledOf
<1>. QED
  BY <1>7 DEF Account!Next

LEMMA OthersStutter ==
  ASSUME UNCHANGED <<order, position>>
  PROVE  UNCHANGED <<StatusOf, FilledOf, position>>
PROOF
  BY DEF StatusOf, FilledOf, AccountStatus

LEMMA StepImplements ==
  ASSUME IInv, [Next]_vars
  PROVE  Account!Next \/ UNCHANGED <<StatusOf, FilledOf, position>>
PROOF
<1>1. CASE \E w \in Workers : Post(w)
  BY <1>1, PostSends
<1>2. CASE \E q \in Requests : BrokerDecides(q) \/ Fill(q) \/ Close(q)
  BY <1>2, BrokerEnds, FillFills
<1>3. CASE UNCHANGED <<order, position>>
  BY <1>3, OthersStutter
<1>4. \/ \E w \in Workers : Post(w)
      \/ \E q \in Requests : BrokerDecides(q) \/ Fill(q) \/ Close(q)
      \/ UNCHANGED <<order, position>>
  BY DEF Next, Step, Submit, Inspect, Validate, Enable, Date, NoOpenOrders, Fund,
         Reserve, Answer, Update, Flag, Delete, Refuse, Fault, SetStop, ClockMoves,
         broker, vars
<1>. QED
  BY <1>1, <1>2, <1>3, <1>4

(* The broker's account moves only as LiveAccount allows: a request is     *)
(* sent once, alone, and only when it fits.                                *)
THEOREM Refinement == Spec => ImplementsLiveAccount
PROOF
<1>1. Init => Account!Init
  BY DEF Init, NoOrder, AccountStatus, Account!Init
<1>2. IInv /\ [Next]_vars =>
        [Account!Next]_<<[q \in Requests |-> AccountStatus(order[q])],
                         [q \in Requests |-> order[q].filled], position>>
  BY StepImplements DEF StatusOf, FilledOf
<1>. QED
  BY <1>1, <1>2, Inductive, PTL DEF Spec, ImplementsLiveAccount, Account!Spec

(***************************************************************************)
(* The attempts and the POSTs of a day.                                    *)
(*                                                                         *)
(* The INSERT carries the date of an earlier reading of the clock, so the  *)
(* daily limit counts attempts by that date, while a POST happens whenever *)
(* it happens.  CountOK is the limit as the journal counts it, and holds   *)
(* on any clock.  DatesOK and PostsOK relate the two if no clock goes back:*)
(* whatever was posted was posted before the attempt under way was dated,  *)
(* so of the orders posted on a day only the first can be of an earlier    *)
(* date.                                                                   *)
(***************************************************************************)
Dated == {"dated", "unencumbered", "funded", "revalidated", "enabled"}

CountOK ==
  /\ IsFiniteSet(Recorded)
  /\ \A d \in Nat : Cardinality(AttemptsOn(d)) <= MaxDaily
  /\ \A w \in Workers :
       work[w].at \in Dated => Cardinality(AttemptsOn(Day(work[w].time))) < MaxDaily

PostedBy(t) == \A i \in DOMAIN posts : posts[i].at <= t
Between(t)  == t <= now /\ PostedBy(t)
SentOn(d)   == {q \in AttemptsOn(d) : order[q].status # "none"}

DatesOK ==
  /\ PostedBy(now)
  /\ \A w \in Workers :
       /\ work[w].at \in Dated => Between(work[w].time)
       /\ work[w].at \in Reserved => Between(row[work[w].request].at)

PostsOK == \A d \in Nat : Cardinality(PostsOn(d)) <= Cardinality(SentOn(d)) + 1

LEMMA DayMonotone ==
  ASSUME NEW a \in Nat, NEW b \in Nat, a <= b
  PROVE  Day(a) \in Nat /\ Day(b) \in Nat /\ Day(a) <= Day(b)
PROOF
  BY BoundAssumption DEF Day

(* Of a row, only the INSERT sets the date, and it makes a row of none.    *)
LEMMA DatesKept ==
  ASSUME IInv, [Next]_vars, NEW q \in Requests,
         \A w \in Workers : ~(Reserve(w) /\ work[w].request = q)
  PROVE  /\ row'[q].at = row[q].at
         /\ row'[q].state = "absent" <=> row[q].state = "absent"
PROOF
<1>1. row \in [Requests -> Rows]
  BY DEF IInv, DataOK
<1>2. ASSUME NEW w \in Workers, Reserve(w)
      PROVE  row'[q] = row[q]
  BY <1>1, <1>2 DEF Reserve
<1>3. ASSUME NEW w \in Workers, Update(w)
      PROVE  /\ row'[q].at = row[q].at
             /\ row'[q].state = "absent" <=> row[q].state = "absent"
  <2>1. row[work[w].request].state # "absent"
    BY <1>3 DEF Update, IInv, JobsOK, JobOK, Known, At
  <2>. QED
    BY <1>1, <1>3, <2>1 DEF Update, Observed, Rows
<1>4. ASSUME NEW w \in Workers, Flag(w)
      PROVE  row'[q].at = row[q].at /\ row'[q].state = row[q].state
  BY <1>1, <1>4 DEF Flag, Rows
<1>5. row' = row \/ \E w \in Workers : Reserve(w) \/ Update(w) \/ Flag(w)
  BY DEF Next, Step, Submit, Inspect, Validate, Enable, Date, NoOpenOrders, Fund, Post,
         Answer, Delete, Refuse, Fault, BrokerDecides, Fill, Close, SetStop, ClockMoves,
         vars
<1>. QED
  BY <1>2, <1>3, <1>4, <1>5

(* An order once sent never counts as unsent, and only the POST sends one. *)
LEMMA SentKept ==
  ASSUME IInv, [Next]_vars, NEW q \in Requests
  PROVE  /\ order[q].status # "none" => order'[q].status # "none"
         /\ (\A w \in Workers : ~Post(w)) =>
              posts' = posts /\ (order'[q].status # "none" => order[q].status # "none")
PROOF
<1>1. order \in [Requests -> Orders]
  BY DEF IInv, DataOK
<1>2. ASSUME NEW w \in Workers, Post(w)
      PROVE  order[q].status # "none" => order'[q].status # "none"
  BY <1>1, <1>2 DEF Post, Orders
<1>3. ASSUME NEW p \in Requests, BrokerDecides(p) \/ Fill(p) \/ Close(p)
      PROVE  posts' = posts /\ (order[q].status # "none" <=> order'[q].status # "none")
  BY <1>1, <1>3 DEF BrokerDecides, Fill, Close, Orders
<1>4. \/ \E w \in Workers : Post(w)
      \/ \E p \in Requests : BrokerDecides(p) \/ Fill(p) \/ Close(p)
      \/ order' = order /\ posts' = posts
  BY DEF Next, Step, Submit, Inspect, Validate, Enable, Date, NoOpenOrders, Fund,
         Reserve, Answer, Update, Flag, Delete, Refuse, Fault, SetStop, ClockMoves,
         broker, vars
<1>. QED
  BY <1>2, <1>3, <1>4

(* A submission keeps the date of its own reading, and its request, until  *)
(* it is posted.                                                           *)
LEMMA WorkMoves ==
  ASSUME IInv, [Next]_vars, NEW w \in Workers
  PROVE  /\ work'[w].at \in Dated =>
              \/ Date(w) /\ work'[w].time = now
              \/ work[w].at \in Dated /\ work'[w].time = work[w].time
         /\ work'[w].at \in Reserved =>
              /\ Reserve(w) \/ work[w].at \in Reserved
              /\ work'[w].request = work[w].request
PROOF
<1>1. work \in [Workers -> Work] /\ work[w] \in Work
  BY DEF IInv, WorkOK
<1>2. CASE work'[w] = work[w]
  BY <1>2 DEF Dated, Reserved
<1>3. CASE Date(w)
  <2>1. work'[w].at = "dated" /\ work'[w].time = now
    BY <1>1, <1>3 DEF Date, Work
  <2>. QED
    BY <1>3, <2>1 DEF Reserved
<1>4. CASE Validate(w) \/ Enable(w) \/ NoOpenOrders(w) \/ Fund(w) \/ Reserve(w)
  <2>1. /\ work'[w].request = work[w].request /\ work'[w].time = work[w].time
        /\ \/ work[w].at = "opened" /\ work'[w].at = "valid"
           \/ work[w].at \in Dated /\ work'[w].at \in Dated
           \/ Reserve(w) /\ work'[w].at = "reserved"
           \/ work[w].at \in Reserved /\ work'[w].at \in Reserved
    BY <1>1, <1>4 DEF Validate, Enable, NoOpenOrders, Fund, Reserve, Move, At,
       AfterReceipt, AfterStop, Work, Dated, Reserved
  <2>. QED
    BY <2>1 DEF Dated, Reserved
<1>5. CASE work'[w].at \in {"idle", "opened", "asking"} \cup Known
  BY <1>5 DEF Dated, Reserved, Known
<1>6. CASE Release(w)
  BY <1>1, <1>5, <1>6 DEF Release, Idle
<1>7. ASSUME Step(w) \/ Fault(w)
      PROVE  \/ Date(w) \/ Release(w) \/ work'[w].at \in Known
             \/ Validate(w) \/ Enable(w) \/ NoOpenOrders(w) \/ Fund(w) \/ Reserve(w)
  <2>1. CASE Post(w) \/ Flag(w)
    BY <1>1, <2>1 DEF Post, Flag, Move, Known, Work
  <2>2. CASE Answer(w)
    BY <1>1, <2>2 DEF Answer, Known, Work
  <2>3. CASE Update(w)
    BY <1>1, <2>3 DEF Update, Move, Known, Work
  <2>. QED
    BY <1>7, <2>1, <2>2, <2>3 DEF Step, Delete, Refuse, Fault
<1>8. ASSUME NEW r \in Receipts, Submit(w, r) PROVE work'[w].at = "opened"
  BY <1>1, <1>8 DEF Submit, Acquire, Idle
<1>9. ASSUME NEW q \in Requests, NEW c \in BOOLEAN, Inspect(w, q, c)
      PROVE  work'[w].at = "asking"
  BY <1>1, <1>9 DEF Inspect, Acquire, Idle
<1>10. ASSUME NEW v \in Workers \ {w},
              \/ \E r \in Receipts : Submit(v, r)
              \/ \E q \in Requests, c \in BOOLEAN : Inspect(v, q, c)
              \/ Step(v) \/ Fault(v)
       PROVE  work'[w] = work[w]
  BY <1>1, <1>10 DEF Submit, Inspect, Acquire, Step, Validate, Enable, Date, NoOpenOrders,
     Fund, Reserve, Post, Answer, Update, Flag, Delete, Refuse, Fault, Move, Release
<1>11. CASE \/ \E q \in Requests : BrokerDecides(q) \/ Fill(q) \/ Close(q)
            \/ SetStop \/ ClockMoves \/ UNCHANGED vars
  BY <1>2, <1>11 DEF BrokerDecides, Fill, Close, SetStop, ClockMoves, vars
<1>. QED
  BY <1>2, <1>3, <1>4, <1>5, <1>6, <1>7, <1>8, <1>9, <1>10, <1>11 DEF Next

(* The lock makes the calls one: while one is under way the others idle.   *)
LEMMA OneCall ==
  ASSUME IInv, NEW v \in Workers, NEW w \in Workers,
         work[v].at # "idle", work[w].at # "idle"
  PROVE  v = w
PROOF
  BY DEF IInv, WorkOK, At

LEMMA OneMore ==
  ASSUME NEW S, IsFiniteSet(S), NEW x
  PROVE  /\ IsFiniteSet(S \cup {x})
         /\ Cardinality(S) \in Nat /\ Cardinality(S \cup {x}) \in Nat
         /\ Cardinality(S \cup {x}) <= Cardinality(S) + 1
         /\ x \notin S => Cardinality(S \cup {x}) = Cardinality(S) + 1
PROOF
<1>1. /\ IsFiniteSet(S \cup {x})
      /\ Cardinality(S \cup {x}) = IF x \in S THEN Cardinality(S) ELSE Cardinality(S) + 1
  BY FS_AddElement
<1>2. Cardinality(S) \in Nat
  BY FS_CardinalityType
<1>3. Cardinality(S \cup {x}) \in Nat
  BY <1>1, FS_CardinalityType
<1>. QED
  BY <1>1, <1>2, <1>3

(* The limit, as the journal counts: the reading that dates an attempt     *)
(* finds room for one more on its day, and until the INSERT nobody writes. *)
LEMMA ReserveCounts ==
  ASSUME IInv, CountOK, NEW w \in Workers, Reserve(w), [Next]_vars
  PROVE  CountOK'
PROOF
<1>. DEFINE q == work[w].request
            t == work[w].time
<1>1. work[w].at = "enabled" /\ work[w] \in Work /\ q \in Requests /\ t \in Nat
  BY DEF Reserve, At, IInv, WorkOK, Work
<1>2. row[q].state = "absent" /\ row \in [Requests -> Rows]
  BY <1>1 DEF IInv, JobsOK, JobOK, Fresh, DataOK
<1>3. row'[q].state = "uncertain" /\ row'[q].at = t
  BY <1>1, <1>2 DEF Reserve, NoRow, Rows
<1>4. \A p \in Requests \ {q} : row'[p] = row[p]
  BY <1>1, <1>2 DEF Reserve
<1>5. Recorded' = Recorded \cup {q}
  BY <1>1, <1>2, <1>3, <1>4 DEF Recorded
<1>6. IsFiniteSet(Recorded')
  BY <1>5, FS_AddElement DEF CountOK
<1>7. Cardinality(AttemptsOn(Day(t))) < MaxDaily /\ MaxDaily \in Nat
  BY <1>1, BoundAssumption DEF CountOK, Dated
<1>8. ASSUME NEW d \in Nat
      PROVE  Cardinality(AttemptsOn(d)') <= MaxDaily
  <2>1. IsFiniteSet(AttemptsOn(d))
    BY FS_Subset DEF CountOK, AttemptsOn
  <2>2. CASE Day(t) = d
    <3>1. AttemptsOn(d)' = AttemptsOn(d) \cup {q}
      BY <1>1, <1>2, <1>3, <1>4, <1>5, <2>2 DEF AttemptsOn, Recorded
    <3>2. Cardinality(AttemptsOn(d) \cup {q}) <= Cardinality(AttemptsOn(d)) + 1
      BY <2>1, OneMore
    <3>3. Cardinality(AttemptsOn(d)) \in Nat /\ Cardinality(AttemptsOn(d) \cup {q}) \in Nat
      BY <2>1, OneMore
    <3>. QED
      BY <1>7, <2>2, <3>1, <3>2, <3>3
  <2>3. CASE Day(t) # d
    <3>1. AttemptsOn(d)' = AttemptsOn(d)
      BY <1>1, <1>2, <1>3, <1>4, <1>5, <2>3 DEF AttemptsOn, Recorded
    <3>. QED
      BY <3>1 DEF CountOK
  <2>. QED
    BY <2>2, <2>3
<1>9. ASSUME NEW v \in Workers, work'[v].at \in Dated PROVE FALSE
  <2>1. work[v].at # "idle"
    BY <1>9, WorkMoves DEF Date, At, Dated
  <2>2. v = w
    BY <1>1, <2>1, OneCall
  <2>3. work'[w].at = "reserved"
    BY <1>1 DEF Reserve, Move, IInv, WorkOK, Work
  <2>. QED
    BY <1>9, <2>2, <2>3 DEF Dated
<1>. QED
  BY <1>6, <1>8, <1>9 DEF CountOK

LEMMA CountKept ==
  ASSUME IInv, CountOK, [Next]_vars
  PROVE  CountOK'
PROOF
<1>1. CASE \E w \in Workers : Reserve(w)
  BY <1>1, ReserveCounts
<1>2. CASE \A w \in Workers : ~Reserve(w)
  <2>1. \A q \in Requests : /\ row'[q].at = row[q].at
                            /\ row'[q].state = "absent" <=> row[q].state = "absent"
    BY <1>2, DatesKept
  <2>2. Recorded' = Recorded
    BY <2>1 DEF Recorded
  <2>3. \A d : {q \in Recorded' : Day(row'[q].at) = d} = {q \in Recorded : Day(row[q].at) = d}
    BY <2>1, <2>2 DEF Recorded
  <2>4. ASSUME NEW d \in Nat
        PROVE  Cardinality(AttemptsOn(d)') <= MaxDaily
    BY <2>3 DEF AttemptsOn, CountOK
  <2>5. ASSUME NEW w \in Workers, work'[w].at \in Dated
        PROVE  Cardinality({q \in Recorded' : Day(row'[q].at) = Day(work'[w].time)}) < MaxDaily
    <3>. DEFINE t == work'[w].time
    <3>1. Cardinality({q \in Recorded : Day(row[q].at) = Day(t)}) < MaxDaily
      <4>1. CASE Date(w) /\ work'[w].time = now
        BY <4>1 DEF Date, Admissible, AttemptsOn
      <4>2. CASE work[w].at \in Dated /\ work'[w].time = work[w].time
        BY <4>2 DEF CountOK, AttemptsOn
      <4>. QED
        BY <2>5, <4>1, <4>2, WorkMoves
    <3>. QED
      BY <2>3, <3>1
  <2>6. \A w \in Workers :
          work'[w].at \in Dated => Cardinality(AttemptsOn(Day(work[w].time))') < MaxDaily
    BY <2>5 DEF AttemptsOn, Recorded, Day
  <2>. QED
    BY <2>2, <2>4, <2>6 DEF CountOK
<1>. QED
  BY <1>1, <1>2

LEMMA PostTypes ==
  ASSUME DataOK, NEW i \in DOMAIN posts
  PROVE  posts[i].request \in Requests /\ posts[i].at \in Nat
PROOF
<1>. DEFINE P == [request : Requests, at : 0..MaxClock]
<1>1. posts \in Seq(P)
  BY DEF DataOK
<1>. HIDE DEF P
<1>2. posts[i] \in P
  BY <1>1
<1>. QED
  BY <1>2, BoundAssumption DEF P

(* Time passes over what was posted and dated without overtaking it.       *)
LEMMA DatesStep ==
  ASSUME IInv, DatesOK, ~ClockSetBack, [Next]_vars
  PROVE  DatesOK'
PROOF
<1>1. /\ posts \in Seq([request : Requests, at : 0..MaxClock])
      /\ now \in Nat /\ now' \in Nat /\ now <= now'
      /\ row \in [Requests -> Rows] /\ work \in [Workers -> Work]
  <2>1. now' \in 0..MaxClock /\ now \in 0..MaxClock
    BY StepKeeps DEF IInv, DataOK
  <2>2. now' = now \/ ClockMoves
    BY DEF Next, Step, Submit, Inspect, Validate, Enable, Date, NoOpenOrders, Fund,
           Reserve, Post, Answer, Update, Flag, Delete, Refuse, Fault, BrokerDecides,
           Fill, Close, SetStop, vars
  <2>3. now <= now'
    BY <2>1, <2>2, BoundAssumption DEF ClockMoves
  <2>. QED
    BY <2>1, <2>3, BoundAssumption DEF IInv, DataOK, WorkOK
<1>2. \A i \in DOMAIN posts : posts[i].at \in Nat
  BY PostTypes DEF IInv
<1>3. CASE \E w \in Workers : Post(w)
  <2>1. PICK w \in Workers : Post(w)
    BY <1>3
  <2>2. now' = now /\ posts' = Append(posts, [request |-> work[w].request, at |-> now])
    BY <2>1 DEF Post
  <2>3. PostedBy(now)'
    BY <1>1, <2>2 DEF DatesOK, PostedBy
  <2>4. ASSUME NEW v \in Workers PROVE work'[v].at \notin Dated \cup Reserved
    <3>1. work'[w].at = "posted" /\ work[w].at = "cleared"
      BY <1>1, <2>1 DEF Post, Move, At, Work
    <3>2. CASE v = w
      BY <3>1, <3>2 DEF Dated, Reserved
    <3>3. CASE v # w
      <4>1. work[v].at = "idle" /\ work'[v] = work[v]
        BY <1>1, <2>1, <3>1, <3>3, OneCall DEF Post, Move
      <4>. QED
        BY <4>1 DEF Dated, Reserved
    <3>. QED
      BY <3>2, <3>3
  <2>. QED
    BY <2>3, <2>4 DEF DatesOK
<1>4. CASE \A w \in Workers : ~Post(w)
  <2>1. posts' = posts
    BY <1>4 DEF Next, Step, Submit, Inspect, Validate, Enable, Date, NoOpenOrders, Fund,
       Reserve, Answer, Update, Flag, Delete, Refuse, Fault, BrokerDecides, Fill, Close,
       SetStop, ClockMoves, vars
  <2>2. \A t \in Nat : Between(t) => t <= now' /\ \A i \in DOMAIN posts' : posts'[i].at <= t
    BY <1>1, <2>1 DEF Between, PostedBy
  <2>3. Between(now)
    BY <1>1 DEF Between, DatesOK
  <2>4. PostedBy(now)'
    BY <1>1, <1>2, <2>1 DEF DatesOK, PostedBy
  <2>5. ASSUME NEW w \in Workers, work'[w].at \in Dated
        PROVE  work'[w].time \in Nat /\ Between(work'[w].time)
    BY <1>1, <2>3, <2>5, WorkMoves DEF DatesOK, Work
  <2>6. ASSUME NEW w \in Workers, work'[w].at \in Reserved
        PROVE  LET t == row'[work'[w].request].at IN t \in Nat /\ Between(t)
    <3>. DEFINE q == work[w].request
    <3>1. work'[w].request = q
      BY <2>6, WorkMoves
    <3>2. CASE Reserve(w)
      <4>1. work[w].at = "enabled" /\ q \in Requests /\ work[w].time \in Nat
        BY <1>1, <3>2, NoneAssumption DEF Reserve, At, IInv, WorkOK, Work
      <4>2. row'[q].at = work[w].time
        BY <1>1, <3>2, <4>1 DEF Reserve, NoRow, Rows
      <4>. QED
        BY <3>1, <4>1, <4>2 DEF DatesOK, Dated
    <3>3. CASE ~Reserve(w)
      <4>1. work[w].at \in Reserved /\ q \in Requests
        BY <1>1, <2>6, <3>3, WorkMoves, NoneAssumption DEF IInv, WorkOK, Work, At, Reserved
      <4>2. \A v \in Workers : ~Reserve(v)
        <5>. SUFFICES ASSUME NEW v \in Workers, Reserve(v) PROVE FALSE
          OBVIOUS
        <5>1. v = w
          BY <4>1, OneCall DEF Reserve, At, Reserved
        <5>. QED
          BY <3>3, <5>1
      <4>3. row'[q].at = row[q].at /\ row[q].at \in Nat
        BY <1>1, <4>1, <4>2, DatesKept DEF Rows
      <4>. QED
        BY <3>1, <4>1, <4>3 DEF DatesOK
    <3>. QED
      BY <3>2, <3>3
  <2>7. \A w \in Workers : work'[w].at \in Dated => Between(work[w].time)'
    BY <2>2, <2>5 DEF Between, PostedBy
  <2>8. \A w \in Workers : work'[w].at \in Reserved => Between(row[work[w].request].at)'
    BY <2>2, <2>6 DEF Between, PostedBy
  <2>. QED
    BY <2>4, <2>7, <2>8 DEF DatesOK
<1>. QED
  BY <1>3, <1>4

LEMMA FewerFit ==
  ASSUME NEW S, IsFiniteSet(S), NEW T \in SUBSET S
  PROVE  /\ IsFiniteSet(T) /\ Cardinality(T) \in Nat /\ Cardinality(S) \in Nat
         /\ Cardinality(T) <= Cardinality(S)
PROOF
<1>1. IsFiniteSet(T) /\ Cardinality(T) <= Cardinality(S)
  BY FS_Subset
<1>. QED
  BY <1>1, FS_CardinalityType

(* What was sent of a day's attempts stays so. *)
LEMMA SentGrows ==
  ASSUME IInv, CountOK, [Next]_vars, NEW d \in Nat
  PROVE  /\ SentOn(d) \subseteq SentOn(d)'
         /\ IsFiniteSet(SentOn(d)) /\ IsFiniteSet(SentOn(d)')
PROOF
<1>1. ASSUME NEW q \in SentOn(d) PROVE q \in SentOn(d)'
  <2>1. /\ q \in Requests /\ row[q].state # "absent" /\ Day(row[q].at) = d
        /\ order[q].status # "none"
    BY DEF SentOn, AttemptsOn, Recorded
  <2>2. \A w \in Workers : ~(Reserve(w) /\ work[w].request = q)
    BY <2>1 DEF Reserve, At, IInv, JobsOK, JobOK, Fresh
  <2>3. row'[q].at = row[q].at /\ row'[q].state # "absent"
    BY <2>1, <2>2, DatesKept
  <2>4. order'[q].status # "none"
    BY <2>1, SentKept
  <2>. QED
    BY <2>1, <2>3, <2>4 DEF SentOn, AttemptsOn, Recorded
<1>2. SentOn(d) \subseteq Recorded /\ SentOn(d)' \subseteq Recorded'
  BY DEF SentOn, AttemptsOn
<1>3. IsFiniteSet(Recorded) /\ IsFiniteSet(Recorded')
  BY CountKept DEF CountOK
<1>4. IsFiniteSet(SentOn(d)) /\ IsFiniteSet(SentOn(d)')
  BY <1>2, <1>3, FS_Subset
<1>. QED
  BY <1>1, <1>4

LEMMA PostsAreFinite ==
  ASSUME DataOK, NEW d
  PROVE  IsFiniteSet(PostsOn(d))
PROOF
<1>1. DOMAIN posts = 1..Len(posts) /\ Len(posts) \in Nat
  BY DEF DataOK
<1>2. IsFiniteSet(DOMAIN posts)
  BY <1>1, FS_Interval
<1>. QED
  BY <1>2, FS_Subset DEF PostsOn

(* A POST on a day that has one already is of an attempt of that day: it   *)
(* was dated after the other POST and before now.                          *)
LEMMA PostCounts ==
  ASSUME IInv, CountOK, DatesOK, PostsOK, [Next]_vars,
         NEW w \in Workers, Post(w), NEW d \in Nat
  PROVE  Cardinality(PostsOn(d)') <= Cardinality(SentOn(d)') + 1
PROOF
<1>. DEFINE q == work[w].request
            n == Len(posts) + 1
<1>1. /\ work[w].at = "cleared" /\ q \in Requests
      /\ row[q].state = "uncertain" /\ order[q].status = "none"
      /\ posts \in Seq([request : Requests, at : 0..MaxClock])
      /\ row \in [Requests -> Rows] /\ now \in Nat
  BY NoneAssumption, BoundAssumption
     DEF Post, At, IInv, WorkOK, Work, JobsOK, JobOK, Reserved, DataOK
<1>2. posts' = Append(posts, [request |-> q, at |-> now]) /\ row' = row
  BY DEF Post
<1>3. /\ DOMAIN posts' = DOMAIN posts \cup {n} /\ n \notin DOMAIN posts
      /\ \A i \in DOMAIN posts : posts'[i] = posts[i]
      /\ posts'[n].at = now
  <2>. DEFINE x == [request |-> q, at |-> now]
  <2>1. posts' = Append(posts, x) /\ x.at = now
    BY <1>2
  <2>. HIDE DEF x
  <2>. QED
    BY <1>1, <2>1
<1>4. /\ SentOn(d) \subseteq SentOn(d)'
      /\ IsFiniteSet(SentOn(d)) /\ IsFiniteSet(SentOn(d)') /\ IsFiniteSet(PostsOn(d))
  BY SentGrows, PostsAreFinite DEF IInv
<1>5. /\ Cardinality(SentOn(d)) \in Nat /\ Cardinality(SentOn(d)') \in Nat
      /\ Cardinality(SentOn(d)) <= Cardinality(SentOn(d)')
  BY <1>4, FewerFit
<1>6. Cardinality(PostsOn(d)) <= Cardinality(SentOn(d)) + 1 /\ Cardinality(PostsOn(d)) \in Nat
  BY <1>4, FS_CardinalityType DEF PostsOK
<1>7. CASE Day(now) # d
  <2>1. PostsOn(d)' = PostsOn(d)
    BY <1>3, <1>7 DEF PostsOn
  <2>. QED
    BY <1>5, <1>6, <2>1
<1>8. CASE Day(now) = d
  <2>1. PostsOn(d)' = PostsOn(d) \cup {n}
    BY <1>3, <1>8 DEF PostsOn
  <2>2. /\ Cardinality(PostsOn(d)') <= Cardinality(PostsOn(d)) + 1
        /\ Cardinality(PostsOn(d)') \in Nat
    BY <1>4, <2>1, OneMore
  <2>3. CASE PostsOn(d) = {}
    <3>1. Cardinality(PostsOn(d)) = 0
      BY <2>3, FS_EmptySet
    <3>. QED
      BY <1>5, <2>2, <3>1
  <2>4. CASE PostsOn(d) # {}
    <3>1. PICK i \in DOMAIN posts : Day(posts[i].at) = d
      BY <2>4 DEF PostsOn
    <3>2. /\ posts[i].at \in Nat /\ row[q].at \in Nat
          /\ posts[i].at <= row[q].at /\ row[q].at <= now
      BY <1>1, <3>1, PostTypes DEF DatesOK, Reserved, Between, PostedBy, IInv, Rows
    <3>3. Day(row[q].at) = d
      <4>1. /\ Day(posts[i].at) <= Day(row[q].at) /\ Day(row[q].at) <= Day(now)
            /\ Day(row[q].at) \in Nat
        BY <1>1, <3>2, DayMonotone
      <4>. QED
        BY <1>8, <3>1, <4>1
    <3>4. q \notin SentOn(d)
      BY <1>1 DEF SentOn
    <3>5. q \in SentOn(d)'
      <4>1. order'[q].status = "flying"
        BY <1>1 DEF Post, IInv, DataOK, Orders
      <4>. QED
        BY <1>1, <1>2, <3>3, <4>1 DEF SentOn, AttemptsOn, Recorded
    <3>6. SentOn(d) \cup {q} \in SUBSET SentOn(d)'
      BY <1>4, <3>5
    <3>7. Cardinality(SentOn(d) \cup {q}) = Cardinality(SentOn(d)) + 1
      BY <1>4, <3>4, OneMore
    <3>8. Cardinality(SentOn(d) \cup {q}) <= Cardinality(SentOn(d)')
      BY <1>4, <3>6, FewerFit
    <3>. QED
      BY <1>5, <1>6, <2>2, <3>7, <3>8
  <2>. QED
    BY <2>3, <2>4
<1>. QED
  BY <1>7, <1>8

LEMMA PostsStep ==
  ASSUME IInv, CountOK, DatesOK, PostsOK, [Next]_vars
  PROVE  PostsOK'
PROOF
<1>. SUFFICES ASSUME NEW d \in Nat
              PROVE  Cardinality(PostsOn(d)') <= Cardinality(SentOn(d)') + 1
  BY DEF PostsOK
<1>1. CASE \E w \in Workers : Post(w)
  BY <1>1, PostCounts
<1>2. CASE \A w \in Workers : ~Post(w)
  <2>1. posts' = posts
    BY <1>2 DEF Next, Step, Submit, Inspect, Validate, Enable, Date, NoOpenOrders, Fund,
       Reserve, Answer, Update, Flag, Delete, Refuse, Fault, BrokerDecides, Fill, Close,
       SetStop, ClockMoves, vars
  <2>2. PostsOn(d)' = PostsOn(d)
    BY <2>1 DEF PostsOn
  <2>3. /\ Cardinality(SentOn(d)) <= Cardinality(SentOn(d)')
        /\ Cardinality(SentOn(d)) \in Nat /\ Cardinality(SentOn(d)') \in Nat
    BY SentGrows, FewerFit
  <2>4. Cardinality(PostsOn(d)) <= Cardinality(SentOn(d)) + 1 /\ Cardinality(PostsOn(d)) \in Nat
    BY PostsAreFinite, FS_CardinalityType DEF PostsOK, IInv
  <2>. QED
    BY <2>2, <2>3, <2>4
<1>. QED
  BY <1>1, <1>2

(* No day has more attempts than max_daily_attempts, however the clock is  *)
(* set: the limit is checked and the attempt inserted under one lock.      *)
THEOREM DailyAttempts ==
  Spec => [](\A d \in Nat : Cardinality(AttemptsOn(d)) <= MaxDaily)
PROOF
<1>1. Init => CountOK
  <2>. SUFFICES ASSUME Init PROVE CountOK
    OBVIOUS
  <2>1. Recorded = {} /\ \A d : AttemptsOn(d) = {}
    BY DEF Init, Recorded, AttemptsOn, NoRow
  <2>2. \A w \in Workers : work[w].at \notin Dated
    BY DEF Init, Idle, Dated
  <2>. QED
    BY <2>1, <2>2, FS_EmptySet, BoundAssumption DEF CountOK
<1>2. IInv /\ CountOK /\ [Next]_vars => CountOK'
  BY CountKept
<1>3. CountOK => \A d \in Nat : Cardinality(AttemptsOn(d)) <= MaxDaily
  BY DEF CountOK
<1>. QED
  BY <1>1, <1>2, <1>3, Inductive, PTL DEF Spec

(* On a clock that is not set back, no more than max_daily_attempts orders *)
(* and one begun before midnight are posted on any day: each POST of a day *)
(* after the first is of an attempt that the journal counts for that day.  *)
THEOREM DailyPosts == Spec => []DailyPostsBounded
PROOF
<1>. DEFINE DayInv == CountOK /\ (~ClockSetBack => DatesOK /\ PostsOK)
<1>1. Init => DayInv
  <2>. SUFFICES ASSUME Init PROVE DayInv
    OBVIOUS
  <2>1. Recorded = {} /\ \A d : AttemptsOn(d) = {} /\ PostsOn(d) = {} /\ SentOn(d) = {}
    BY DEF Init, Recorded, AttemptsOn, NoRow, PostsOn, SentOn
  <2>2. \A w \in Workers : work[w].at \notin Dated \cup Reserved
    BY DEF Init, Idle, Dated, Reserved
  <2>3. CountOK
    BY <2>1, <2>2, FS_EmptySet, BoundAssumption DEF CountOK
  <2>4. DatesOK
    BY <2>2 DEF Init, DatesOK, PostedBy
  <2>5. PostsOK
    BY <2>1, FS_EmptySet DEF PostsOK
  <2>. QED
    BY <2>3, <2>4, <2>5
<1>2. IInv /\ DayInv /\ [Next]_vars => DayInv'
  BY CountKept, DatesStep, PostsStep
<1>3. IInv /\ DayInv => DailyPostsBounded
  <2>. SUFFICES ASSUME IInv, DayInv, ~ClockSetBack, NEW d \in 0..Day(MaxClock)
                PROVE  Cardinality(PostsOn(d)) <= MaxDaily + 1
    BY DEF DailyPostsBounded
  <2>1. d \in Nat
    BY DayMonotone, BoundAssumption
  <2>2. Cardinality(PostsOn(d)) <= Cardinality(SentOn(d)) + 1
    BY <2>1 DEF PostsOK
  <2>3. IsFiniteSet(AttemptsOn(d)) /\ SentOn(d) \in SUBSET AttemptsOn(d)
    BY FS_Subset DEF CountOK, AttemptsOn, SentOn
  <2>4. /\ Cardinality(SentOn(d)) <= Cardinality(AttemptsOn(d))
        /\ Cardinality(SentOn(d)) \in Nat /\ Cardinality(AttemptsOn(d)) \in Nat
    BY <2>3, FewerFit
  <2>5. Cardinality(AttemptsOn(d)) <= MaxDaily
    BY <2>1 DEF CountOK
  <2>6. Cardinality(PostsOn(d)) \in Nat
    BY PostsAreFinite, FS_CardinalityType DEF IInv
  <2>. QED
    BY <2>2, <2>4, <2>5, <2>6, BoundAssumption
<1>. QED
  BY <1>1, <1>2, <1>3, Inductive, PTL DEF Spec
=============================================================================
