------------------------ MODULE PaperSubmissionProofs ------------------------
(***************************************************************************)
(* Proofs about PaperSubmission for any number of hosts, requests and      *)
(* receipts, any clock range and any number of crashes.                    *)
(***************************************************************************)
EXTENDS PaperSubmission, TLAPS

-----------------------------------------------------------------------------
(* The inductive invariant. *)

(* Lanes on their way to the broker work on a real receipt.                *)
Submitting == {"starting", "checking", "claimed", "cleared", "begun", "calling",
               "answered", "failing"}
NotClaimed == {"starting", "checking"}

(* A row names its claimant; the lane that went beyond consume() is that   *)
(* claimant's, hence the only one for its request.                         *)
ClaimantKnown ==
  /\ \A q \in Requests : row[q].state # "absent" => row[q].claimant \in Hosts
  /\ \A h \in Hosts : lane[h].at \in Submitting => lane[h].receipt \in Receipts
  /\ \A h \in Hosts :
       lane[h].at \in Submitting \ NotClaimed =>
         row[lane[h].request].state # "absent" /\ row[lane[h].request].claimant = h

(* What has not begun was not sent; what is about to be sent has begun.    *)
NothingSent(q) == calls[q] = 0 /\ order[q] = "none"
Unsent == {"absent", "claimed", "closed"}

SentOnce ==
  /\ \A q \in Requests : row[q].state \in Unsent => NothingSent(q)
  /\ \A h \in Hosts :
       lane[h].at = "begun" =>
         row[lane[h].request].state = "submitting" /\ NothingSent(lane[h].request)
  /\ \A h \in Hosts :
       lane[h].at \in {"calling", "answered", "failing"} =>
         row[lane[h].request].state \notin Unsent
  /\ AtMostOneBrokerCall

(* What the journal or a lane takes for an order of the broker is one.     *)
KnownIsAccepted ==
  /\ \A q \in Requests : row[q].state \in {"submitted", "found"} => order[q] = "accepted"
  /\ \A h \in Hosts : lane[h].at \in {"answered", "seen"} => order[lane[h].request] = "accepted"

(* A host that is about to claim has nothing unresolved.                   *)
Unresolved == {"claimed", "submitting", "uncertain"}
CleanBeforeClaim ==
  /\ \A h \in Hosts, q \in Requests :
       lane[h].at = "checking" /\ row[q].state \in Unresolved => row[q].claimant # h
  /\ OneUnresolvedPerHost

(* The journal's clock has passed the expiry of every receipt it refused.  *)
RefusalIsRecorded == \A r \in expired : Expiry[r] <= last

IInv ==
  /\ TypeOK
  /\ ClaimantKnown
  /\ SentOnce
  /\ KnownIsAccepted
  /\ CleanBeforeClaim
  /\ StopReachesEveryLane
  /\ RefusalIsRecorded

-----------------------------------------------------------------------------
(* Effects.  Each helper and each journal write, said pointwise: what the  *)
(* step lemmas below need to know of them.                                 *)

OnlyLane(h) ==
  lane' \in [Hosts -> Lanes] /\ \A k \in Hosts : k # h => lane'[k] = lane[k]

LaneIs(h, step, q, r) ==
  lane'[h].at = step /\ lane'[h].request = q /\ lane'[h].receipt = r

LEMMA Moved ==
  ASSUME TypeOK, NEW h \in Hosts, NEW step \in Steps, Move(h, step)
  PROVE  OnlyLane(h) /\ LaneIs(h, step, lane[h].request, lane[h].receipt)
BY DEF TypeOK, Move, LaneIs, OnlyLane, Lanes

LEMMA Released ==
  ASSUME TypeOK, NEW h \in Hosts, Release(h)
  PROVE  OnlyLane(h) /\ LaneIs(h, "idle", None, None)
BY DEF TypeOK, Release, LaneIs, OnlyLane, Lanes, Idle, Steps

LEMMA Taken ==
  ASSUME TypeOK, NEW h \in Hosts, NEW step \in Steps, NEW q \in Requests,
         NEW r \in Receipts \cup {None}, Take(h, step, q, r)
  PROVE  OnlyLane(h) /\ LaneIs(h, step, q, r)
BY DEF TypeOK, Take, LaneIs, OnlyLane, Lanes

LEMMA Forgotten ==
  ASSUME TypeOK, NEW h \in Hosts, NEW q \in Requests, Forget(h, q) \/ UNCHANGED owned
  PROVE  owned' \in [Hosts -> SUBSET Requests]
<1>1. CASE Forget(h, q)
  BY <1>1 DEF TypeOK, Forget
<1>2. CASE UNCHANGED owned
  BY <1>2 DEF TypeOK
<1> QED BY <1>1, <1>2

LEMMA BusyHasRequest ==
  ASSUME TypeOK, NEW h \in Hosts, lane[h].at # "idle"
  PROVE  lane[h].request \in Requests
BY DEF TypeOK, Lanes

(* A write of host h about its request q: the row of q goes from one of    *)
(* the states from to the state to, or stays.                              *)
Marks(h, from, to) ==
  /\ row' \in [Requests -> Rows]
  /\ \A p \in Requests :
       /\ row'[p].receipt = row[p].receipt
       /\ row'[p].claimant = row[p].claimant
       /\ row'[p].state = IF p = lane[h].request /\ row[p].state \in from THEN to
                          ELSE row[p].state

LEMMA StateSet ==
  ASSUME TypeOK, NEW h \in Hosts, lane[h].at # "idle", NEW to \in States,
         NEW from \in SUBSET States,
         \/ row[lane[h].request].state \in from /\ SetState(lane[h].request, to)
         \/ row[lane[h].request].state \notin from /\ UNCHANGED row
  PROVE  Marks(h, from, to)
<1>1. lane[h].request \in Requests
  BY BusyHasRequest
<1>2. CASE row[lane[h].request].state \in from /\ SetState(lane[h].request, to)
  BY <1>1, <1>2 DEF TypeOK, SetState, Marks, Rows
<1>3. CASE row[lane[h].request].state \notin from /\ UNCHANGED row
  BY <1>1, <1>3 DEF TypeOK, Marks, Rows
<1> QED BY <1>2, <1>3

LEMMA ClockKept ==
  ASSUME TypeOK, ClockRecorded
  PROVE  last' = now /\ last' \in 0..MaxClock /\ last <= last'
BY BoundAssumption DEF TypeOK, ClockRecorded

(* A journal write of a lane at a step: it marks the row, records the      *)
(* clock, leaves the world alone, and goes on to the step next or ends.    *)
Writes(h, step, from, to, next) ==
  /\ lane[h].at = step /\ lane[h].request \in Requests
  /\ Marks(h, from, to)
  /\ last' \in 0..MaxClock /\ last' = now /\ last <= last'
  /\ owned' \in [Hosts -> SUBSET Requests]
  /\ OnlyLane(h)
  /\ \/ LaneIs(h, next, lane[h].request, lane[h].receipt) /\ next # "idle"
     \/ LaneIs(h, "idle", None, None)
  /\ UNCHANGED <<stop, now, order, calls, overtaken, expired, crashes>>

LEMMA BeginEffect ==
  ASSUME TypeOK, NEW h \in Hosts, BeginSubmission(h)
  PROVE  Writes(h, "cleared", {"claimed"}, "submitting", "begun")
<1> USE DEF BeginSubmission
<1>1. Marks(h, {"claimed"}, "submitting")
  BY StateSet DEF States
<1>2. owned' \in [Hosts -> SUBSET Requests] /\ lane[h].request \in Requests
  BY Forgotten, BusyHasRequest DEF TypeOK
<1>3. CASE Move(h, "begun")
  BY <1>1, <1>2, <1>3, ClockKept, Moved DEF Writes, history, Steps
<1>4. CASE Release(h)
  BY <1>1, <1>2, <1>4, ClockKept, Released DEF Writes, history
<1> QED BY <1>3, <1>4

LEMMA MarkSubmittedEffect ==
  ASSUME TypeOK, NEW h \in Hosts, MarkSubmitted(h)
  PROVE  Writes(h, "answered", {"submitting"}, "submitted", "failing")
<1> USE DEF MarkSubmitted
<1>1. Marks(h, {"submitting"}, "submitted")
  BY StateSet DEF States
<1>2. owned' \in [Hosts -> SUBSET Requests] /\ lane[h].request \in Requests
  BY Forgotten, BusyHasRequest DEF TypeOK
<1>3. CASE Move(h, "failing")
  BY <1>1, <1>2, <1>3, ClockKept, Moved DEF Writes, history, Steps
<1>4. CASE Release(h)
  BY <1>1, <1>2, <1>4, ClockKept, Released DEF Writes, history
<1> QED BY <1>3, <1>4

LEMMA MarkUncertainEffect ==
  ASSUME TypeOK, NEW h \in Hosts, MarkUncertain(h)
  PROVE  Writes(h, "failing", {"submitting"}, "uncertain", "idle")
<1> USE DEF MarkUncertain
<1>1. Marks(h, {"submitting"}, "uncertain")
  BY StateSet DEF States
<1>2. owned' \in [Hosts -> SUBSET Requests] /\ lane[h].request \in Requests
  BY Forgotten, BusyHasRequest DEF TypeOK
<1> QED BY <1>1, <1>2, ClockKept, Released DEF Writes, history

LEMMA CloseEffect ==
  ASSUME TypeOK, NEW h \in Hosts, CloseClaim(h)
  PROVE  Writes(h, "closing", {"claimed"}, "closed", "idle")
<1> USE DEF CloseClaim, Closable
<1>1. Marks(h, {"claimed"}, "closed")
  BY StateSet DEF States
<1>2. owned' \in [Hosts -> SUBSET Requests] /\ lane[h].request \in Requests
  BY Forgotten, BusyHasRequest DEF TypeOK
<1> QED BY <1>1, <1>2, ClockKept, Released DEF Writes, history

LEMMA FoundEffect ==
  ASSUME TypeOK, NEW h \in Hosts, MarkFound(h)
  PROVE  Writes(h, "seen", Attempted, "found", "idle")
<1> USE DEF MarkFound, Attempted
<1>1. Marks(h, Attempted, "found")
  BY StateSet DEF States
<1>2. owned' \in [Hosts -> SUBSET Requests] /\ lane[h].request \in Requests
  BY Forgotten, BusyHasRequest DEF TypeOK
<1> QED BY <1>1, <1>2, ClockKept, Released DEF Writes, history

(* A reconciliation takes up a request.                                    *)
LooksInto(h, q) ==
  /\ OnlyLane(h)
  /\ LaneIs(h, "closing", q, None) \/ LaneIs(h, "looking", q, None)
  /\ UNCHANGED <<row, last, owned, stop, now, order, calls, overtaken, expired, crashes>>

LEMMA ReconcileEffect ==
  ASSUME TypeOK, NEW h \in Hosts, NEW q \in Requests, Reconcile(h, q)
  PROVE  LooksInto(h, q)
BY Taken DEF Reconcile, Steps, LooksInto, journal, history

(* A claim: the row of the lane's request appears, in the claimant's name. *)
Claims(h, q, r) ==
  /\ lane[h].at = "checking" /\ lane[h].request = q /\ lane[h].receipt = r
  /\ q \in Requests /\ r \in Receipts
  /\ Expiry[r] > now /\ row[q].state = "absent"
  /\ row' \in [Requests -> Rows] /\ row'[q] = Claimed(r, h)
  /\ \A p \in Requests \ {q} : row'[p] = row[p]
  /\ last' \in 0..MaxClock /\ last' = now /\ last <= last'
  /\ owned' \in [Hosts -> SUBSET Requests]
  /\ OnlyLane(h)
  /\ LaneIs(h, "claimed", q, r) \/ LaneIs(h, "idle", None, None)
  /\ UNCHANGED <<stop, now, order, calls, overtaken, expired, crashes>>

LEMMA ConsumeEffect ==
  ASSUME TypeOK, ClaimantKnown, NEW h \in Hosts, Consume(h)
  PROVE  Claims(h, lane[h].request, lane[h].receipt)
<1> USE DEF Consume
<1>1. lane[h].request \in Requests /\ lane[h].receipt \in Receipts
  BY BusyHasRequest DEF ClaimantKnown, Submitting, NotClaimed
<1>2. /\ row' \in [Requests -> Rows]
      /\ row[lane[h].request].state = "absent" /\ Expiry[lane[h].receipt] > now
      /\ row'[lane[h].request] = Claimed(lane[h].receipt, h)
      /\ \A p \in Requests \ {lane[h].request} : row'[p] = row[p]
  BY <1>1 DEF TypeOK, Rows, States, Claimed, Unrecorded
<1>3. owned' \in [Hosts -> SUBSET Requests]
  <2>1. CASE owned' = [owned EXCEPT ![h] = @ \cup {lane[h].request}]
    BY <1>1, <2>1 DEF TypeOK
  <2>2. CASE UNCHANGED owned
    BY <2>2 DEF TypeOK
  <2> QED BY <2>1, <2>2
<1>4. CASE Move(h, "claimed")
  BY <1>1, <1>2, <1>3, <1>4, ClockKept, Moved DEF Steps, Claims, history
<1>5. CASE Release(h)
  BY <1>1, <1>2, <1>3, <1>5, ClockKept, Released DEF Claims, history
<1> QED BY <1>4, <1>5

-----------------------------------------------------------------------------
(* What journal writes preserve. *)

(* A write that makes nothing of an absent row keeps the types.            *)
LEMMA WritesKeepType ==
  ASSUME TypeOK, NEW h \in Hosts, NEW step, NEW next,
         NEW from, NEW to \in States \ {"absent"}, "absent" \notin from,
         Writes(h, step, from, to, next)
  PROVE  TypeOK'
<1>1. \A q \in Requests : (row'[q].state = "absent") <=> (row'[q].receipt = None)
  BY DEF TypeOK, Writes, Marks
<1>2. \A k \in Hosts : (lane'[k].at = "idle") <=> (lane'[k].request = None)
  BY NoneAssumption DEF TypeOK, Writes, OnlyLane, LaneIs
<1>3. row' \in [Requests -> Rows] /\ lane' \in [Hosts -> Lanes]
  BY DEF Writes, Marks, OnlyLane
<1> QED BY <1>1, <1>2, <1>3 DEF TypeOK, Writes

(* A write that makes nothing of an absent row keeps the claimants.        *)
LEMMA WritesKeepClaimant ==
  ASSUME TypeOK, TypeOK', ClaimantKnown, NEW h \in Hosts, NEW step, NEW next,
         NEW from, NEW to \in States \ {"absent"}, "absent" \notin from,
         Writes(h, step, from, to, next),
         next = "idle" \/ step \in Submitting \ NotClaimed
  PROVE  ClaimantKnown'
<1>1. ASSUME NEW q \in Requests, row'[q].state # "absent"
      PROVE  row'[q].claimant \in Hosts
  BY <1>1 DEF ClaimantKnown, Writes, Marks
<1>2. ASSUME NEW k \in Hosts, lane'[k].at \in Submitting
      PROVE  lane'[k].receipt \in Receipts
  BY <1>2 DEF ClaimantKnown, Writes, OnlyLane, LaneIs, Submitting, NotClaimed
<1>3. ASSUME NEW k \in Hosts, lane'[k].at \in Submitting \ NotClaimed
      PROVE  row'[lane'[k].request].state # "absent" /\ row'[lane'[k].request].claimant = k
  <2>1. lane[k].at \in Submitting \ NotClaimed /\ lane'[k].request = lane[k].request
    BY <1>3 DEF Writes, OnlyLane, LaneIs, Submitting, NotClaimed
  <2>2. lane[k].request \in Requests
    BY <2>1, BusyHasRequest DEF Submitting
  <2>3. row[lane[k].request].state # "absent" /\ row[lane[k].request].claimant = k
    BY <2>1 DEF ClaimantKnown
  <2> QED BY <2>1, <2>2, <2>3 DEF Writes, Marks
<1> QED BY <1>1, <1>2, <1>3 DEF ClaimantKnown

LEMMA ClaimsKeepClaimant ==
  ASSUME TypeOK, TypeOK', ClaimantKnown, NEW h \in Hosts, NEW r \in Receipts,
         NEW q \in Requests, Claims(h, q, r)
  PROVE  ClaimantKnown'
<1>1. ASSUME NEW p \in Requests, row'[p].state # "absent"
      PROVE  row'[p].claimant \in Hosts
  <2>1. CASE p = q
    BY <2>1 DEF Claims, Claimed
  <2>2. CASE p # q
    BY <1>1, <2>2 DEF Claims, ClaimantKnown
  <2> QED BY <2>1, <2>2
<1>2. ASSUME NEW k \in Hosts, lane'[k].at \in Submitting
      PROVE  lane'[k].receipt \in Receipts
  BY <1>2 DEF ClaimantKnown, Claims, OnlyLane, LaneIs, Submitting, NotClaimed
<1>3. ASSUME NEW k \in Hosts, lane'[k].at \in Submitting \ NotClaimed
      PROVE  row'[lane'[k].request].state # "absent" /\ row'[lane'[k].request].claimant = k
  <2>1. CASE k = h
    BY <1>3, <2>1 DEF Claims, LaneIs, Claimed, Submitting, NotClaimed
  <2>2. CASE k # h
    <3>1. lane'[k] = lane[k]
      BY <2>2 DEF Claims, OnlyLane
    <3>2. lane[k].request \in Requests
      BY <1>3, <3>1, BusyHasRequest DEF Submitting
    <3>3. row[lane[k].request].state # "absent" /\ row[lane[k].request].claimant = k
      BY <1>3, <3>1 DEF ClaimantKnown
    <3> QED BY <3>1, <3>2, <3>3 DEF Claims
  <2> QED BY <2>1, <2>2
<1> QED BY <1>1, <1>2, <1>3 DEF ClaimantKnown

(* A write that declares unsent only what was, and changes an attempt only *)
(* on the way back from the broker, keeps SentOnce.                        *)
LEMMA WritesKeepSent ==
  ASSUME TypeOK, TypeOK', ClaimantKnown, SentOnce, KnownIsAccepted,
         NEW h \in Hosts, NEW step, NEW next, NEW from, NEW to,
         Writes(h, step, from, to, next),
         to \in Unsent => \A s \in from : s \in Unsent,
         "submitting" \in from => step \in {"answered", "failing", "seen"},
         \/ next = "idle"
         \/ next = "failing" /\ step = "answered"
         \/ /\ next = "begun" /\ to = "submitting" /\ from = {"claimed"}
            /\ row[lane[h].request].state = "claimed"
  PROVE  SentOnce'
<1>1. ASSUME NEW q \in Requests, row'[q].state \in Unsent
      PROVE  NothingSent(q)'
  <2>1. row[q].state \in Unsent
    BY <1>1 DEF Writes, Marks
  <2> QED BY <2>1 DEF SentOnce, NothingSent, Writes
<1>2. ASSUME NEW k \in Hosts, lane'[k].at = "begun"
      PROVE  row'[lane'[k].request].state = "submitting" /\ NothingSent(lane[k].request)'
  <2>1. CASE k = h
    <3>1. /\ next = "begun" /\ to = "submitting" /\ from = {"claimed"}
          /\ row[lane[h].request].state = "claimed" /\ lane'[h].request = lane[h].request
      BY <1>2, <2>1 DEF Writes, LaneIs
    <3>2. NothingSent(lane[h].request)
      BY <3>1 DEF SentOnce, NothingSent, Unsent, Writes
    <3> QED BY <2>1, <3>1, <3>2 DEF Writes, Marks, NothingSent
  <2>2. CASE k # h
    <3>1. lane'[k] = lane[k]
      BY <2>2 DEF Writes, OnlyLane
    <3>2. lane[k].request \in Requests
      BY <1>2, <3>1, BusyHasRequest
    <3>3. row[lane[k].request].state = "submitting" /\ NothingSent(lane[k].request)
      BY <1>2, <3>1 DEF SentOnce
    <3>4. lane[k].request = lane[h].request => "submitting" \notin from
      <4>1. row[lane[k].request].claimant = k
        BY <1>2, <3>1 DEF ClaimantKnown, Submitting, NotClaimed
      <4>2. step \in {"answered", "failing"} => row[lane[h].request].claimant = h
        BY DEF ClaimantKnown, Submitting, NotClaimed, Writes
      <4>3. step = "seen" => order[lane[h].request] = "accepted"
        BY DEF KnownIsAccepted, Writes
      <4> QED BY <2>2, <3>3, <4>1, <4>2, <4>3 DEF NothingSent
    <3> QED BY <3>1, <3>2, <3>3, <3>4 DEF Writes, Marks, NothingSent
  <2> QED BY <2>1, <2>2
<1>3. ASSUME NEW k \in Hosts, lane'[k].at \in {"calling", "answered", "failing"}
      PROVE  row'[lane'[k].request].state \notin Unsent
  <2>1. lane[k].at \in {"calling", "answered", "failing"} /\ lane'[k].request = lane[k].request
    BY <1>3 DEF Writes, OnlyLane, LaneIs
  <2>2. lane[k].request \in Requests
    BY <2>1, BusyHasRequest
  <2>3. row[lane[k].request].state \notin Unsent
    BY <2>1 DEF SentOnce
  <2> QED BY <2>1, <2>2, <2>3 DEF Writes, Marks
<1>4. AtMostOneBrokerCall'
  BY DEF SentOnce, NothingSent, AtMostOneBrokerCall, Writes
<1> QED BY <1>1, <1>2, <1>3, <1>4 DEF SentOnce, NothingSent

LEMMA ClaimsKeepSent ==
  ASSUME TypeOK, TypeOK', ClaimantKnown, SentOnce, NEW h \in Hosts, NEW r \in Receipts,
         NEW q \in Requests, Claims(h, q, r)
  PROVE  SentOnce'
<1>1. ASSUME NEW p \in Requests, row'[p].state \in Unsent
      PROVE  NothingSent(p)'
  <2>1. row[p].state \in Unsent
    BY <1>1 DEF Claims, Unsent
  <2> QED BY <2>1 DEF SentOnce, NothingSent, Claims
<1>2. ASSUME NEW k \in Hosts, lane'[k].at \in {"begun", "calling", "answered", "failing"}
      PROVE  /\ lane'[k] = lane[k] /\ lane[k].request \in Requests
             /\ row'[lane[k].request] = row[lane[k].request]
  <2>1. k # h
    BY <1>2 DEF Claims, LaneIs
  <2>2. lane'[k] = lane[k]
    BY <2>1 DEF Claims, OnlyLane
  <2>3. lane[k].request \in Requests
    BY <1>2, <2>2, BusyHasRequest
  <2>4. row[lane[k].request].state # "absent"
    BY <1>2, <2>2 DEF ClaimantKnown, Submitting, NotClaimed
  <2> QED BY <2>2, <2>3, <2>4 DEF Claims
<1>3. ASSUME NEW k \in Hosts, lane'[k].at = "begun"
      PROVE  row'[lane'[k].request].state = "submitting" /\ NothingSent(lane[k].request)'
  <2>1. row[lane[k].request].state = "submitting" /\ NothingSent(lane[k].request)
    BY <1>2, <1>3 DEF SentOnce, NothingSent
  <2> QED BY <1>2, <1>3, <2>1 DEF Claims, NothingSent
<1>4. ASSUME NEW k \in Hosts, lane'[k].at \in {"calling", "answered", "failing"}
      PROVE  row'[lane'[k].request].state \notin Unsent
  BY <1>2, <1>4 DEF SentOnce, NothingSent
<1>5. AtMostOneBrokerCall'
  BY DEF SentOnce, NothingSent, AtMostOneBrokerCall, Claims
<1> QED BY <1>1, <1>3, <1>4, <1>5 DEF SentOnce, NothingSent

(* A write that knows an order only after it was seen keeps                *)
(* KnownIsAccepted.                                                        *)
LEMMA WritesKeepKnown ==
  ASSUME TypeOK, TypeOK', KnownIsAccepted,
         NEW h \in Hosts, NEW step, NEW next, NEW from, NEW to,
         Writes(h, step, from, to, next),
         to \in {"submitted", "found"} => step \in {"answered", "seen"},
         next \notin {"answered", "seen"}
  PROVE  KnownIsAccepted'
<1>1. ASSUME NEW q \in Requests, row'[q].state \in {"submitted", "found"}
      PROVE  order'[q] = "accepted"
  <2>1. step \in {"answered", "seen"} => order[lane[h].request] = "accepted"
    BY DEF KnownIsAccepted, Writes
  <2>2. row[q].state \in {"submitted", "found"} => order[q] = "accepted"
    BY DEF KnownIsAccepted
  <2> QED BY <1>1, <2>1, <2>2 DEF Writes, Marks
<1>2. ASSUME NEW k \in Hosts, lane'[k].at \in {"answered", "seen"}
      PROVE  order'[lane'[k].request] = "accepted"
  <2>1. lane'[k] = lane[k]
    BY <1>2 DEF Writes, OnlyLane, LaneIs
  <2> QED BY <1>2, <2>1 DEF KnownIsAccepted, Writes
<1> QED BY <1>1, <1>2 DEF KnownIsAccepted

LEMMA ClaimsKeepKnown ==
  ASSUME TypeOK, TypeOK', KnownIsAccepted, NEW h \in Hosts, NEW r \in Receipts,
         NEW q \in Requests, Claims(h, q, r)
  PROVE  KnownIsAccepted'
<1>1. ASSUME NEW p \in Requests, row'[p].state \in {"submitted", "found"}
      PROVE  order'[p] = "accepted"
  <2>1. p # q
    BY <1>1 DEF Claims, Claimed
  <2> QED BY <1>1, <2>1 DEF KnownIsAccepted, Claims
<1>2. ASSUME NEW k \in Hosts, lane'[k].at \in {"answered", "seen"}
      PROVE  order'[lane'[k].request] = "accepted"
  <2>1. lane'[k] = lane[k]
    BY <1>2 DEF Claims, OnlyLane, LaneIs
  <2> QED BY <1>2, <2>1 DEF KnownIsAccepted, Claims
<1> QED BY <1>1, <1>2 DEF KnownIsAccepted

(* A write that makes no resolved row unresolved keeps CleanBeforeClaim.   *)
LEMMA WritesKeepClean ==
  ASSUME TypeOK, TypeOK', CleanBeforeClaim,
         NEW h \in Hosts, NEW step, NEW next, NEW from, NEW to,
         Writes(h, step, from, to, next),
         to \in Unresolved => \A s \in from : s \in Unresolved,
         next # "checking"
  PROVE  CleanBeforeClaim'
<1>1. \A q \in Requests : /\ row'[q].state \in Unresolved => row[q].state \in Unresolved
                          /\ row'[q].claimant = row[q].claimant
  BY DEF Writes, Marks
<1>2. ASSUME NEW k \in Hosts, NEW q \in Requests,
             lane'[k].at = "checking", row'[q].state \in Unresolved
      PROVE  row'[q].claimant # k
  <2>1. lane[k].at = "checking"
    BY <1>2 DEF Writes, OnlyLane, LaneIs
  <2> QED BY <1>1, <1>2, <2>1 DEF CleanBeforeClaim
<1>3. OneUnresolvedPerHost'
  BY <1>1 DEF CleanBeforeClaim, OneUnresolvedPerHost, Unresolved
<1> QED BY <1>2, <1>3 DEF CleanBeforeClaim

LEMMA ClaimsKeepClean ==
  ASSUME TypeOK, TypeOK', CleanBeforeClaim, NEW h \in Hosts, NEW r \in Receipts,
         NEW q \in Requests, Claims(h, q, r)
  PROVE  CleanBeforeClaim'
<1>1. ASSUME NEW p \in Requests \ {q}, row'[p].state \in Unresolved
      PROVE  row'[p] = row[p] /\ row[p].claimant # h
  <2>1. row'[p] = row[p]
    BY DEF Claims
  <2>2. lane[h].at = "checking"
    BY DEF Claims
  <2> QED BY <1>1, <2>1, <2>2 DEF CleanBeforeClaim
<1>2. row'[q].claimant = h
  BY DEF Claims, Claimed
<1>3. ASSUME NEW k \in Hosts, NEW p \in Requests,
             lane'[k].at = "checking", row'[p].state \in Unresolved
      PROVE  row'[p].claimant # k
  <2>1. k # h
    BY <1>3 DEF Claims, LaneIs
  <2>2. lane[k].at = "checking"
    BY <1>3, <2>1 DEF Claims, OnlyLane
  <2>3. CASE p = q
    BY <1>2, <2>1, <2>3
  <2>4. CASE p # q
    BY <1>1, <1>3, <2>2, <2>4 DEF CleanBeforeClaim
  <2> QED BY <2>3, <2>4
<1>4. ASSUME NEW p \in Requests, NEW o \in Requests, row'[p].state \in Unresolved,
             row'[o].state \in Unresolved, row'[p].claimant = row'[o].claimant
      PROVE  p = o
  <2>1. CASE p = q \/ o = q
    BY <1>1, <1>2, <1>4, <2>1
  <2>2. CASE p # q /\ o # q
    BY <1>1, <1>4, <2>2 DEF CleanBeforeClaim, OneUnresolvedPerHost, Unresolved
  <2> QED BY <2>1, <2>2
<1>5. OneUnresolvedPerHost'
  BY <1>4 DEF OneUnresolvedPerHost, Unresolved
<1> QED BY <1>3, <1>5 DEF CleanBeforeClaim

-----------------------------------------------------------------------------
(* Each step of the system, one conjunct of the invariant at a time. *)

(* Types.                                                                  *)
LEMMA TypeStep ==
  ASSUME TypeOK, ClaimantKnown, [Next]_vars
  PROVE  TypeOK'
<1>1. ASSUME NEW h \in Hosts, SubmitRefused(h) PROVE TypeOK'
  BY <1>1 DEF SubmitRefused, TypeOK, Lanes, Steps, Idle, journal, history,
     Release
<1>1a. ASSUME NEW h \in Hosts, Screen(h) PROVE TypeOK'
  BY <1>1a DEF Screen, TypeOK, Lanes, Steps, journal, history, Move
<1>2. ASSUME NEW h \in Hosts, ConsumeExpired(h) PROVE TypeOK'
  BY <1>2 DEF ConsumeExpired, ClockRecorded, TypeOK, Lanes, Steps, Idle,
     ClaimantKnown, Submitting, NotClaimed, Release
<1>3. ASSUME NEW h \in Hosts, Consume(h) PROVE TypeOK'
  <2>1. Claims(h, lane[h].request, lane[h].receipt)
    BY <1>3, ConsumeEffect
  <2> QED BY <2>1, NoneAssumption DEF TypeOK, Claims, LaneIs, OnlyLane, Claimed
<1>4. ASSUME NEW h \in Hosts, Clear(h) PROVE TypeOK'
  BY <1>4 DEF Clear, TypeOK, Lanes, Steps, journal, history, Move
<1>5. ASSUME NEW h \in Hosts, Stopped(h) PROVE TypeOK'
  BY <1>5 DEF Stopped, TypeOK, Lanes, Steps, Idle, journal, history, Release
<1>6. ASSUME NEW h \in Hosts, BeginSubmission(h) PROVE TypeOK'
  <2>1. Writes(h, "cleared", {"claimed"}, "submitting", "begun")
    BY <1>6, BeginEffect
  <2> QED BY <1>6, <2>1, WritesKeepType DEF States
<1>7. ASSUME NEW h \in Hosts, BeginFails(h) PROVE TypeOK'
  BY <1>7 DEF BeginFails, TypeOK, Lanes, Steps, Idle, journal, history, Release
<1>8. ASSUME NEW h \in Hosts, CallBroker(h) PROVE TypeOK'
  BY <1>8 DEF CallBroker, TypeOK, Lanes, Steps, journal, Move
<1>9. ASSUME NEW h \in Hosts, Answered(h) PROVE TypeOK'
  BY <1>9 DEF Answered, TypeOK, Lanes, Steps, journal, history, Move
<1>10. ASSUME NEW h \in Hosts, CallRaises(h) PROVE TypeOK'
  BY <1>10, BoundAssumption DEF CallRaises, TypeOK, Lanes, Steps, journal,
     history, Move
<1>11. ASSUME NEW h \in Hosts, MarkSubmitted(h) PROVE TypeOK'
  <2>1. Writes(h, "answered", {"submitting"}, "submitted", "failing")
    BY <1>11, MarkSubmittedEffect
  <2> QED BY <1>11, <2>1, WritesKeepType DEF States
<1>12. ASSUME NEW h \in Hosts, MarkSubmittedFails(h) PROVE TypeOK'
  BY <1>12, BoundAssumption DEF MarkSubmittedFails, TypeOK, Lanes, Steps,
     journal, history, Move
<1>13. ASSUME NEW h \in Hosts, MarkUncertain(h) PROVE TypeOK'
  <2>1. Writes(h, "failing", {"submitting"}, "uncertain", "idle")
    BY <1>13, MarkUncertainEffect
  <2> QED BY <1>13, <2>1, WritesKeepType DEF States
<1>14. ASSUME NEW h \in Hosts, GiveUp(h) PROVE TypeOK'
  BY <1>14 DEF GiveUp, TypeOK, Lanes, Steps, Idle, journal, history, Release
<1>15. ASSUME NEW h \in Hosts, CloseClaim(h) PROVE TypeOK'
  <2>1. Writes(h, "closing", {"claimed"}, "closed", "idle")
    BY <1>15, CloseEffect
  <2> QED BY <1>15, <2>1, WritesKeepType DEF States
<1>16. ASSUME NEW h \in Hosts, LookUp(h) PROVE TypeOK'
  BY <1>16 DEF LookUp, TypeOK, Lanes, Steps, journal, history, Move
<1>17. ASSUME NEW h \in Hosts, MarkFound(h) PROVE TypeOK'
  <2>1. Writes(h, "seen", Attempted, "found", "idle")
    BY <1>17, FoundEffect
  <2> QED BY <1>17, <2>1, WritesKeepType DEF States, Attempted
<1>18. ASSUME NEW h \in Hosts, ReconcileFails(h) PROVE TypeOK'
  BY <1>18 DEF ReconcileFails, TypeOK, Lanes, Steps, Idle, journal, history,
     Release
<1>19. ASSUME NEW h \in Hosts, Crash(h) PROVE TypeOK'
  BY <1>19, BoundAssumption DEF Crash, TypeOK, Lanes, Steps, Idle, journal,
     Release
<1>20. ASSUME NEW h \in Hosts, NEW r \in Receipts, Submit(h, r) PROVE TypeOK'
  BY <1>20, BindingAssumption, NoneAssumption DEF Submit, TypeOK, Lanes,
     Steps, journal, history, Take
<1>21. ASSUME NEW h \in Hosts, NEW q \in Requests, Reconcile(h, q) PROVE TypeOK'
  <2>1. LooksInto(h, q)
    BY <1>21, ReconcileEffect
  <2> QED BY <2>1, NoneAssumption DEF TypeOK, LooksInto, LaneIs, OnlyLane
<1>22. ASSUME NEW q \in Requests, BrokerDecides(q) PROVE TypeOK'
  BY <1>22 DEF BrokerDecides, TypeOK, journal, history
<1>23. ASSUME SetStop PROVE TypeOK'
  BY <1>23 DEF SetStop, TypeOK, journal
<1>24. ASSUME LiftStop PROVE TypeOK'
  BY <1>24 DEF LiftStop, TypeOK, journal
<1>25. ASSUME ClockMoves PROVE TypeOK'
  BY <1>25 DEF ClockMoves, TypeOK, journal, history
<1>26. CASE UNCHANGED vars
  BY <1>26 DEF vars, TypeOK
<1> QED BY <1>1, <1>1a, <1>2, <1>3, <1>4, <1>5, <1>6, <1>7, <1>8, <1>9, <1>10, <1>11,
           <1>12, <1>13, <1>14, <1>15, <1>16, <1>17, <1>18, <1>19, <1>20,
           <1>21, <1>22, <1>23, <1>24, <1>25, <1>26 DEF Next, Work

(* A row keeps its claimant, who alone is beyond consume() with it.        *)
LEMMA ClaimantStep ==
  ASSUME TypeOK, ClaimantKnown, TypeOK', [Next]_vars
  PROVE  ClaimantKnown'
<1>1. ASSUME NEW h \in Hosts, SubmitRefused(h) PROVE ClaimantKnown'
  BY <1>1 DEF SubmitRefused, Idle, journal, ClaimantKnown, Submitting, NotClaimed, Release
<1>1a. ASSUME NEW h \in Hosts, Screen(h) PROVE ClaimantKnown'
  BY <1>1a DEF Screen, journal, ClaimantKnown, Submitting, NotClaimed, Move
<1>2. ASSUME NEW h \in Hosts, ConsumeExpired(h) PROVE ClaimantKnown'
  BY <1>2 DEF ConsumeExpired, ClockRecorded, Idle, ClaimantKnown, Submitting, NotClaimed,
     Release
<1>3. ASSUME NEW h \in Hosts, Consume(h) PROVE ClaimantKnown'
  <2>1. Claims(h, lane[h].request, lane[h].receipt)
    BY <1>3, ConsumeEffect
  <2>2. lane[h].request \in Requests /\ lane[h].receipt \in Receipts
    BY <2>1 DEF Claims
  <2> QED BY <2>1, <2>2, ClaimsKeepClaimant
<1>4. ASSUME NEW h \in Hosts, Clear(h) PROVE ClaimantKnown'
  BY <1>4 DEF Clear, journal, ClaimantKnown, Submitting, NotClaimed, Move
<1>5. ASSUME NEW h \in Hosts, Stopped(h) PROVE ClaimantKnown'
  BY <1>5 DEF Stopped, Idle, journal, ClaimantKnown, Submitting, NotClaimed, Release
<1>6. ASSUME NEW h \in Hosts, BeginSubmission(h) PROVE ClaimantKnown'
  <2>1. Writes(h, "cleared", {"claimed"}, "submitting", "begun")
    BY <1>6, BeginEffect
  <2> QED BY <1>6, <2>1, WritesKeepClaimant DEF States, Submitting, NotClaimed
<1>7. ASSUME NEW h \in Hosts, BeginFails(h) PROVE ClaimantKnown'
  BY <1>7 DEF BeginFails, Idle, journal, ClaimantKnown, Submitting, NotClaimed, Release
<1>8. ASSUME NEW h \in Hosts, CallBroker(h) PROVE ClaimantKnown'
  BY <1>8 DEF CallBroker, journal, ClaimantKnown, Submitting, NotClaimed, Move
<1>9. ASSUME NEW h \in Hosts, Answered(h) PROVE ClaimantKnown'
  BY <1>9 DEF Answered, journal, ClaimantKnown, Submitting, NotClaimed, Move
<1>10. ASSUME NEW h \in Hosts, CallRaises(h) PROVE ClaimantKnown'
  BY <1>10 DEF CallRaises, journal, ClaimantKnown, Submitting, NotClaimed, Move
<1>11. ASSUME NEW h \in Hosts, MarkSubmitted(h) PROVE ClaimantKnown'
  <2>1. Writes(h, "answered", {"submitting"}, "submitted", "failing")
    BY <1>11, MarkSubmittedEffect
  <2> QED BY <1>11, <2>1, WritesKeepClaimant DEF States, Submitting, NotClaimed
<1>12. ASSUME NEW h \in Hosts, MarkSubmittedFails(h) PROVE ClaimantKnown'
  BY <1>12 DEF MarkSubmittedFails, journal, ClaimantKnown, Submitting, NotClaimed, Move
<1>13. ASSUME NEW h \in Hosts, MarkUncertain(h) PROVE ClaimantKnown'
  <2>1. Writes(h, "failing", {"submitting"}, "uncertain", "idle")
    BY <1>13, MarkUncertainEffect
  <2> QED BY <1>13, <2>1, WritesKeepClaimant DEF States
<1>14. ASSUME NEW h \in Hosts, GiveUp(h) PROVE ClaimantKnown'
  BY <1>14 DEF GiveUp, Idle, journal, ClaimantKnown, Submitting, NotClaimed, Release
<1>15. ASSUME NEW h \in Hosts, CloseClaim(h) PROVE ClaimantKnown'
  <2>1. Writes(h, "closing", {"claimed"}, "closed", "idle")
    BY <1>15, CloseEffect
  <2> QED BY <1>15, <2>1, WritesKeepClaimant DEF States
<1>16. ASSUME NEW h \in Hosts, LookUp(h) PROVE ClaimantKnown'
  BY <1>16 DEF LookUp, journal, ClaimantKnown, Submitting, NotClaimed, Move
<1>17. ASSUME NEW h \in Hosts, MarkFound(h) PROVE ClaimantKnown'
  <2>1. Writes(h, "seen", Attempted, "found", "idle")
    BY <1>17, FoundEffect
  <2> QED BY <1>17, <2>1, WritesKeepClaimant DEF States, Attempted
<1>18. ASSUME NEW h \in Hosts, ReconcileFails(h) PROVE ClaimantKnown'
  BY <1>18 DEF ReconcileFails, Idle, journal, ClaimantKnown, Submitting, NotClaimed,
     Release
<1>19. ASSUME NEW h \in Hosts, Crash(h) PROVE ClaimantKnown'
  BY <1>19 DEF Crash, Idle, journal, ClaimantKnown, Submitting, NotClaimed, Release
<1>20. ASSUME NEW h \in Hosts, NEW r \in Receipts, Submit(h, r) PROVE ClaimantKnown'
  BY <1>20, BindingAssumption
     DEF Submit, journal, ClaimantKnown, Submitting, NotClaimed, Take
<1>21. ASSUME NEW h \in Hosts, NEW q \in Requests, Reconcile(h, q) PROVE ClaimantKnown'
  <2>1. LooksInto(h, q)
    BY <1>21, ReconcileEffect
  <2> QED BY <2>1, BoundAssumption DEF ClaimantKnown, Submitting, NotClaimed, LooksInto,
             LaneIs, OnlyLane
<1>22. ASSUME NEW q \in Requests, BrokerDecides(q) PROVE ClaimantKnown'
  BY <1>22 DEF BrokerDecides, journal, ClaimantKnown
<1>23. ASSUME SetStop PROVE ClaimantKnown'
  BY <1>23 DEF SetStop, journal, ClaimantKnown
<1>24. ASSUME LiftStop PROVE ClaimantKnown'
  BY <1>24 DEF LiftStop, journal, ClaimantKnown
<1>25. ASSUME ClockMoves PROVE ClaimantKnown'
  BY <1>25 DEF ClockMoves, journal, ClaimantKnown
<1>26. CASE UNCHANGED vars
  BY <1>26 DEF vars, ClaimantKnown
<1> QED BY <1>1, <1>1a, <1>2, <1>3, <1>4, <1>5, <1>6, <1>7, <1>8, <1>9, <1>10, <1>11,
           <1>12, <1>13, <1>14, <1>15, <1>16, <1>17, <1>18, <1>19, <1>20,
           <1>21, <1>22, <1>23, <1>24, <1>25, <1>26 DEF Next, Work

(* At most one call, and none for what has not begun.                      *)
LEMMA SentStep ==
  ASSUME TypeOK, ClaimantKnown, SentOnce, KnownIsAccepted, TypeOK', [Next]_vars
  PROVE  SentOnce'
<1>1. ASSUME NEW h \in Hosts, SubmitRefused(h) PROVE SentOnce'
  BY <1>1 DEF SubmitRefused, Idle, journal, history, SentOnce, NothingSent,
     AtMostOneBrokerCall, Release
<1>1a. ASSUME NEW h \in Hosts, Screen(h) PROVE SentOnce'
  BY <1>1a DEF Screen, TypeOK, journal, history, SentOnce, NothingSent, Unsent,
     AtMostOneBrokerCall, Move
<1>2. ASSUME NEW h \in Hosts, ConsumeExpired(h) PROVE SentOnce'
  BY <1>2 DEF ConsumeExpired, ClockRecorded, Idle, SentOnce, NothingSent,
     AtMostOneBrokerCall, Release
<1>3. ASSUME NEW h \in Hosts, Consume(h) PROVE SentOnce'
  <2>1. Claims(h, lane[h].request, lane[h].receipt)
    BY <1>3, ConsumeEffect
  <2>2. lane[h].request \in Requests /\ lane[h].receipt \in Receipts
    BY <2>1 DEF Claims
  <2> QED BY <2>1, <2>2, ClaimsKeepSent
<1>4. ASSUME NEW h \in Hosts, Clear(h) PROVE SentOnce'
  BY <1>4 DEF Clear, journal, history, SentOnce, NothingSent,
     AtMostOneBrokerCall, Move
<1>5. ASSUME NEW h \in Hosts, Stopped(h) PROVE SentOnce'
  BY <1>5 DEF Stopped, Idle, journal, history, SentOnce, NothingSent,
     AtMostOneBrokerCall, Release
<1>6. ASSUME NEW h \in Hosts, BeginSubmission(h) PROVE SentOnce'
  <2>1. Writes(h, "cleared", {"claimed"}, "submitting", "begun")
    BY <1>6, BeginEffect
  <2> QED BY <1>6, <2>1, WritesKeepSent DEF Unsent, BeginSubmission
<1>7. ASSUME NEW h \in Hosts, BeginFails(h) PROVE SentOnce'
  BY <1>7 DEF BeginFails, Idle, journal, history, SentOnce, NothingSent,
     AtMostOneBrokerCall, Release
<1>8. ASSUME NEW h \in Hosts, CallBroker(h) PROVE SentOnce'
  BY <1>8 DEF CallBroker, TypeOK, journal, ClaimantKnown, Submitting, NotClaimed,
     SentOnce, NothingSent, Unsent, AtMostOneBrokerCall, Move
<1>9. ASSUME NEW h \in Hosts, Answered(h) PROVE SentOnce'
  BY <1>9 DEF Answered, journal, history, SentOnce, NothingSent,
     AtMostOneBrokerCall, Move
<1>10. ASSUME NEW h \in Hosts, CallRaises(h) PROVE SentOnce'
  BY <1>10 DEF CallRaises, journal, history, SentOnce, NothingSent,
     AtMostOneBrokerCall, Move
<1>11. ASSUME NEW h \in Hosts, MarkSubmitted(h) PROVE SentOnce'
  <2>1. Writes(h, "answered", {"submitting"}, "submitted", "failing")
    BY <1>11, MarkSubmittedEffect
  <2> QED BY <1>11, <2>1, WritesKeepSent DEF Unsent
<1>12. ASSUME NEW h \in Hosts, MarkSubmittedFails(h) PROVE SentOnce'
  BY <1>12 DEF MarkSubmittedFails, journal, history, SentOnce, NothingSent,
     AtMostOneBrokerCall, Move
<1>13. ASSUME NEW h \in Hosts, MarkUncertain(h) PROVE SentOnce'
  <2>1. Writes(h, "failing", {"submitting"}, "uncertain", "idle")
    BY <1>13, MarkUncertainEffect
  <2> QED BY <1>13, <2>1, WritesKeepSent DEF Unsent
<1>14. ASSUME NEW h \in Hosts, GiveUp(h) PROVE SentOnce'
  BY <1>14 DEF GiveUp, Idle, journal, history, SentOnce, NothingSent,
     AtMostOneBrokerCall, Release
<1>15. ASSUME NEW h \in Hosts, CloseClaim(h) PROVE SentOnce'
  <2>1. Writes(h, "closing", {"claimed"}, "closed", "idle")
    BY <1>15, CloseEffect
  <2> QED BY <1>15, <2>1, WritesKeepSent DEF Unsent
<1>16. ASSUME NEW h \in Hosts, LookUp(h) PROVE SentOnce'
  BY <1>16 DEF LookUp, journal, history, SentOnce, NothingSent,
     AtMostOneBrokerCall, Move
<1>17. ASSUME NEW h \in Hosts, MarkFound(h) PROVE SentOnce'
  <2>1. Writes(h, "seen", Attempted, "found", "idle")
    BY <1>17, FoundEffect
  <2> QED BY <1>17, <2>1, WritesKeepSent DEF Unsent
<1>18. ASSUME NEW h \in Hosts, ReconcileFails(h) PROVE SentOnce'
  BY <1>18 DEF ReconcileFails, Idle, journal, history, SentOnce, NothingSent,
     AtMostOneBrokerCall, Release
<1>19. ASSUME NEW h \in Hosts, Crash(h) PROVE SentOnce'
  BY <1>19 DEF Crash, Idle, journal, SentOnce, NothingSent,
     AtMostOneBrokerCall, Release
<1>20. ASSUME NEW h \in Hosts, NEW r \in Receipts, Submit(h, r) PROVE SentOnce'
  BY <1>20 DEF Submit, journal, history, SentOnce, NothingSent,
     AtMostOneBrokerCall, Take
<1>21. ASSUME NEW h \in Hosts, NEW q \in Requests, Reconcile(h, q) PROVE SentOnce'
  <2>1. LooksInto(h, q)
    BY <1>21, ReconcileEffect
  <2> QED BY <2>1 DEF SentOnce, NothingSent, AtMostOneBrokerCall, LooksInto,
             LaneIs, OnlyLane
<1>22. ASSUME NEW q \in Requests, BrokerDecides(q) PROVE SentOnce'
  BY <1>22 DEF BrokerDecides, journal, history, SentOnce, NothingSent,
     AtMostOneBrokerCall
<1>23. ASSUME SetStop PROVE SentOnce'
  BY <1>23 DEF SetStop, journal, SentOnce, NothingSent, AtMostOneBrokerCall
<1>24. ASSUME LiftStop PROVE SentOnce'
  BY <1>24 DEF LiftStop, journal, SentOnce, NothingSent, AtMostOneBrokerCall
<1>25. ASSUME ClockMoves PROVE SentOnce'
  BY <1>25 DEF ClockMoves, journal, history, SentOnce, NothingSent,
     AtMostOneBrokerCall
<1>26. CASE UNCHANGED vars
  BY <1>26 DEF vars, SentOnce, NothingSent, AtMostOneBrokerCall
<1> QED BY <1>1, <1>1a, <1>2, <1>3, <1>4, <1>5, <1>6, <1>7, <1>8, <1>9, <1>10, <1>11,
           <1>12, <1>13, <1>14, <1>15, <1>16, <1>17, <1>18, <1>19, <1>20,
           <1>21, <1>22, <1>23, <1>24, <1>25, <1>26 DEF Next, Work

(* What is taken for an order of the broker is one.                        *)
LEMMA KnownStep ==
  ASSUME TypeOK, ClaimantKnown, SentOnce, KnownIsAccepted, TypeOK', [Next]_vars
  PROVE  KnownIsAccepted'
<1>1. ASSUME NEW h \in Hosts, SubmitRefused(h) PROVE KnownIsAccepted'
  BY <1>1 DEF SubmitRefused, Idle, journal, KnownIsAccepted, Release
<1>1a. ASSUME NEW h \in Hosts, Screen(h) PROVE KnownIsAccepted'
  BY <1>1a DEF Screen, journal, history, KnownIsAccepted, Move
<1>2. ASSUME NEW h \in Hosts, ConsumeExpired(h) PROVE KnownIsAccepted'
  BY <1>2 DEF ConsumeExpired, ClockRecorded, Idle, KnownIsAccepted, Release
<1>3. ASSUME NEW h \in Hosts, Consume(h) PROVE KnownIsAccepted'
  <2>1. Claims(h, lane[h].request, lane[h].receipt)
    BY <1>3, ConsumeEffect
  <2>2. lane[h].request \in Requests /\ lane[h].receipt \in Receipts
    BY <2>1 DEF Claims
  <2> QED BY <2>1, <2>2, ClaimsKeepKnown
<1>4. ASSUME NEW h \in Hosts, Clear(h) PROVE KnownIsAccepted'
  BY <1>4 DEF Clear, journal, KnownIsAccepted, Move
<1>5. ASSUME NEW h \in Hosts, Stopped(h) PROVE KnownIsAccepted'
  BY <1>5 DEF Stopped, Idle, journal, KnownIsAccepted, Release
<1>6. ASSUME NEW h \in Hosts, BeginSubmission(h) PROVE KnownIsAccepted'
  <2>1. Writes(h, "cleared", {"claimed"}, "submitting", "begun")
    BY <1>6, BeginEffect
  <2> QED BY <1>6, <2>1, WritesKeepKnown
<1>7. ASSUME NEW h \in Hosts, BeginFails(h) PROVE KnownIsAccepted'
  BY <1>7 DEF BeginFails, Idle, journal, KnownIsAccepted, Release
<1>8. ASSUME NEW h \in Hosts, CallBroker(h) PROVE KnownIsAccepted'
  BY <1>8 DEF CallBroker, journal, KnownIsAccepted, Move
<1>9. ASSUME NEW h \in Hosts, Answered(h) PROVE KnownIsAccepted'
  BY <1>9 DEF Answered, journal, KnownIsAccepted, Move
<1>10. ASSUME NEW h \in Hosts, CallRaises(h) PROVE KnownIsAccepted'
  BY <1>10 DEF CallRaises, journal, KnownIsAccepted, Move
<1>11. ASSUME NEW h \in Hosts, MarkSubmitted(h) PROVE KnownIsAccepted'
  <2>1. Writes(h, "answered", {"submitting"}, "submitted", "failing")
    BY <1>11, MarkSubmittedEffect
  <2> QED BY <1>11, <2>1, WritesKeepKnown
<1>12. ASSUME NEW h \in Hosts, MarkSubmittedFails(h) PROVE KnownIsAccepted'
  BY <1>12 DEF MarkSubmittedFails, journal, KnownIsAccepted, Move
<1>13. ASSUME NEW h \in Hosts, MarkUncertain(h) PROVE KnownIsAccepted'
  <2>1. Writes(h, "failing", {"submitting"}, "uncertain", "idle")
    BY <1>13, MarkUncertainEffect
  <2> QED BY <1>13, <2>1, WritesKeepKnown
<1>14. ASSUME NEW h \in Hosts, GiveUp(h) PROVE KnownIsAccepted'
  BY <1>14 DEF GiveUp, Idle, journal, KnownIsAccepted, Release
<1>15. ASSUME NEW h \in Hosts, CloseClaim(h) PROVE KnownIsAccepted'
  <2>1. Writes(h, "closing", {"claimed"}, "closed", "idle")
    BY <1>15, CloseEffect
  <2> QED BY <1>15, <2>1, WritesKeepKnown
<1>16. ASSUME NEW h \in Hosts, LookUp(h) PROVE KnownIsAccepted'
  BY <1>16 DEF LookUp, journal, KnownIsAccepted, Move
<1>17. ASSUME NEW h \in Hosts, MarkFound(h) PROVE KnownIsAccepted'
  <2>1. Writes(h, "seen", Attempted, "found", "idle")
    BY <1>17, FoundEffect
  <2> QED BY <1>17, <2>1, WritesKeepKnown
<1>18. ASSUME NEW h \in Hosts, ReconcileFails(h) PROVE KnownIsAccepted'
  BY <1>18 DEF ReconcileFails, Idle, journal, KnownIsAccepted, Release
<1>19. ASSUME NEW h \in Hosts, Crash(h) PROVE KnownIsAccepted'
  BY <1>19 DEF Crash, Idle, journal, KnownIsAccepted, Release
<1>20. ASSUME NEW h \in Hosts, NEW r \in Receipts, Submit(h, r) PROVE KnownIsAccepted'
  BY <1>20 DEF Submit, journal, KnownIsAccepted, Take
<1>21. ASSUME NEW h \in Hosts, NEW q \in Requests, Reconcile(h, q) PROVE KnownIsAccepted'
  <2>1. LooksInto(h, q)
    BY <1>21, ReconcileEffect
  <2> QED BY <2>1 DEF KnownIsAccepted, LooksInto, LaneIs, OnlyLane
<1>22. ASSUME NEW q \in Requests, BrokerDecides(q) PROVE KnownIsAccepted'
  BY <1>22 DEF BrokerDecides, journal, KnownIsAccepted
<1>23. ASSUME SetStop PROVE KnownIsAccepted'
  BY <1>23 DEF SetStop, journal, KnownIsAccepted
<1>24. ASSUME LiftStop PROVE KnownIsAccepted'
  BY <1>24 DEF LiftStop, journal, KnownIsAccepted
<1>25. ASSUME ClockMoves PROVE KnownIsAccepted'
  BY <1>25 DEF ClockMoves, journal, KnownIsAccepted
<1>26. CASE UNCHANGED vars
  BY <1>26 DEF vars, KnownIsAccepted
<1> QED BY <1>1, <1>1a, <1>2, <1>3, <1>4, <1>5, <1>6, <1>7, <1>8, <1>9, <1>10, <1>11,
           <1>12, <1>13, <1>14, <1>15, <1>16, <1>17, <1>18, <1>19, <1>20,
           <1>21, <1>22, <1>23, <1>24, <1>25, <1>26 DEF Next, Work

(* A host that is about to claim has nothing unresolved.                   *)
LEMMA CleanStep ==
  ASSUME TypeOK, ClaimantKnown, CleanBeforeClaim, TypeOK', [Next]_vars
  PROVE  CleanBeforeClaim'
<1>1. ASSUME NEW h \in Hosts, SubmitRefused(h) PROVE CleanBeforeClaim'
  BY <1>1 DEF SubmitRefused, TypeOK, Idle, journal, CleanBeforeClaim,
     OneUnresolvedPerHost, Release
<1>1a. ASSUME NEW h \in Hosts, Screen(h) PROVE CleanBeforeClaim'
  BY <1>1a DEF Screen, TypeOK, Candidates, journal, CleanBeforeClaim, Unresolved,
     OneUnresolvedPerHost, Move
<1>2. ASSUME NEW h \in Hosts, ConsumeExpired(h) PROVE CleanBeforeClaim'
  BY <1>2 DEF ConsumeExpired, ClockRecorded, CleanBeforeClaim,
     OneUnresolvedPerHost, Release
<1>3. ASSUME NEW h \in Hosts, Consume(h) PROVE CleanBeforeClaim'
  <2>1. Claims(h, lane[h].request, lane[h].receipt)
    BY <1>3, ConsumeEffect
  <2>2. lane[h].request \in Requests /\ lane[h].receipt \in Receipts
    BY <2>1 DEF Claims
  <2> QED BY <2>1, <2>2, ClaimsKeepClean
<1>4. ASSUME NEW h \in Hosts, Clear(h) PROVE CleanBeforeClaim'
  BY <1>4 DEF Clear, journal, CleanBeforeClaim, OneUnresolvedPerHost, Move
<1>5. ASSUME NEW h \in Hosts, Stopped(h) PROVE CleanBeforeClaim'
  BY <1>5 DEF Stopped, Idle, journal, CleanBeforeClaim, OneUnresolvedPerHost,
     Release
<1>6. ASSUME NEW h \in Hosts, BeginSubmission(h) PROVE CleanBeforeClaim'
  <2>1. Writes(h, "cleared", {"claimed"}, "submitting", "begun")
    BY <1>6, BeginEffect
  <2> QED BY <1>6, <2>1, WritesKeepClean DEF Unresolved
<1>7. ASSUME NEW h \in Hosts, BeginFails(h) PROVE CleanBeforeClaim'
  BY <1>7 DEF BeginFails, Idle, journal, CleanBeforeClaim,
     OneUnresolvedPerHost, Release
<1>8. ASSUME NEW h \in Hosts, CallBroker(h) PROVE CleanBeforeClaim'
  BY <1>8 DEF CallBroker, journal, CleanBeforeClaim, OneUnresolvedPerHost, Move
<1>9. ASSUME NEW h \in Hosts, Answered(h) PROVE CleanBeforeClaim'
  BY <1>9 DEF Answered, journal, CleanBeforeClaim, OneUnresolvedPerHost, Move
<1>10. ASSUME NEW h \in Hosts, CallRaises(h) PROVE CleanBeforeClaim'
  BY <1>10 DEF CallRaises, journal, CleanBeforeClaim, OneUnresolvedPerHost,
     Move
<1>11. ASSUME NEW h \in Hosts, MarkSubmitted(h) PROVE CleanBeforeClaim'
  <2>1. Writes(h, "answered", {"submitting"}, "submitted", "failing")
    BY <1>11, MarkSubmittedEffect
  <2> QED BY <1>11, <2>1, WritesKeepClean DEF Unresolved
<1>12. ASSUME NEW h \in Hosts, MarkSubmittedFails(h) PROVE CleanBeforeClaim'
  BY <1>12 DEF MarkSubmittedFails, journal, CleanBeforeClaim,
     OneUnresolvedPerHost, Move
<1>13. ASSUME NEW h \in Hosts, MarkUncertain(h) PROVE CleanBeforeClaim'
  <2>1. Writes(h, "failing", {"submitting"}, "uncertain", "idle")
    BY <1>13, MarkUncertainEffect
  <2> QED BY <1>13, <2>1, WritesKeepClean DEF Unresolved
<1>14. ASSUME NEW h \in Hosts, GiveUp(h) PROVE CleanBeforeClaim'
  BY <1>14 DEF GiveUp, Idle, journal, CleanBeforeClaim, OneUnresolvedPerHost,
     Release
<1>15. ASSUME NEW h \in Hosts, CloseClaim(h) PROVE CleanBeforeClaim'
  <2>1. Writes(h, "closing", {"claimed"}, "closed", "idle")
    BY <1>15, CloseEffect
  <2> QED BY <1>15, <2>1, WritesKeepClean DEF Unresolved
<1>16. ASSUME NEW h \in Hosts, LookUp(h) PROVE CleanBeforeClaim'
  BY <1>16 DEF LookUp, journal, CleanBeforeClaim, OneUnresolvedPerHost, Move
<1>17. ASSUME NEW h \in Hosts, MarkFound(h) PROVE CleanBeforeClaim'
  <2>1. Writes(h, "seen", Attempted, "found", "idle")
    BY <1>17, FoundEffect
  <2> QED BY <1>17, <2>1, WritesKeepClean DEF Unresolved
<1>18. ASSUME NEW h \in Hosts, ReconcileFails(h) PROVE CleanBeforeClaim'
  BY <1>18 DEF ReconcileFails, Idle, journal, CleanBeforeClaim,
     OneUnresolvedPerHost, Release
<1>19. ASSUME NEW h \in Hosts, Crash(h) PROVE CleanBeforeClaim'
  BY <1>19 DEF Crash, Idle, journal, CleanBeforeClaim, OneUnresolvedPerHost,
     Release
<1>20. ASSUME NEW h \in Hosts, NEW r \in Receipts, Submit(h, r) PROVE CleanBeforeClaim'
  BY <1>20 DEF Submit, Take, TypeOK, journal, CleanBeforeClaim,
     OneUnresolvedPerHost, Unresolved
<1>21. ASSUME NEW h \in Hosts, NEW q \in Requests, Reconcile(h, q) PROVE CleanBeforeClaim'
  <2>1. LooksInto(h, q)
    BY <1>21, ReconcileEffect
  <2> QED BY <2>1 DEF CleanBeforeClaim, OneUnresolvedPerHost, LooksInto,
             LaneIs, OnlyLane
<1>22. ASSUME NEW q \in Requests, BrokerDecides(q) PROVE CleanBeforeClaim'
  BY <1>22 DEF BrokerDecides, journal, CleanBeforeClaim, OneUnresolvedPerHost
<1>23. ASSUME SetStop PROVE CleanBeforeClaim'
  BY <1>23 DEF SetStop, journal, CleanBeforeClaim, OneUnresolvedPerHost
<1>24. ASSUME LiftStop PROVE CleanBeforeClaim'
  BY <1>24 DEF LiftStop, journal, CleanBeforeClaim, OneUnresolvedPerHost
<1>25. ASSUME ClockMoves PROVE CleanBeforeClaim'
  BY <1>25 DEF ClockMoves, journal, CleanBeforeClaim, OneUnresolvedPerHost
<1>26. CASE UNCHANGED vars
  BY <1>26 DEF vars, CleanBeforeClaim, OneUnresolvedPerHost
<1> QED BY <1>1, <1>1a, <1>2, <1>3, <1>4, <1>5, <1>6, <1>7, <1>8, <1>9, <1>10, <1>11,
           <1>12, <1>13, <1>14, <1>15, <1>16, <1>17, <1>18, <1>19, <1>20,
           <1>21, <1>22, <1>23, <1>24, <1>25, <1>26 DEF Next, Work

(* STOP is read between the claim and the attempt.                         *)
LEMMA StopStep ==
  ASSUME TypeOK, ClaimantKnown, StopReachesEveryLane, TypeOK', [Next]_vars
  PROVE  StopReachesEveryLane'
<1>1. ASSUME NEW h \in Hosts, SubmitRefused(h) PROVE StopReachesEveryLane'
  BY <1>1 DEF SubmitRefused, Idle, history, StopReachesEveryLane, Release
<1>1a. ASSUME NEW h \in Hosts, Screen(h) PROVE StopReachesEveryLane'
  BY <1>1a DEF Screen, TypeOK, history, StopReachesEveryLane, Move
<1>2. ASSUME NEW h \in Hosts, ConsumeExpired(h) PROVE StopReachesEveryLane'
  BY <1>2 DEF ConsumeExpired, ClockRecorded, Idle, StopReachesEveryLane,
     Release
<1>3. ASSUME NEW h \in Hosts, Consume(h) PROVE StopReachesEveryLane'
  <2>1. Claims(h, lane[h].request, lane[h].receipt)
    BY <1>3, ConsumeEffect
  <2> QED BY <2>1 DEF StopReachesEveryLane, Claims, LaneIs, OnlyLane
<1>4. ASSUME NEW h \in Hosts, Clear(h) PROVE StopReachesEveryLane'
  BY <1>4 DEF Clear, StopReachesEveryLane
<1>5. ASSUME NEW h \in Hosts, Stopped(h) PROVE StopReachesEveryLane'
  BY <1>5 DEF Stopped, Idle, history, StopReachesEveryLane, Release
<1>6. ASSUME NEW h \in Hosts, BeginSubmission(h) PROVE StopReachesEveryLane'
  <2>1. Writes(h, "cleared", {"claimed"}, "submitting", "begun")
    BY <1>6, BeginEffect
  <2> QED BY <2>1 DEF StopReachesEveryLane, Writes, OnlyLane
<1>7. ASSUME NEW h \in Hosts, BeginFails(h) PROVE StopReachesEveryLane'
  BY <1>7 DEF BeginFails, history, StopReachesEveryLane, Release
<1>8. ASSUME NEW h \in Hosts, CallBroker(h) PROVE StopReachesEveryLane'
  BY <1>8 DEF CallBroker, StopReachesEveryLane, Move
<1>9. ASSUME NEW h \in Hosts, Answered(h) PROVE StopReachesEveryLane'
  BY <1>9 DEF Answered, history, StopReachesEveryLane, Move
<1>10. ASSUME NEW h \in Hosts, CallRaises(h) PROVE StopReachesEveryLane'
  BY <1>10 DEF CallRaises, history, StopReachesEveryLane, Move
<1>11. ASSUME NEW h \in Hosts, MarkSubmitted(h) PROVE StopReachesEveryLane'
  <2>1. Writes(h, "answered", {"submitting"}, "submitted", "failing")
    BY <1>11, MarkSubmittedEffect
  <2> QED BY <2>1 DEF StopReachesEveryLane, Writes, LaneIs, OnlyLane
<1>12. ASSUME NEW h \in Hosts, MarkSubmittedFails(h) PROVE StopReachesEveryLane'
  BY <1>12 DEF MarkSubmittedFails, history, StopReachesEveryLane, Move
<1>13. ASSUME NEW h \in Hosts, MarkUncertain(h) PROVE StopReachesEveryLane'
  <2>1. Writes(h, "failing", {"submitting"}, "uncertain", "idle")
    BY <1>13, MarkUncertainEffect
  <2> QED BY <2>1 DEF StopReachesEveryLane, Writes, LaneIs, OnlyLane
<1>14. ASSUME NEW h \in Hosts, GiveUp(h) PROVE StopReachesEveryLane'
  BY <1>14 DEF GiveUp, Idle, history, StopReachesEveryLane, Release
<1>15. ASSUME NEW h \in Hosts, CloseClaim(h) PROVE StopReachesEveryLane'
  <2>1. Writes(h, "closing", {"claimed"}, "closed", "idle")
    BY <1>15, CloseEffect
  <2> QED BY <2>1 DEF StopReachesEveryLane, Writes, LaneIs, OnlyLane
<1>16. ASSUME NEW h \in Hosts, LookUp(h) PROVE StopReachesEveryLane'
  BY <1>16 DEF LookUp, history, StopReachesEveryLane, Move
<1>17. ASSUME NEW h \in Hosts, MarkFound(h) PROVE StopReachesEveryLane'
  <2>1. Writes(h, "seen", Attempted, "found", "idle")
    BY <1>17, FoundEffect
  <2> QED BY <2>1 DEF StopReachesEveryLane, Writes, LaneIs, OnlyLane
<1>18. ASSUME NEW h \in Hosts, ReconcileFails(h) PROVE StopReachesEveryLane'
  BY <1>18 DEF ReconcileFails, Idle, history, StopReachesEveryLane, Release
<1>19. ASSUME NEW h \in Hosts, Crash(h) PROVE StopReachesEveryLane'
  BY <1>19 DEF Crash, Idle, StopReachesEveryLane, Release
<1>20. ASSUME NEW h \in Hosts, NEW r \in Receipts, Submit(h, r) PROVE StopReachesEveryLane'
  BY <1>20 DEF Submit, StopReachesEveryLane
<1>21. ASSUME NEW h \in Hosts, NEW q \in Requests, Reconcile(h, q) PROVE StopReachesEveryLane'
  <2>1. LooksInto(h, q)
    BY <1>21, ReconcileEffect
  <2> QED BY <2>1 DEF StopReachesEveryLane, LooksInto, LaneIs, OnlyLane
<1>22. ASSUME NEW q \in Requests, BrokerDecides(q) PROVE StopReachesEveryLane'
  BY <1>22 DEF BrokerDecides, history, StopReachesEveryLane
<1>23. ASSUME SetStop PROVE StopReachesEveryLane'
  BY <1>23 DEF SetStop, StopReachesEveryLane
<1>24. ASSUME LiftStop PROVE StopReachesEveryLane'
  BY <1>24 DEF LiftStop, StopReachesEveryLane
<1>25. ASSUME ClockMoves PROVE StopReachesEveryLane'
  BY <1>25 DEF ClockMoves, history, StopReachesEveryLane
<1>26. CASE UNCHANGED vars
  BY <1>26 DEF vars, StopReachesEveryLane
<1> QED BY <1>1, <1>1a, <1>2, <1>3, <1>4, <1>5, <1>6, <1>7, <1>8, <1>9, <1>10, <1>11,
           <1>12, <1>13, <1>14, <1>15, <1>16, <1>17, <1>18, <1>19, <1>20,
           <1>21, <1>22, <1>23, <1>24, <1>25, <1>26 DEF Next, Work

(* The journal's clock keeps what refusals were made on.                   *)
LEMMA RefusalStep ==
  ASSUME TypeOK, ClaimantKnown, RefusalIsRecorded, TypeOK', [Next]_vars
  PROVE  RefusalIsRecorded'
<1>1. ASSUME NEW h \in Hosts, SubmitRefused(h) PROVE RefusalIsRecorded'
  BY <1>1 DEF SubmitRefused, journal, history, RefusalIsRecorded
<1>1a. ASSUME NEW h \in Hosts, Screen(h) PROVE RefusalIsRecorded'
  BY <1>1a DEF Screen, journal, history, RefusalIsRecorded
<1>2. ASSUME NEW h \in Hosts, ConsumeExpired(h) PROVE RefusalIsRecorded'
  BY <1>2, BindingAssumption DEF ConsumeExpired, ClockRecorded, TypeOK,
     RefusalIsRecorded
<1>3. ASSUME NEW h \in Hosts, Consume(h) PROVE RefusalIsRecorded'
  <2>1. Claims(h, lane[h].request, lane[h].receipt)
    BY <1>3, ConsumeEffect
  <2> QED BY <2>1, BindingAssumption DEF TypeOK, RefusalIsRecorded, Claims
<1>4. ASSUME NEW h \in Hosts, Clear(h) PROVE RefusalIsRecorded'
  BY <1>4 DEF Clear, journal, history, RefusalIsRecorded
<1>5. ASSUME NEW h \in Hosts, Stopped(h) PROVE RefusalIsRecorded'
  BY <1>5 DEF Stopped, journal, history, RefusalIsRecorded
<1>6. ASSUME NEW h \in Hosts, BeginSubmission(h) PROVE RefusalIsRecorded'
  <2>1. Writes(h, "cleared", {"claimed"}, "submitting", "begun")
    BY <1>6, BeginEffect
  <2> QED BY <2>1, BindingAssumption DEF TypeOK, RefusalIsRecorded, Writes
<1>7. ASSUME NEW h \in Hosts, BeginFails(h) PROVE RefusalIsRecorded'
  BY <1>7 DEF BeginFails, journal, history, RefusalIsRecorded
<1>8. ASSUME NEW h \in Hosts, CallBroker(h) PROVE RefusalIsRecorded'
  BY <1>8 DEF CallBroker, journal, RefusalIsRecorded
<1>9. ASSUME NEW h \in Hosts, Answered(h) PROVE RefusalIsRecorded'
  BY <1>9 DEF Answered, journal, history, RefusalIsRecorded
<1>10. ASSUME NEW h \in Hosts, CallRaises(h) PROVE RefusalIsRecorded'
  BY <1>10 DEF CallRaises, journal, history, RefusalIsRecorded
<1>11. ASSUME NEW h \in Hosts, MarkSubmitted(h) PROVE RefusalIsRecorded'
  <2>1. Writes(h, "answered", {"submitting"}, "submitted", "failing")
    BY <1>11, MarkSubmittedEffect
  <2> QED BY <2>1, BindingAssumption DEF TypeOK, RefusalIsRecorded, Writes
<1>12. ASSUME NEW h \in Hosts, MarkSubmittedFails(h) PROVE RefusalIsRecorded'
  BY <1>12 DEF MarkSubmittedFails, journal, history, RefusalIsRecorded
<1>13. ASSUME NEW h \in Hosts, MarkUncertain(h) PROVE RefusalIsRecorded'
  <2>1. Writes(h, "failing", {"submitting"}, "uncertain", "idle")
    BY <1>13, MarkUncertainEffect
  <2> QED BY <2>1, BindingAssumption DEF TypeOK, RefusalIsRecorded, Writes
<1>14. ASSUME NEW h \in Hosts, GiveUp(h) PROVE RefusalIsRecorded'
  BY <1>14 DEF GiveUp, journal, history, RefusalIsRecorded
<1>15. ASSUME NEW h \in Hosts, CloseClaim(h) PROVE RefusalIsRecorded'
  <2>1. Writes(h, "closing", {"claimed"}, "closed", "idle")
    BY <1>15, CloseEffect
  <2> QED BY <2>1, BindingAssumption DEF TypeOK, RefusalIsRecorded, Writes
<1>16. ASSUME NEW h \in Hosts, LookUp(h) PROVE RefusalIsRecorded'
  BY <1>16 DEF LookUp, journal, history, RefusalIsRecorded
<1>17. ASSUME NEW h \in Hosts, MarkFound(h) PROVE RefusalIsRecorded'
  <2>1. Writes(h, "seen", Attempted, "found", "idle")
    BY <1>17, FoundEffect
  <2> QED BY <2>1, BindingAssumption DEF TypeOK, RefusalIsRecorded, Writes
<1>18. ASSUME NEW h \in Hosts, ReconcileFails(h) PROVE RefusalIsRecorded'
  BY <1>18 DEF ReconcileFails, journal, history, RefusalIsRecorded
<1>19. ASSUME NEW h \in Hosts, Crash(h) PROVE RefusalIsRecorded'
  BY <1>19 DEF Crash, journal, RefusalIsRecorded
<1>20. ASSUME NEW h \in Hosts, NEW r \in Receipts, Submit(h, r) PROVE RefusalIsRecorded'
  BY <1>20 DEF Submit, journal, history, RefusalIsRecorded
<1>21. ASSUME NEW h \in Hosts, NEW q \in Requests, Reconcile(h, q) PROVE RefusalIsRecorded'
  <2>1. LooksInto(h, q)
    BY <1>21, ReconcileEffect
  <2> QED BY <2>1 DEF RefusalIsRecorded, LooksInto
<1>22. ASSUME NEW q \in Requests, BrokerDecides(q) PROVE RefusalIsRecorded'
  BY <1>22 DEF BrokerDecides, journal, history, RefusalIsRecorded
<1>23. ASSUME SetStop PROVE RefusalIsRecorded'
  BY <1>23 DEF SetStop, journal, RefusalIsRecorded
<1>24. ASSUME LiftStop PROVE RefusalIsRecorded'
  BY <1>24 DEF LiftStop, journal, RefusalIsRecorded
<1>25. ASSUME ClockMoves PROVE RefusalIsRecorded'
  BY <1>25 DEF ClockMoves, journal, history, RefusalIsRecorded
<1>26. CASE UNCHANGED vars
  BY <1>26 DEF vars, RefusalIsRecorded
<1> QED BY <1>1, <1>1a, <1>2, <1>3, <1>4, <1>5, <1>6, <1>7, <1>8, <1>9, <1>10, <1>11,
           <1>12, <1>13, <1>14, <1>15, <1>16, <1>17, <1>18, <1>19, <1>20,
           <1>21, <1>22, <1>23, <1>24, <1>25, <1>26 DEF Next, Work
-----------------------------------------------------------------------------
(* The invariant. *)

LEMMA InvInit == ASSUME Init PROVE IInv
<1>1. TypeOK
  <2>1. NoRow \in Rows /\ Idle \in Lanes
    BY DEF NoRow, Idle, Rows, States, Lanes, Steps
  <2>2. NoRow.state = "absent" /\ NoRow.receipt = None
    BY DEF NoRow
  <2>3. Idle.at = "idle" /\ Idle.request = None
    BY DEF Idle
  <2>4. \A h \in Hosts : (lane[h].at = "idle") <=> (lane[h].request = None)
    BY <2>3 DEF Init
  <2>5. \A q \in Requests : (row[q].state = "absent") <=> (row[q].receipt = None)
    BY <2>2 DEF Init
  <2>6. /\ row \in [Requests -> Rows] /\ lane \in [Hosts -> Lanes]
        /\ owned \in [Hosts -> SUBSET Requests] /\ stop \in BOOLEAN
    BY <2>1 DEF Init
  <2>7. last \in 0..MaxClock /\ now \in 0..MaxClock /\ crashes \in 0..MaxCrashes
    BY BoundAssumption DEF Init
  <2>8. /\ order \in [Requests -> {"none", "inflight", "accepted", "lost"}]
        /\ calls \in [Requests -> Nat]
        /\ overtaken \in SUBSET Hosts /\ expired \in SUBSET Receipts
    BY DEF Init
  <2> QED BY <2>4, <2>5, <2>6, <2>7, <2>8 DEF TypeOK
<1>2. ClaimantKnown
  BY DEF Init, ClaimantKnown, NoRow, Idle, Submitting, NotClaimed
<1>3. SentOnce
  BY DEF Init, SentOnce, AtMostOneBrokerCall, NoRow, Idle, NothingSent
<1>4. KnownIsAccepted
  BY DEF Init, KnownIsAccepted, NoRow, Idle
<1>5. CleanBeforeClaim
  BY DEF Init, CleanBeforeClaim, OneUnresolvedPerHost, NoRow, Idle
<1>6. StopReachesEveryLane /\ RefusalIsRecorded
  BY DEF Init, StopReachesEveryLane, RefusalIsRecorded
<1> QED BY <1>1, <1>2, <1>3, <1>4, <1>5, <1>6 DEF IInv

LEMMA InvStep == ASSUME IInv, [Next]_vars PROVE IInv'
<1>1. TypeOK'
  BY TypeStep DEF IInv
<1> QED
  BY <1>1, ClaimantStep, SentStep, KnownStep, CleanStep, StopStep, RefusalStep
     DEF IInv

LEMMA Invariance == Spec => []IInv
<1>1. Init => IInv
  BY InvInit
<1>2. IInv /\ [Next]_vars => IInv'
  BY InvStep
<1> QED BY <1>1, <1>2, PTL DEF Spec

(* TypeOK holds of every behaviour: the journal's rows and the lanes stay  *)
(* in their types, a row has a receipt exactly when it exists.             *)
THEOREM TypeCorrect == Spec => []TypeOK
<1>1. IInv => TypeOK
  BY DEF IInv
<1> QED BY <1>1, Invariance, PTL

(* However many hosts share the journal, and whatever crashes, timeouts    *)
(* and failed writes happen, the broker is called at most once a request.  *)
THEOREM SubmittedAtMostOnce == Spec => []AtMostOneBrokerCall
<1>1. IInv => AtMostOneBrokerCall
  BY DEF IInv, SentOnce
<1> QED BY <1>1, Invariance, PTL

(* A claim that a reconciliation closed as not_submitted was never sent    *)
(* and will not be.                                                        *)
THEOREM ClosedNeverSent == Spec => []ClosedClaimIsNeverSent
<1>1. ASSUME IInv PROVE ClosedClaimIsNeverSent
  <2>1. SentOnce
    BY <1>1 DEF IInv
  <2> QED BY <2>1 DEF SentOnce, NothingSent, Unsent, ClosedClaimIsNeverSent
<1> QED BY <1>1, Invariance, PTL

(* No host has two unresolved submissions on its hands.                    *)
THEOREM OneUnresolved == Spec => []OneUnresolvedPerHost
<1>1. IInv => OneUnresolvedPerHost
  BY DEF IInv, CleanBeforeClaim
<1> QED BY <1>1, Invariance, PTL

(* STOP lets through only the lanes that had read it for the second time.  *)
THEOREM StopHolds == Spec => []StopReachesEveryLane
<1>1. IInv => StopReachesEveryLane
  BY DEF IInv
<1> QED BY <1>1, Invariance, PTL

-----------------------------------------------------------------------------
(* Where rows come from. *)

(* A step leaves every absent row absent, or is a claim.                   *)
LEMMA OnlyClaimsInsert ==
  ASSUME IInv, [Next]_vars, NEW q \in Requests,
         row[q].state = "absent", row'[q].state # "absent"
  PROVE  \E h \in Hosts : Consume(h)
<1> DEFINE Goal == \E h \in Hosts : Consume(h)
<1> USE DEF IInv
<1>1. ASSUME NEW h \in Hosts, NEW step, NEW from, NEW to, NEW next,
             Writes(h, step, from, to, next), "absent" \notin from
      PROVE  FALSE
  BY <1>1 DEF Writes, Marks
<1>2. ASSUME NEW h \in Hosts, Work(h) PROVE Goal
  <2>1. CASE BeginSubmission(h)
    BY <1>1, <2>1, BeginEffect
  <2>2. CASE MarkSubmitted(h)
    BY <1>1, <2>2, MarkSubmittedEffect
  <2>3. CASE MarkUncertain(h)
    BY <1>1, <2>3, MarkUncertainEffect
  <2>4. CASE CloseClaim(h)
    BY <1>1, <2>4, CloseEffect
  <2>5. CASE MarkFound(h)
    BY <1>1, <2>5, FoundEffect DEF Attempted
  <2>6. CASE Consume(h)
    BY <2>6
  <2>7. CASE \/ Screen(h) \/ SubmitRefused(h) \/ ConsumeExpired(h) \/ Clear(h) \/ Stopped(h)
             \/ BeginFails(h) \/ CallBroker(h) \/ Answered(h) \/ CallRaises(h)
             \/ MarkSubmittedFails(h) \/ GiveUp(h) \/ LookUp(h) \/ ReconcileFails(h)
    BY <2>7 DEF Screen, SubmitRefused, ConsumeExpired, Clear, Stopped, BeginFails,
       CallBroker,
                Answered, CallRaises, MarkSubmittedFails, GiveUp, LookUp,
                ReconcileFails, journal
  <2> QED BY <1>2, <2>1, <2>2, <2>3, <2>4, <2>5, <2>6, <2>7 DEF Work
<1>3. ASSUME NEW h \in Hosts, Crash(h) PROVE Goal
  BY <1>3 DEF Crash, journal
<1>4. ASSUME NEW h \in Hosts, NEW r \in Receipts, Submit(h, r) PROVE Goal
  BY <1>4 DEF Submit, journal
<1>5. ASSUME NEW h \in Hosts, NEW p \in Requests, Reconcile(h, p) PROVE Goal
  BY <1>5 DEF Reconcile, journal
<1>6. ASSUME NEW p \in Requests, BrokerDecides(p) PROVE Goal
  BY <1>6 DEF BrokerDecides, journal
<1>7. CASE SetStop \/ LiftStop \/ ClockMoves
  BY <1>7 DEF SetStop, LiftStop, ClockMoves, journal
<1>8. CASE UNCHANGED vars
  BY <1>8 DEF vars
<1> QED BY <1>2, <1>3, <1>4, <1>5, <1>6, <1>7, <1>8 DEF Next

(* A receipt once refused as expired is never claimed: the refusal left    *)
(* its clock reading in the journal, and every later write is made at that *)
(* reading or after it.                                                    *)
THEOREM ExpiredStaysExpired == Spec => OnceExpiredNeverClaimed
<1>1. ASSUME IInv, [Next]_vars, NEW q \in Requests,
             row[q].state = "absent", row'[q].state # "absent"
      PROVE  row'[q].receipt \notin expired
  <2>1. PICK h \in Hosts : Consume(h)
    BY <1>1, OnlyClaimsInsert
  <2>2. Claims(h, lane[h].request, lane[h].receipt)
    BY <1>1, <2>1, ConsumeEffect DEF IInv
  <2>3. q = lane[h].request /\ row'[q].receipt = lane[h].receipt
    BY <1>1, <2>2 DEF Claims, Claimed
  <2>4. Expiry[lane[h].receipt] > now /\ now >= last
    BY <1>1, <2>2 DEF Claims, IInv, TypeOK
  <2>5. lane[h].receipt \in expired => Expiry[lane[h].receipt] <= last
    BY <1>1 DEF IInv, RefusalIsRecorded
  <2>6. Expiry[lane[h].receipt] \in Nat /\ now \in Nat /\ last \in Nat
    BY <1>1, <2>2, BindingAssumption, BoundAssumption DEF Claims, IInv, TypeOK
  <2> QED BY <2>3, <2>4, <2>5, <2>6
<1>2. IInv /\ [Next]_vars =>
        [\A q \in Requests : row[q].state = "absent" /\ row'[q].state # "absent"
           => row'[q].receipt \notin expired]_vars
  BY <1>1
<1> QED BY <1>2, Invariance, PTL DEF Spec, OnceExpiredNeverClaimed
=============================================================================
