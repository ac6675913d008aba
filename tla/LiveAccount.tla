---------------------------- MODULE LiveAccount ----------------------------
(***************************************************************************)
(* What the live connector promises about the customer's account, whatever *)
(* crashes, timeouts, stale answers and clocks there are: a request is     *)
(* sent at most once, never beside another one, and never when filling it  *)
(* could take the account past its exposure limit or short.                *)
(***************************************************************************)
EXTENDS Naturals

CONSTANTS Requests,    \* canonical live requests
          Buys,        \* those that buy; the others sell
          Qty,         \* units each one asks for
          Held,        \* units held at the start
          MaxGross     \* max_gross_exposure_usd, in units

VARIABLES status,      \* none, live at the broker, or over
          filled,      \* units filled of each request
          position     \* units held

Init ==
  /\ status = [q \in Requests |-> "none"]
  /\ filled = [q \in Requests |-> 0]
  /\ position = Held

Fits(q) == IF q \in Buys THEN position + Qty[q] <= MaxGross ELSE Qty[q] <= position

Send(q) ==
  /\ status[q] = "none"
  /\ \A p \in Requests : status[p] # "live"
  /\ Fits(q)
  /\ status' = [status EXCEPT ![q] = "live"]
  /\ UNCHANGED <<filled, position>>

Fill(q) ==
  /\ status[q] = "live" /\ filled[q] < Qty[q]
  /\ filled' = [filled EXCEPT ![q] = @ + 1]
  /\ position' = IF q \in Buys THEN position + 1 ELSE position - 1
  /\ status' = [status EXCEPT ![q] = IF filled[q] + 1 = Qty[q] THEN "over" ELSE "live"]

End(q) ==
  /\ status[q] = "live"
  /\ status' = [status EXCEPT ![q] = "over"]
  /\ UNCHANGED <<filled, position>>

Next == \E q \in Requests : Send(q) \/ Fill(q) \/ End(q)

Spec == Init /\ [][Next]_<<status, filled, position>>
=============================================================================
