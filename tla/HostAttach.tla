------------------------------ MODULE HostAttach ------------------------------
(* attach_agent_host.py: gives a stopped, bound, disabled paper state the two   *)
(* bearer tokens and the file that lists them. `prepare` writes them to a plan  *)
(* directory, its manifest last; `apply` links them into the state one at a     *)
(* time, agent-auth.json last, and may be run again after it was interrupted.   *)
EXTENDS HostMachine

CONSTANT Halted    \* the settings with a STOP file in the state directory

VARIABLES plan,    \* each plan directory: absent, reserved, or complete with a baseline
          attach   \* the process: idle, preparing, validating or linking, and its plan

attaching == <<plan, attach>>

Unattached == [at |-> "idle", plan |-> None]

AttachInit == plan = [p \in Plans |-> [is |-> "absent", baseline |-> None]]
              /\ attach = Unattached

\* What systemd says of every unit that could run the account.
UnitsInactive == host = "inactive"

\* snapshot(): the state directory holds what a bound, disabled, never used paper
\* account has.
Eligible == /\ UnitsInactive /\ settings \in Disabled \ Halted /\ bound
            /\ ~opened /\ journals = 0
Unpublished == {name \in Added : published[name] = None}
OnlyOf(p) == \A name \in Added : published[name] \in {None, p}

Locked == operatorLock = None /\ operatorLock' = "attach"
Freed == operatorLock' = None /\ attach' = Unattached

Prepare ==
  /\ attach = Unattached /\ Eligible /\ Unpublished = Added /\ Locked
  /\ \E p \in Plans : plan[p].is = "absent"
  /\ LET p == CHOOSE p \in Plans : plan[p].is = "absent"
     IN /\ plan' = [plan EXCEPT ![p] = [is |-> "reserved", baseline |-> settings]]
        /\ attach' = [at |-> "preparing", plan |-> p]
  /\ UNCHANGED <<host, settings, bound, journals, opened, published, mishaps>>

\* Only now is there a manifest, without which a plan cannot be applied.
CommitPlan ==
  /\ attach.at = "preparing" /\ Freed
  /\ Eligible /\ Unpublished = Added /\ settings = plan[attach.plan].baseline
  /\ plan' = [plan EXCEPT ![attach.plan].is = "complete"]
  /\ UNCHANGED <<host, settings, bound, journals, opened, published, mishaps>>

Unmoved(p) == Eligible /\ OnlyOf(p) /\ settings = plan[p].baseline

Apply(p) ==
  /\ attach = Unattached /\ plan[p].is = "complete" /\ Locked
  /\ Unmoved(p)
  /\ attach' = [at |-> "validating", plan |-> p]
  /\ UNCHANGED <<host, settings, bound, journals, opened, published, mishaps, plan>>

\* Before every link the whole state is read again.
Validate ==
  /\ attach.at = "validating" /\ Unpublished # {} /\ Unmoved(attach.plan)
  /\ attach' = [attach EXCEPT !.at = "linking"]
  /\ UNCHANGED <<machine, plan>>

\* link() is atomic and refuses a destination that exists.
Link ==
  /\ attach.at = "linking"
  /\ \E i \in DOMAIN Additions :
       /\ Additions[i] \in Unpublished
       /\ \A j \in 1 .. i - 1 : Additions[j] \notin Unpublished
       /\ published' = [published EXCEPT ![Additions[i]] = attach.plan]
  /\ attach' = [attach EXCEPT !.at = "validating"]
  /\ UNCHANGED <<host, settings, bound, journals, opened, operatorLock, mishaps, plan>>

Attached ==
  /\ attach.at = "validating" /\ Unpublished = {} /\ Unmoved(attach.plan) /\ Freed
  /\ UNCHANGED <<host, settings, bound, journals, opened, published, mishaps, plan>>

\* A check that refuses, or a kill; what was written and linked stays.
AttachEnds ==
  /\ attach # Unattached /\ Freed
  /\ \/ mishaps < MaxMishaps /\ mishaps' = mishaps + 1
     \/ /\ attach.at = "preparing" /\ UNCHANGED mishaps
        /\ ~(Eligible /\ Unpublished = Added /\ settings = plan[attach.plan].baseline)
     \/ attach.at = "validating" /\ ~Unmoved(attach.plan) /\ UNCHANGED mishaps
  /\ UNCHANGED <<host, settings, bound, journals, opened, published, plan>>

AttachNext == \/ \E p \in Plans : Apply(p)
              \/ Prepare \/ CommitPlan \/ Validate \/ Link \/ Attached \/ AttachEnds
=============================================================================
