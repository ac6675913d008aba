------------------------------ MODULE HostTools ------------------------------
(* The life of one paper host under its deployment tools: rolled out while it  *)
(* is unbound (HostRollout), given its tokens once an account is bound          *)
(* (HostAttach), backed up every six hours from then on (HostBackup), with an   *)
(* operator who edits what they guard, processes that are killed between any     *)
(* two steps, and a machine that restarts.                                       *)
EXTENDS HostRollout, HostAttach, HostBackup

vars == <<machine, rolling, attaching, backing>>

Init == MachineInit /\ RolloutInit /\ AttachInit /\ BackupInit

\* Nothing runs after a restart but what systemd starts: the boot recovery, which is
\* ordered after the host unit and does not wait for it. The host unit is not enabled.
MachineRestarts ==
  /\ mishaps < MaxMishaps /\ mishaps' = mishaps + 1
  /\ host' = "inactive" /\ operatorLock' = None
  /\ rollout' = Resting /\ attach' = Unattached /\ job' = NoJob /\ due' = "boot"
  /\ UNCHANGED <<settings, bound, journals, opened, published,
                 current, tree, captured, kept, result, plan, intent, files>>

Next ==
  \/ MachineNext /\ UNCHANGED <<rolling, attaching, backing>>
  \/ RolloutNext /\ UNCHANGED <<attaching, backing>>
  \/ AttachNext /\ UNCHANGED <<rolling, backing>>
  \/ BackupNext /\ UNCHANGED <<rolling, attaching>>
  \/ MachineRestarts

\* The backup process runs on, systemd starts it again, and a started host opens.
Fairness == /\ WF_vars(BackupStep /\ UNCHANGED <<rolling, attaching>>)
            /\ WF_vars(HostOpens /\ UNCHANGED <<rolling, attaching, backing>>)

Spec == Init /\ [][Next]_vars /\ Fairness

(***************************************************************************)
(* Properties.                                                               *)
(***************************************************************************)
\* A copy of the account that can be restored: it has the tokens of one whole
\* attachment, and its files are those of one moment, or SQLite would find a journal
\* that was copied while it was written.
Restorable(account) ==
  /\ \E p \in Plans : \A name \in Added : account.auth[name] = p
  /\ ~account.mixed

\* What a reader finds published is whole, wherever a tool was interrupted. A run that
\* status.json or its remote receipt calls verified has a restorable archive, while its
\* retention lasts (backup 1010-1082). Account data lies on disk only in the directory
\* an unfinished intent names, which recover() will remove. A state directory that lists
\* tokens has both of them, from the same plan (apply). A link that moved has the intent
\* that moved it on record, and a result receipt is about such a move, between readings
\* of one and the same disabled configuration (disabled_rollout.main, switch).
VerifiedIsRestorable ==
  \A r \in Runs \ lapsed : status = r \/ r \in receipt =>
    remote[r] # None /\ Restorable(remote[r].account)
PlaintextIsNamed ==
  \A r \in Runs : copy[r] # None => intent.run = r /\ intent.phase # "complete"
AttachmentIsWhole ==
  published["agent-auth.json"] # None =>
    \A name \in Added : published[name] = published["agent-auth.json"]
SwitchIsOnRecord == current = First \/ \E move \in kept : move.to = current
ResultIsOfAMove ==
  result # None =>
    /\ [from |-> result.before.current, to |-> result.after.current] \in kept
    /\ result.after.private = result.before.private /\ result.after.private \in Disabled
PublishedIsWhole ==
  /\ VerifiedIsRestorable /\ PlaintextIsNamed /\ AttachmentIsWhole
  /\ SwitchIsOnRecord /\ ResultIsOfAMove

\* A host the backup found running is running again in the end: only a change of what
\* guards() reads, or a host that fails to run, keeps it down (snapshot's finally,
\* ExecStopPost, the boot unit and the next backup all lead to resume()).
HostComesBack ==
  (intent.phase = "quiescing" /\ intent.wasActive)
    ~> (host \in {"serving", "failed"} \/ ~Unchanged)
=============================================================================
