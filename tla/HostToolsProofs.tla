--------------------------- MODULE HostToolsProofs ---------------------------
(* What a reader finds published by the deployment tools is whole, for any     *)
(* number of plans, releases and backup runs, of writes and of mishaps.        *)
EXTENDS HostTools, TLAPS

(***************************************************************************)
(* The inductive invariant.                                                 *)
(***************************************************************************)
Accounts == [auth : [Added -> Plans \cup {None}], mixed : BOOLEAN]
Archives == [account : Accounts \cup {None}, locked : BOOLEAN]

TypeOK ==
  /\ published \in [Added -> Plans \cup {None}]
  /\ rollout = [at |-> rollout.at, expected |-> rollout.expected,
                target |-> rollout.target, hash |-> rollout.hash]
  /\ attach = [at |-> attach.at, plan |-> attach.plan]
  /\ attach.plan \in Plans \cup {None}
  /\ intent = [run |-> intent.run, wasActive |-> intent.wasActive,
               guards |-> intent.guards, phase |-> intent.phase]
  /\ intent.phase \in {"quiescing", "resumed", "complete"}
  /\ job = [at |-> job.at, unit |-> job.unit, run |-> job.run, good |-> job.good,
            seen |-> job.seen]
  /\ job.run \in Runs \cup {None}
  /\ copy \in [Runs -> Accounts \cup {None}]
  /\ remote \in [Runs -> Archives \cup {None}]
  /\ receipt \subseteq Runs /\ status \in Runs \cup {None}

\* operator.lock is of the one process that needs it: the host that serves, the
\* attachment, the capture.
LockInv ==
  /\ host = "serving" => operatorLock = "host"
  /\ attach # Unattached => operatorLock = "attach"
  /\ job.at \in {"capture", "copying"} => operatorLock = "backup"

\* A link is about to be replaced only after its move is on record, and is verified
\* where it was moved to.
RolloutInv ==
  /\ rollout.at \in {"hash", "recheck", "replace", "verify"} =>
       [from |-> rollout.expected.current, to |-> rollout.target] \in kept
  /\ rollout.at = "verify" => current = rollout.target

\* An attachment that is about to link has found files of its own plan only.
LinkInv == attach.at = "linking" => OnlyOf(attach.plan)

Capturing == {"stop", "lock", "capture", "copying"}
Resuming  == {"guard", "start", "ready"}
Proving   == {"upload", "retain", "verify", "receipt", "status"}

\* What the intent says in each stage of a backup.
IntentInv ==
  /\ job.at \in {"reserve", "quiesce"} => intent.phase = "complete"
  /\ job.at \in Capturing => intent.phase = "quiescing" /\ intent.run = job.run
  /\ job.at = "complete" => \A r \in Runs : copy[r] = None

\* Which run a process works on, and whether it has captured it.
JobInv ==
  /\ job.at \in {"reconcile", "reserve"} => job.run = None
  /\ job.at \in {"quiesce"} \cup Capturing \cup Proving => job.run \in Runs
  /\ job.good => job.run \in Runs
  /\ job.at \in {"reconcile", "reserve", "quiesce"} \cup Capturing => ~job.good
  /\ job.at \in Proving => job.good

\* What is captured so far, and what the bucket has of it.
CopyInv ==
  /\ job.at = "copying" => /\ copy[job.run] = [auth |-> published, mixed |-> FALSE]
                           /\ job.seen = journals
  /\ job.good /\ job.at \in Resuming \cup Proving => Restorable(copy[job.run])
RemoteInv ==
  /\ job.run \in Runs /\ job.at \in {"quiesce", "upload"} \cup Capturing \cup Resuming =>
       remote[job.run] = None
  /\ job.at \in {"verify", "receipt", "status"} => Retained
  /\ job.at \in {"receipt", "status"} => Restores
  /\ job.run \in Runs => job.run \notin lapsed

\* What is called verified is retained as well, as long as that lasts.
VerifiedInv ==
  \A r \in Runs \ lapsed : status = r \/ r \in receipt =>
    remote[r] # None /\ remote[r].locked /\ Restorable(remote[r].account)

BackupInv == IntentInv /\ JobInv /\ CopyInv /\ RemoteInv
KeptInv == /\ VerifiedInv /\ PlaintextIsNamed /\ AttachmentIsWhole
           /\ SwitchIsOnRecord /\ ResultIsOfAMove
IInv == TypeOK /\ LockInv /\ RolloutInv /\ LinkInv /\ BackupInv /\ KeptInv

(***************************************************************************)
(* Small facts.                                                              *)
(***************************************************************************)
LEMMA ThreeAdded == Added = {"agent-read.token", "agent-execution.token", "agent-auth.json"}
<1>1. DOMAIN Additions = {1, 2, 3}
  BY DEF Additions
<1>2. Additions[1] = "agent-read.token" /\ Additions[2] = "agent-execution.token"
        /\ Additions[3] = "agent-auth.json"
  BY DEF Additions
<1> QED  BY <1>1, <1>2 DEF Added

\* Files that are all there are of one attachment, so an account that has them restores.
LEMMA WholeAttachment ==
  ASSUME TypeOK, AttachmentIsWhole, Complete
  PROVE  Restorable([auth |-> published, mixed |-> FALSE])
<1>1. published["agent-auth.json"] # None /\ published["agent-auth.json"] \in Plans \cup {None}
  BY ThreeAdded DEF Complete, TypeOK
<1>2. \A name \in Added : published[name] = published["agent-auth.json"]
  BY <1>1 DEF AttachmentIsWhole
<1> QED  BY <1>1, <1>2 DEF Restorable

(***************************************************************************)
(* Initially.                                                                *)
(***************************************************************************)
LEMMA Initially == Init => IInv
<1> SUFFICES ASSUME Init PROVE IInv
  OBVIOUS
<1> USE DEF Init, MachineInit, RolloutInit, AttachInit, BackupInit
<1>1. TypeOK
  <2>1. /\ attach = [at |-> attach.at, plan |-> attach.plan]
        /\ attach.plan \in Plans \cup {None}
    BY DEF Unattached
  <2>2. /\ job = [at |-> job.at, unit |-> job.unit, run |-> job.run, good |-> job.good,
                  seen |-> job.seen]
        /\ job.run \in Runs \cup {None}
    BY DEF NoJob
  <2>3. /\ intent = [run |-> intent.run, wasActive |-> intent.wasActive,
                     guards |-> intent.guards, phase |-> intent.phase]
        /\ intent.phase \in {"quiescing", "resumed", "complete"}
    BY DEF NoIntent
  <2>4. rollout = [at |-> rollout.at, expected |-> rollout.expected,
                   target |-> rollout.target, hash |-> rollout.hash]
    BY DEF Resting
  <2> QED  BY <2>1, <2>2, <2>3, <2>4 DEF TypeOK
<1>2. LockInv  BY DEF LockInv, NoJob
<1>3. RolloutInv  BY DEF RolloutInv, Resting
<1>4. LinkInv  BY DEF LinkInv, Unattached
<1>5. BackupInv
  BY RunsAssumption
     DEF BackupInv, IntentInv, JobInv, CopyInv, RemoteInv, NoJob, Capturing, Resuming, Proving
<1>6. VerifiedInv  BY RunsAssumption DEF VerifiedInv
<1>7. PlaintextIsNamed  BY DEF PlaintextIsNamed
<1>8. AttachmentIsWhole  BY ThreeAdded DEF AttachmentIsWhole
<1>9. SwitchIsOnRecord /\ ResultIsOfAMove  BY DEF SwitchIsOnRecord, ResultIsOfAMove
<1> QED  BY <1>1, <1>2, <1>3, <1>4, <1>5, <1>6, <1>7, <1>8, <1>9 DEF IInv, KeptInv

(***************************************************************************)
(* The machine: nothing but commits to the journals concerns a backup, and the *)
(* process that commits has the lock.                                         *)
(***************************************************************************)
LEMMA MachineStep ==
  ASSUME IInv, MachineNext, UNCHANGED <<rolling, attaching, backing>>
  PROVE  IInv'
<1>1. /\ UNCHANGED <<current, tree, captured, kept, result, rollout>>
      /\ UNCHANGED <<plan, attach>>
      /\ UNCHANGED <<intent, job, due, dirs, copy, remote, lapsed, receipt, status>>
  BY DEF rolling, attaching, backing
<1>2. published' = published
  BY DEF MachineNext, HostOpens, HostCommits, HostFails, OperatorEdits, OperatorStarts,
         OperatorStops
<1>3. /\ host' = "serving" => operatorLock' = "host"
      /\ operatorLock \in {"attach", "backup"} => operatorLock' = operatorLock
  BY NobodyAssumption
     DEF IInv, LockInv, MachineNext, HostOpens, HostCommits, HostFails, OperatorEdits,
         OperatorStarts, OperatorStops, Released, Started, Active
<1>4. operatorLock = "backup" => journals' = journals
  BY DEF IInv, LockInv, MachineNext, HostOpens, HostCommits, HostFails, OperatorEdits,
         OperatorStarts, OperatorStops
<1>5. TypeOK'  BY <1>1, <1>2 DEF IInv, TypeOK
<1>6. LockInv'  BY <1>1, <1>3 DEF IInv, LockInv
<1>7. RolloutInv' /\ LinkInv'  BY <1>1, <1>2 DEF IInv, RolloutInv, LinkInv, OnlyOf
<1>8. BackupInv'
  <2>1. CopyInv'  BY <1>1, <1>2, <1>4 DEF IInv, BackupInv, CopyInv, LockInv, Restorable
  <2>2. IntentInv' /\ JobInv'  BY <1>1 DEF IInv, BackupInv, IntentInv, JobInv
  <2>3. RemoteInv'  BY <1>1 DEF IInv, BackupInv, RemoteInv, Retained, Restores
  <2> QED  BY <2>1, <2>2, <2>3 DEF BackupInv
<1>9. KeptInv'
  BY <1>1, <1>2 DEF IInv, KeptInv, VerifiedInv, Restorable, PlaintextIsNamed,
     AttachmentIsWhole, SwitchIsOnRecord, ResultIsOfAMove
<1> QED  BY <1>5, <1>6, <1>7, <1>8, <1>9 DEF IInv

(***************************************************************************)
(* The rollout: an announced move stays announced.                           *)
(***************************************************************************)
LEMMA RolloutStep ==
  ASSUME IInv, RolloutNext, UNCHANGED <<attaching, backing>>
  PROVE  IInv'
<1>1. /\ UNCHANGED <<plan, attach>>
      /\ UNCHANGED <<intent, job, due, dirs, copy, remote, lapsed, receipt, status>>
  BY DEF attaching, backing
<1>2. UNCHANGED <<host, journals, published, operatorLock>>
  BY DEF RolloutNext, CaptureReceipt, KeepIntent, HashTarget, Recheck, ReplaceLink, SaveResult,
         BeginRollback, RolloutEnds, ReleaseEdited, BeginSwitch, machine
<1>3. rollout' = [at |-> rollout'.at, expected |-> rollout'.expected,
                  target |-> rollout'.target, hash |-> rollout'.hash]
  BY DEF IInv, TypeOK, Resting, RolloutNext, CaptureReceipt, KeepIntent, HashTarget, Recheck,
         ReplaceLink, SaveResult, BeginRollback, RolloutEnds, ReleaseEdited, BeginSwitch
<1>4. kept \subseteq kept'
  BY DEF RolloutNext, CaptureReceipt, KeepIntent, HashTarget, Recheck, ReplaceLink, SaveResult,
         BeginRollback, RolloutEnds, ReleaseEdited, BeginSwitch
<1>5. RolloutInv'
  <2>1. CASE KeepIntent
    <3> DEFINE move == [from |-> rollout.expected.current, to |-> rollout.target]
    <3>1. /\ move \in kept' /\ rollout'.target = rollout.target
          /\ rollout'.expected = rollout.expected /\ rollout'.at = "hash"
      BY <2>1 DEF KeepIntent, IInv, TypeOK
    <3> QED  BY <3>1 DEF RolloutInv
  <2>2. CASE HashTarget \/ Recheck
    BY <2>2, <1>4 DEF HashTarget, Recheck, IInv, TypeOK, RolloutInv
  <2>3. CASE CaptureReceipt \/ \E r \in Releases : ReleaseEdited(r)
    BY <2>3, <1>4 DEF CaptureReceipt, ReleaseEdited, IInv, RolloutInv
  <2>4. CASE ReplaceLink \/ SaveResult \/ BeginRollback \/ RolloutEnds
               \/ \E r \in Releases : BeginSwitch(r)
    <3>1. CASE ReplaceLink
      BY <3>1 DEF ReplaceLink, IInv, TypeOK, RolloutInv
    <3>2. CASE SaveResult \/ RolloutEnds
      BY <3>2 DEF SaveResult, RolloutEnds, Resting, RolloutInv
    <3>3. CASE BeginRollback \/ \E r \in Releases : BeginSwitch(r)
      BY <3>3 DEF BeginRollback, BeginSwitch, Resting, RolloutInv
    <3> QED  BY <2>4, <3>1, <3>2, <3>3
  <2> QED  BY <2>1, <2>2, <2>3, <2>4 DEF RolloutNext
<1>6. SwitchIsOnRecord'
  <2>1. CASE ReplaceLink
    BY <2>1 DEF ReplaceLink, IInv, RolloutInv, SwitchIsOnRecord
  <2>2. CASE ~ReplaceLink
    <3>1. current' = current
      BY <2>2 DEF RolloutNext, CaptureReceipt, KeepIntent, HashTarget, Recheck, SaveResult,
                  BeginRollback, RolloutEnds, ReleaseEdited, BeginSwitch
    <3> QED  BY <3>1, <1>4 DEF IInv, KeptInv, SwitchIsOnRecord
  <2> QED  BY <2>1, <2>2
<1>12. ResultIsOfAMove'
  <2>1. CASE SaveResult
    <3>1. /\ [from |-> rollout.expected.current, to |-> current] \in kept
          /\ kept' = kept /\ settings \in Disabled
          /\ settings = rollout.expected.private
      BY <2>1 DEF SaveResult, Installable, Installation, IInv, RolloutInv
    <3>2. /\ result'.before = rollout.expected
          /\ result'.after.current = current /\ result'.after.private = settings
      BY <2>1 DEF SaveResult, Installation
    <3> QED  BY <3>1, <3>2 DEF ResultIsOfAMove
  <2>2. CASE ~SaveResult
    <3>1. result' = result
      BY <2>2 DEF RolloutNext, CaptureReceipt, KeepIntent, HashTarget, Recheck, ReplaceLink,
                  BeginRollback, RolloutEnds, ReleaseEdited, BeginSwitch
    <3> QED  BY <3>1, <1>4 DEF IInv, KeptInv, ResultIsOfAMove
  <2> QED  BY <2>1, <2>2
<1>7. TypeOK'  BY <1>1, <1>2, <1>3 DEF IInv, TypeOK
<1>8. LockInv'  BY <1>1, <1>2 DEF IInv, LockInv
<1>9. LinkInv'  BY <1>1, <1>2 DEF IInv, LinkInv, OnlyOf
<1>10. BackupInv'
  BY <1>1, <1>2 DEF IInv, BackupInv, IntentInv, JobInv, CopyInv, RemoteInv, Restorable, Retained,
                    Restores
<1>11. VerifiedInv' /\ PlaintextIsNamed' /\ AttachmentIsWhole'
  BY <1>1, <1>2 DEF IInv, KeptInv, VerifiedInv, Restorable, PlaintextIsNamed, AttachmentIsWhole
<1> QED  BY <1>5, <1>6, <1>7, <1>8, <1>9, <1>10, <1>11, <1>12 DEF IInv, KeptInv

(***************************************************************************)
(* The attachment: it holds the lock, so no capture and no host is disturbed   *)
(* by it, and it links the file that lists the tokens last.                  *)
(***************************************************************************)
LEMMA LinkStep ==
  ASSUME IInv, Link
  PROVE  /\ published' \in [Added -> Plans \cup {None}]
         /\ AttachmentIsWhole'
         /\ attach'.at = "validating"
<1>1. PICK i \in DOMAIN Additions :
        /\ Additions[i] \in Unpublished
        /\ \A j \in 1 .. i - 1 : Additions[j] \notin Unpublished
        /\ published' = [published EXCEPT ![Additions[i]] = attach.plan]
  BY DEF Link
<1>2. /\ DOMAIN Additions = {1, 2, 3}
      /\ Additions[1] = "agent-read.token" /\ Additions[2] = "agent-execution.token"
      /\ Additions[3] = "agent-auth.json"
  BY DEF Additions
<1>3. published' \in [Added -> Plans \cup {None}]
  BY <1>1 DEF IInv, TypeOK
<1>4. \A name \in Added : published[name] \in {None, attach.plan}
  BY DEF Link, IInv, LinkInv, OnlyOf
<1>5. AttachmentIsWhole'
  <2>1. CASE i = 3
    <3>1. /\ published["agent-read.token"] # None
          /\ published["agent-execution.token"] # None
      BY <1>1, <1>2, <2>1, ThreeAdded DEF Unpublished
    <3>2. \A name \in Added : published'[name] = attach.plan
      BY <1>1, <1>2, <1>4, <2>1, <3>1, ThreeAdded DEF IInv, TypeOK
    <3> QED  BY <3>2, ThreeAdded DEF AttachmentIsWhole
  <2>2. CASE i # 3
    <3>1. Additions[i] # "agent-auth.json" /\ Additions[i] \in Added
      BY <1>1, <1>2, <2>2, ThreeAdded
    <3>2. published["agent-auth.json"] = None
      BY <1>1, <3>1, ThreeAdded DEF Unpublished, IInv, KeptInv, AttachmentIsWhole
    <3>3. published'["agent-auth.json"] = None
      BY <1>1, <3>1, <3>2, ThreeAdded DEF IInv, TypeOK
    <3> QED  BY <3>3 DEF AttachmentIsWhole
  <2> QED  BY <2>1, <2>2
<1>6. attach'.at = "validating"
  BY DEF Link, IInv, TypeOK
<1> QED  BY <1>3, <1>5, <1>6

LEMMA AttachStep ==
  ASSUME IInv, AttachNext, UNCHANGED <<rolling, backing>>
  PROVE  IInv'
<1> USE DEF AttachNext, Prepare, CommitPlan, Apply, Validate, Attached, AttachEnds
<1>1. /\ UNCHANGED <<current, tree, captured, kept, result, rollout>>
      /\ UNCHANGED <<intent, job, due, dirs, copy, remote, lapsed, receipt, status>>
      /\ UNCHANGED <<host, journals>>
  BY DEF rolling, backing, Link, machine
<1>2. \/ Link
      \/ UNCHANGED published
  BY DEF machine
<1>3. /\ published' \in [Added -> Plans \cup {None}]
      /\ AttachmentIsWhole'
  BY <1>2, LinkStep DEF IInv, TypeOK, KeptInv, AttachmentIsWhole
<1>4. /\ attach' = [at |-> attach'.at, plan |-> attach'.plan]
      /\ attach'.plan \in Plans \cup {None}
  BY DEF Link, Freed, Unattached, IInv, TypeOK
<1>5. /\ operatorLock \in {"attach", None}
      /\ attach' # Unattached => operatorLock' = "attach"
  BY DEF Link, Freed, Locked, machine, Unattached, IInv, LockInv, TypeOK
<1>6. LinkInv'
  <2>1. CASE Link  BY <2>1, LinkStep DEF LinkInv
  <2>2. CASE Validate
    BY <2>2 DEF machine, Unmoved, OnlyOf, LinkInv, IInv, TypeOK
  <2>3. CASE ~Link /\ ~Validate
    BY <2>3 DEF LinkInv, Freed, Unattached, IInv, TypeOK
  <2> QED  BY <2>1, <2>2, <2>3
<1>7. LockInv'
  BY <1>1, <1>5, NobodyAssumption DEF IInv, LockInv
<1>8. TypeOK'  BY <1>1, <1>3, <1>4 DEF IInv, TypeOK
<1>9. RolloutInv'  BY <1>1 DEF IInv, RolloutInv
<1>10. job.at # "copying"
  BY <1>5, NobodyAssumption DEF IInv, LockInv
<1>11. BackupInv'
  BY <1>1, <1>10 DEF IInv, BackupInv, IntentInv, JobInv, CopyInv, RemoteInv, Restorable, Retained,
                     Restores
<1>12. VerifiedInv' /\ PlaintextIsNamed' /\ SwitchIsOnRecord' /\ ResultIsOfAMove'
  BY <1>1 DEF IInv, KeptInv, VerifiedInv, Restorable, PlaintextIsNamed, SwitchIsOnRecord,
              ResultIsOfAMove
<1> QED  BY <1>3, <1>6, <1>7, <1>8, <1>9, <1>11, <1>12 DEF IInv, KeptInv

(***************************************************************************)
(* The backup. What it leaves alone, the shape of what it writes, its lock.    *)
(***************************************************************************)
LEMMA BackupFrame ==
  ASSUME BackupNext
  PROVE  UNCHANGED <<settings, bound, journals, opened, published>>
BY DEF BackupNext, BackupStep, TimerFires, RecoveryStarts, Reconcile, CheckGuards, StartHost,
       MarkResumed, RemoveRun, CompleteIntent, ReserveRun, Quiesce, StopHost, LockAccount,
       CopyFirst, CopyLast, Upload, CheckRetention, VerifyRemote, UploadReceipt, WriteStatus,
       Refuse, Killed, RetentionEnds, Purge, machine

LEMMA BackupLock ==
  ASSUME IInv, BackupNext, UNCHANGED <<rolling, attaching>>
  PROVE  LockInv'
<1> USE NobodyAssumption DEF IInv, TypeOK, LockInv, Goes, Ends, NoJob, Released, machine, attaching
<1>1. CASE TimerFires \/ RecoveryStarts
  BY <1>1 DEF TimerFires, RecoveryStarts, Begin
<1>2. CASE Reconcile \/ MarkResumed \/ CompleteIntent
  <2>1. job'.at \notin {"capture", "copying"}
    <3>1. CASE Reconcile  BY <3>1 DEF Reconcile
    <3>2. CASE MarkResumed  BY <3>2 DEF MarkResumed
    <3>3. CASE CompleteIntent  BY <3>3 DEF CompleteIntent
    <3> QED  BY <1>2, <3>1, <3>2, <3>3
  <2>2. UNCHANGED <<host, operatorLock>>
    BY <1>2 DEF Reconcile, MarkResumed, CompleteIntent
  <2> QED  BY <2>1, <2>2
<1>10. CASE CheckGuards \/ RemoveRun \/ ReserveRun
  BY <1>10 DEF CheckGuards, RemoveRun, ReserveRun
<1>3. CASE StartHost  BY <1>3 DEF StartHost, Started, Active
<1>4. CASE Quiesce \/ StopHost  BY <1>4 DEF Quiesce, StopHost, Active
<1>5. CASE LockAccount  BY <1>5 DEF LockAccount, Capturable
<1>6. CASE CopyFirst \/ CopyLast  BY <1>6 DEF CopyFirst, CopyLast
<1>7. CASE Upload \/ CheckRetention \/ VerifyRemote \/ UploadReceipt \/ WriteStatus
  BY <1>7 DEF Upload, CheckRetention, VerifyRemote, UploadReceipt, WriteStatus
<1>8. CASE Refuse
  <2>1. job'.at \notin {"capture", "copying"}
    <3>1. CASE job.at \in {"stop", "lock", "capture", "copying"}  BY <1>8, <3>1 DEF Refuse
    <3>2. CASE job.at \in {"upload", "retain", "verify", "receipt", "status"}
      BY <1>8, <3>2 DEF Refuse
    <3>3. CASE job.at \notin {"stop", "lock", "capture", "copying"}
                 \cup {"upload", "retain", "verify", "receipt", "status"}
      BY <1>8, <3>3 DEF Refuse
    <3> QED  BY <3>1, <3>2, <3>3
  <2>2. host' = host /\ operatorLock' = Released("backup")
    BY <1>8 DEF Refuse
  <2> QED  BY <2>1, <2>2
<1>9. CASE Killed \/ \E r \in Runs : RetentionEnds(r) \/ Purge(r)
  BY <1>9 DEF Killed, RetentionEnds, Purge
<1> QED  BY <1>1, <1>2, <1>3, <1>4, <1>5, <1>6, <1>7, <1>8, <1>9, <1>10 DEF BackupNext, BackupStep

LEMMA BackupTypes ==
  ASSUME IInv, BackupNext, UNCHANGED <<rolling, attaching>>
  PROVE  TypeOK'
<1> USE DEF IInv, TypeOK
<1>1. /\ job' = [at |-> job'.at, unit |-> job'.unit, run |-> job'.run, good |-> job'.good,
                 seen |-> job'.seen]
      /\ job'.run \in Runs \cup {None}
  <2> USE DEF Goes, Ends, NoJob
  <2>1. CASE ReserveRun
    <3>1. PICK r \in Unused : job' = [job EXCEPT !.at = "quiesce", !.run = r]
      BY <2>1 DEF ReserveRun
    <3> QED  BY <3>1 DEF Unused
  <2>4. CASE TimerFires \/ RecoveryStarts  BY <2>4 DEF TimerFires, RecoveryStarts, Begin
  <2>5. CASE CopyFirst \/ CopyLast  BY <2>5 DEF CopyFirst, CopyLast
  <2>6. CASE Reconcile \/ CheckGuards \/ StartHost \/ MarkResumed \/ RemoveRun \/ CompleteIntent
               \/ Quiesce \/ StopHost \/ LockAccount
    <3>1. job' = NoJob \/ \E at : job' = [job EXCEPT !.at = at]
      BY <2>6 DEF Reconcile, CheckGuards, StartHost, MarkResumed, RemoveRun, CompleteIntent,
                  Quiesce, StopHost, LockAccount
    <3> QED  BY <3>1
  <2>7. CASE Upload \/ CheckRetention \/ VerifyRemote \/ UploadReceipt \/ WriteStatus
    BY <2>7 DEF Upload, CheckRetention, VerifyRemote, UploadReceipt, WriteStatus
  <2>8. CASE Refuse
    <3>1. \/ job' = NoJob
          \/ job' = [job EXCEPT !.at = "guard", !.seen = 0]
          \/ job' = [job EXCEPT !.at = "clean"]
      BY <2>8 DEF Refuse
    <3>2. CASE job' = NoJob  BY <3>2
    <3>3. CASE job' = [job EXCEPT !.at = "guard", !.seen = 0]  BY <3>3
    <3>4. CASE job' = [job EXCEPT !.at = "clean"]  BY <3>4
    <3> QED  BY <3>1, <3>2, <3>3, <3>4
  <2>9. CASE Killed \/ \E r \in Runs : RetentionEnds(r) \/ Purge(r)
    BY <2>9 DEF Killed, RetentionEnds, Purge
  <2> QED  BY <2>1, <2>4, <2>5, <2>6, <2>7, <2>8, <2>9 DEF BackupNext, BackupStep
<1>2. /\ intent' = [run |-> intent'.run, wasActive |-> intent'.wasActive,
                    guards |-> intent'.guards, phase |-> intent'.phase]
      /\ intent'.phase \in {"quiescing", "resumed", "complete"}
  BY DEF BackupNext, BackupStep, TimerFires, RecoveryStarts, Reconcile, CheckGuards, StartHost,
         MarkResumed, RemoveRun, CompleteIntent, ReserveRun, Quiesce, StopHost, LockAccount,
         CopyFirst, CopyLast, Upload, CheckRetention, VerifyRemote, UploadReceipt, WriteStatus,
         Refuse, Killed, RetentionEnds, Purge
<1>3. copy' \in [Runs -> Accounts \cup {None}]
  <2>1. CASE CopyFirst  BY <2>1 DEF CopyFirst, Accounts
  <2>2. CASE CopyLast
    <3>1. /\ job.run \in Runs /\ copy[job.run] \in Accounts
      <4>1. job.run \in Runs /\ copy[job.run] = [auth |-> published, mixed |-> FALSE]
        BY <2>2 DEF CopyLast, BackupInv, JobInv, CopyInv, Capturing
      <4> QED  BY <4>1 DEF Accounts
    <3>2. copy' = [copy EXCEPT ![job.run].mixed = journals # job.seen]
      BY <2>2 DEF CopyLast
    <3> QED  BY <3>1, <3>2 DEF Accounts
  <2>3. CASE RemoveRun  BY <2>3 DEF RemoveRun
  <2>4. CASE ~CopyFirst /\ ~CopyLast /\ ~RemoveRun
    <3>1. copy' = copy
      BY <2>4 DEF BackupNext, BackupStep, TimerFires, RecoveryStarts, Reconcile, CheckGuards,
             StartHost, MarkResumed, CompleteIntent, ReserveRun, Quiesce, StopHost, LockAccount,
             Upload, CheckRetention, VerifyRemote, UploadReceipt, WriteStatus, Refuse, Killed,
             RetentionEnds, Purge, files
    <3> QED  BY <3>1
  <2> QED  BY <2>1, <2>2, <2>3, <2>4
<1>4. /\ remote' \in [Runs -> Archives \cup {None}]
      /\ receipt' \subseteq Runs /\ status' \in Runs \cup {None}
  <2>1. CASE Upload
    <3>1. /\ job.run \in Runs
      BY <2>1 DEF Upload, BackupInv, JobInv, Proving
    <3>2. Stored(copy[job.run]) \subseteq Archives
      BY <3>1 DEF Stored, Garbled, Archives, Accounts
    <3> QED  BY <2>1, <3>2 DEF Upload
  <2>2. CASE UploadReceipt \/ WriteStatus
    BY <2>2 DEF UploadReceipt, WriteStatus, BackupInv, JobInv, Proving
  <2>3. CASE \E r \in Runs : Purge(r)  BY <2>3 DEF Purge
  <2>4. CASE ~Upload /\ ~UploadReceipt /\ ~WriteStatus /\ ~(\E r \in Runs : Purge(r))
    <3>1. UNCHANGED <<remote, receipt, status>>
      BY <2>4 DEF BackupNext, BackupStep, TimerFires, RecoveryStarts, Reconcile, CheckGuards,
             StartHost, MarkResumed, RemoveRun, CompleteIntent, ReserveRun, Quiesce, StopHost,
             LockAccount, CopyFirst, CopyLast, CheckRetention, VerifyRemote, Refuse, Killed,
             RetentionEnds, files
    <3> QED  BY <3>1
  <2> QED  BY <2>1, <2>2, <2>3, <2>4
<1> QED  BY <1>1, <1>2, <1>3, <1>4, BackupFrame DEF rolling, attaching

(***************************************************************************)
(* Each step of a backup or a recovery keeps what is known of its stage.     *)
(***************************************************************************)
LEMMA DataKept ==
  ASSUME IInv, UNCHANGED <<intent, copy, remote, lapsed, receipt, status>>
  PROVE  VerifiedInv' /\ PlaintextIsNamed'
BY DEF IInv, KeptInv, VerifiedInv, PlaintextIsNamed, Restorable

LEMMA Idled ==
  ASSUME job' = NoJob
  PROVE  BackupInv'
BY RunsAssumption
   DEF NoJob, BackupInv, IntentInv, JobInv, CopyInv, RemoteInv, Capturing, Resuming, Proving

LEMMA BeginStep ==
  ASSUME IInv, TimerFires \/ RecoveryStarts
  PROVE  BackupInv' /\ VerifiedInv' /\ PlaintextIsNamed'
<1>1. job' = [NoJob EXCEPT !.at = "reconcile", !.unit = job'.unit]
  BY DEF TimerFires, RecoveryStarts, Begin, NoJob
<1>2. UNCHANGED <<intent, copy, remote, lapsed, receipt, status>>
  BY DEF TimerFires, RecoveryStarts, files
<1>3. BackupInv'
  BY <1>1, RunsAssumption
     DEF NoJob, BackupInv, IntentInv, JobInv, CopyInv, RemoteInv, Capturing, Resuming, Proving,
         Retained, Restores
<1> QED  BY <1>2, <1>3, DataKept

LEMMA ReconcileStep ==
  ASSUME IInv, Reconcile
  PROVE  BackupInv' /\ VerifiedInv' /\ PlaintextIsNamed'
<1>1. UNCHANGED <<intent, copy, remote, lapsed, receipt, status>>
  BY DEF Reconcile, files
<1>2. job.run = None /\ ~job.good
  BY DEF Reconcile, IInv, BackupInv, JobInv
<1>3. \/ job' = NoJob
      \/ \E at \in {"guard", "clean"} : job' = [job EXCEPT !.at = at]
      \/ job' = [job EXCEPT !.at = "reserve"] /\ intent.phase = "complete"
  BY DEF Reconcile, Goes, Ends, IInv, TypeOK
<1>4. CASE \E at \in {"guard", "clean"} : job' = [job EXCEPT !.at = at]
  <2>1. /\ job'.at \in {"guard", "clean"} /\ job'.run = None /\ ~job'.good
    BY <1>2, <1>4 DEF IInv, TypeOK
  <2> QED  BY <2>1, <1>1, DataKept, RunsAssumption
     DEF BackupInv, IntentInv, JobInv, CopyInv, RemoteInv, Capturing, Resuming, Proving,
         Retained, Restores
<1>5. CASE job' = [job EXCEPT !.at = "reserve"] /\ intent.phase = "complete"
  <2>1. /\ job'.at = "reserve" /\ job'.run = None /\ ~job'.good
    BY <1>2, <1>5 DEF IInv, TypeOK
  <2> QED  BY <2>1, <1>1, <1>5, DataKept, RunsAssumption
     DEF BackupInv, IntentInv, JobInv, CopyInv, RemoteInv, Capturing, Resuming, Proving,
         Retained, Restores
<1> QED  BY <1>1, <1>3, <1>4, <1>5, DataKept, Idled

LEMMA ResumeStep ==
  ASSUME IInv, CheckGuards \/ StartHost
  PROVE  BackupInv' /\ VerifiedInv' /\ PlaintextIsNamed'
<1>1. UNCHANGED <<intent, copy, remote, lapsed, receipt, status>>
  BY DEF CheckGuards, StartHost, files
<1>2. /\ job.at \in Resuming /\ job'.at \in Resuming
      /\ job'.run = job.run /\ job'.good = job.good /\ job'.seen = job.seen
  BY DEF CheckGuards, StartHost, Goes, Resuming, IInv, TypeOK
<1>3. BackupInv'
  BY <1>1, <1>2
     DEF IInv, Restorable, BackupInv, IntentInv, JobInv, CopyInv, RemoteInv, Capturing, Resuming,
         Proving, Retained, Restores
<1> QED  BY <1>1, <1>3, DataKept

LEMMA ResumedStep ==
  ASSUME IInv, MarkResumed
  PROVE  BackupInv' /\ VerifiedInv' /\ PlaintextIsNamed'
<1>1. UNCHANGED <<copy, remote, lapsed, receipt, status>>
  BY DEF MarkResumed, files
<1>2. intent'.run = intent.run /\ intent'.phase = "resumed"
  BY DEF MarkResumed, IInv, TypeOK
<1>3. /\ job.at = "ready" /\ job'.at = IF job.good THEN "upload" ELSE "clean"
      /\ job'.run = job.run /\ job'.good = job.good
  BY DEF MarkResumed, Goes, IInv, TypeOK
<1>4. BackupInv'
  BY <1>1, <1>3
     DEF IInv, Restorable, BackupInv, IntentInv, JobInv, CopyInv, RemoteInv, Capturing, Resuming,
         Proving, Retained, Restores
<1>5. VerifiedInv' /\ PlaintextIsNamed'
  BY <1>1, <1>2 DEF IInv, KeptInv, VerifiedInv, PlaintextIsNamed, Restorable
<1> QED  BY <1>4, <1>5

LEMMA RemoveStep ==
  ASSUME IInv, RemoveRun
  PROVE  BackupInv' /\ VerifiedInv' /\ PlaintextIsNamed'
<1>1. UNCHANGED <<intent, remote, lapsed, receipt, status>>
  BY DEF RemoveRun
<1>2. job'.at = "complete" /\ job'.run = job.run /\ job'.good = job.good
  BY DEF RemoveRun, Goes, IInv, TypeOK
<1>3. \A r \in Runs : copy'[r] = None
  BY DEF RemoveRun, IInv, TypeOK, KeptInv, PlaintextIsNamed
<1>4. BackupInv'
  BY <1>1, <1>2, <1>3
     DEF IInv, BackupInv, IntentInv, JobInv, CopyInv, RemoteInv, Capturing, Resuming, Proving,
         Retained, Restores
<1>5. VerifiedInv' /\ PlaintextIsNamed'
  BY <1>1, <1>3 DEF IInv, KeptInv, VerifiedInv, PlaintextIsNamed, Restorable
<1> QED  BY <1>4, <1>5

LEMMA CompleteStep ==
  ASSUME IInv, CompleteIntent
  PROVE  BackupInv' /\ VerifiedInv' /\ PlaintextIsNamed'
<1>1. UNCHANGED <<copy, remote, lapsed, receipt, status>>
  BY DEF CompleteIntent, files
<1>2. intent'.run = intent.run /\ intent'.phase = "complete"
  BY DEF CompleteIntent, IInv, TypeOK
<1>3. \A r \in Runs : copy[r] = None
  BY DEF CompleteIntent, IInv, BackupInv, IntentInv
<1>4. \/ job' = NoJob
      \/ job' = [job EXCEPT !.at = "reserve"] /\ job.run = None
  BY DEF CompleteIntent, Goes, Ends
<1>5. CASE job' = [job EXCEPT !.at = "reserve"] /\ job.run = None
  <2>1. job'.at = "reserve" /\ job'.run = None /\ ~job'.good
    BY <1>5, RunsAssumption DEF IInv, TypeOK, BackupInv, JobInv
  <2> QED
    BY <2>1, <1>1, <1>2, <1>3, RunsAssumption

          DEF KeptInv, VerifiedInv, PlaintextIsNamed, Restorable, IInv, BackupInv, IntentInv,
              JobInv, CopyInv, RemoteInv, Capturing, Resuming, Proving, Retained, Restores
<1>6. VerifiedInv' /\ PlaintextIsNamed'
  BY <1>1, <1>2, <1>3 DEF IInv, KeptInv, VerifiedInv, PlaintextIsNamed, Restorable
<1> QED  BY <1>4, <1>5, <1>6, Idled

LEMMA ReserveStep ==
  ASSUME IInv, ReserveRun
  PROVE  BackupInv' /\ VerifiedInv' /\ PlaintextIsNamed'
<1>1. UNCHANGED <<intent, copy, remote, lapsed, receipt, status>>
  BY DEF ReserveRun
<1>2. PICK r \in Unused : job' = [job EXCEPT !.at = "quiesce", !.run = r]
  BY DEF ReserveRun
<1>3. r \in Runs \ lapsed /\ remote[r] = None
  BY DEF Unused
<1>4. job'.at = "quiesce" /\ job'.run = r /\ ~job'.good
  BY <1>2 DEF ReserveRun, IInv, TypeOK, BackupInv, JobInv
<1>5. intent.phase = "complete"
  BY DEF ReserveRun, IInv, BackupInv, IntentInv
<1>6. BackupInv'
  BY <1>1, <1>3, <1>4, <1>5
     DEF BackupInv, IntentInv, JobInv, CopyInv, RemoteInv, Capturing, Resuming, Proving,
         Retained, Restores
<1> QED  BY <1>1, <1>6, DataKept

LEMMA QuiesceStep ==
  ASSUME IInv, Quiesce
  PROVE  BackupInv' /\ VerifiedInv' /\ PlaintextIsNamed'
<1>1. UNCHANGED <<copy, remote, lapsed, receipt, status>>
  BY DEF Quiesce, files
<1>2. intent'.run = job.run /\ intent'.phase = "quiescing"
  BY DEF Quiesce
<1>3. /\ job.at = "quiesce" /\ job'.at = "stop"
      /\ job'.run = job.run /\ job'.good = job.good
  BY DEF Quiesce, Goes, IInv, TypeOK
<1>4. \A r \in Runs : copy[r] = None
  BY <1>3 DEF IInv, BackupInv, IntentInv, KeptInv, PlaintextIsNamed
<1>5. BackupInv'
  BY <1>1, <1>2, <1>3
     DEF IInv, BackupInv, IntentInv, JobInv, CopyInv, RemoteInv, Capturing, Resuming, Proving,
         Retained, Restores
<1>6. VerifiedInv' /\ PlaintextIsNamed'
  BY <1>1, <1>4 DEF IInv, KeptInv, VerifiedInv, PlaintextIsNamed, Restorable
<1> QED  BY <1>5, <1>6

LEMMA StopStep ==
  ASSUME IInv, StopHost \/ LockAccount
  PROVE  BackupInv' /\ VerifiedInv' /\ PlaintextIsNamed'
<1>1. UNCHANGED <<intent, copy, remote, lapsed, receipt, status>>
  BY DEF StopHost, LockAccount, files
<1>2. /\ job.at \in {"stop", "lock"} /\ job'.at \in {"lock", "capture"}
      /\ job'.run = job.run /\ job'.good = job.good
  BY DEF StopHost, LockAccount, Goes, IInv, TypeOK
<1>3. BackupInv'
  BY <1>1, <1>2
     DEF IInv, BackupInv, IntentInv, JobInv, CopyInv, RemoteInv, Capturing, Resuming, Proving,
         Retained, Restores
<1> QED  BY <1>1, <1>3, DataKept

LEMMA FirstCopyStep ==
  ASSUME IInv, CopyFirst
  PROVE  BackupInv' /\ VerifiedInv' /\ PlaintextIsNamed'
<1>1. UNCHANGED <<intent, remote, lapsed, receipt, status>> /\ UNCHANGED <<journals, published>>
  BY DEF CopyFirst, machine
<1>2. /\ job.at = "capture" /\ job'.at = "copying" /\ job'.seen = journals
      /\ job'.run = job.run /\ job'.good = job.good
  BY DEF CopyFirst, IInv, TypeOK
<1>3. job.run \in Runs /\ intent.phase = "quiescing" /\ intent.run = job.run
  BY <1>2 DEF IInv, BackupInv, IntentInv, JobInv, Capturing
<1>4. /\ copy'[job.run] = [auth |-> published, mixed |-> FALSE]
      /\ \A r \in Runs : r # job.run => copy'[r] = copy[r]
  BY <1>3 DEF CopyFirst, IInv, TypeOK
<1>5. BackupInv'
  BY <1>1, <1>2, <1>3, <1>4
     DEF IInv, BackupInv, IntentInv, JobInv, CopyInv, RemoteInv, Capturing,
         Resuming, Proving, Retained, Restores
<1>6. VerifiedInv' /\ PlaintextIsNamed'
  BY <1>1, <1>3, <1>4 DEF IInv, KeptInv, VerifiedInv, PlaintextIsNamed, Restorable
<1> QED  BY <1>5, <1>6

\* The lock kept the journals still, so what was copied is of one moment.
LEMMA LastCopyStep ==
  ASSUME IInv, CopyLast
  PROVE  BackupInv' /\ VerifiedInv' /\ PlaintextIsNamed'
<1>1. UNCHANGED <<intent, remote, lapsed, receipt, status>>
  BY DEF CopyLast
<1>2. /\ job.at = "copying" /\ job'.at = "guard"
      /\ job'.run = job.run /\ job'.good
  BY DEF CopyLast, IInv, TypeOK
<1>3. job.run \in Runs /\ intent.phase = "quiescing" /\ intent.run = job.run
  BY <1>2 DEF IInv, BackupInv, IntentInv, JobInv, Capturing
<1>4. copy[job.run] = [auth |-> published, mixed |-> FALSE] /\ job.seen = journals
  BY <1>2 DEF IInv, BackupInv, CopyInv
<1>5. /\ copy'[job.run].auth = published /\ ~copy'[job.run].mixed
      /\ \A r \in Runs : r # job.run => copy'[r] = copy[r]
  <2>1. copy' = [copy EXCEPT ![job.run].mixed = journals # job.seen]
    BY DEF CopyLast
  <2>2. copy'[job.run] = [copy[job.run] EXCEPT !.mixed = (journals # job.seen)]
    BY <2>1, <1>3 DEF IInv, TypeOK
  <2>3. copy[job.run].auth = published /\ copy[job.run] \in [auth : {published}, mixed : {FALSE}]
    BY <1>4
  <2>4. copy'[job.run].auth = published
    BY <2>2, <2>3
  <2>5. ~copy'[job.run].mixed
    BY <2>2, <2>3, <1>4
  <2>6. \A r \in Runs : r # job.run => copy'[r] = copy[r]
    BY <2>1 DEF IInv, TypeOK
  <2> QED  BY <2>4, <2>5, <2>6
<1>6. Restorable([auth |-> published, mixed |-> FALSE])
  BY WholeAttachment DEF IInv, KeptInv, CopyLast
<1>7. BackupInv'
  <2>1. CopyInv'
    BY <1>2, <1>5, <1>6 DEF CopyInv, Restorable
  <2>2. IntentInv' /\ JobInv' /\ RemoteInv'
    BY <1>1, <1>2, <1>3
       DEF IInv, BackupInv, IntentInv, JobInv, CopyInv, RemoteInv, Capturing,
         Resuming, Proving, Retained, Restores
  <2> QED  BY <2>1, <2>2 DEF BackupInv
<1>8. VerifiedInv' /\ PlaintextIsNamed'
  BY <1>1, <1>3, <1>5 DEF IInv, KeptInv, VerifiedInv, PlaintextIsNamed, Restorable
<1> QED  BY <1>7, <1>8

\* A run that is uploaded was called verified by nobody.
LEMMA UploadStep ==
  ASSUME IInv, Upload
  PROVE  BackupInv' /\ VerifiedInv' /\ PlaintextIsNamed'
<1>1. UNCHANGED <<intent, copy, lapsed, receipt, status>>
  BY DEF Upload
<1>2. /\ job.at = "upload" /\ job'.at = "retain"
      /\ job'.run = job.run /\ job'.good = job.good
  BY DEF Upload, Goes, IInv, TypeOK
<1>3. job.run \in Runs /\ remote[job.run] = None
  BY <1>2 DEF IInv, BackupInv, JobInv, RemoteInv, Proving
<1>4. \A r \in Runs : r # job.run => remote'[r] = remote[r]
  BY DEF Upload, IInv, TypeOK
<1>5. BackupInv'
  BY <1>1, <1>2
     DEF IInv, Restorable, BackupInv, IntentInv, JobInv, CopyInv, RemoteInv, Capturing,
         Resuming, Proving, Retained, Restores
<1>6. VerifiedInv' /\ PlaintextIsNamed'
  BY <1>1, <1>3, <1>4 DEF IInv, KeptInv, VerifiedInv, PlaintextIsNamed, Restorable
<1> QED  BY <1>5, <1>6

LEMMA ProveStep ==
  ASSUME IInv, CheckRetention \/ VerifyRemote
  PROVE  BackupInv' /\ VerifiedInv' /\ PlaintextIsNamed'
<1>1. UNCHANGED <<intent, copy, remote, lapsed, receipt, status>>
  BY DEF CheckRetention, VerifyRemote, files
<1>2. /\ \/ job.at = "retain" /\ job'.at = "verify" /\ Retained
         \/ job.at = "verify" /\ job'.at = "receipt" /\ Restores
      /\ job'.run = job.run /\ job'.good = job.good
  BY DEF CheckRetention, VerifyRemote, Goes, IInv, TypeOK
<1>3. BackupInv'
  BY <1>1, <1>2
     DEF IInv, Restorable, BackupInv, IntentInv, JobInv, CopyInv, RemoteInv, Capturing,
         Resuming, Proving, Retained, Restores
<1> QED  BY <1>1, <1>3, DataKept

\* What is called verified is retained, and was found to restore to what was captured.
LEMMA PublishStep ==
  ASSUME IInv, UploadReceipt \/ WriteStatus
  PROVE  BackupInv' /\ VerifiedInv' /\ PlaintextIsNamed'
<1>1. UNCHANGED <<intent, copy, remote, lapsed>>
  BY DEF UploadReceipt, WriteStatus
<1>2. /\ job.at \in {"receipt", "status"} /\ job'.at \in {"status", "clean"}
      /\ job'.run = job.run /\ job'.good = job.good
  BY DEF UploadReceipt, WriteStatus, Goes, IInv, TypeOK
<1>3. BackupInv'
  BY <1>1, <1>2
     DEF IInv, Restorable, BackupInv, IntentInv, JobInv, CopyInv, RemoteInv, Capturing,
         Resuming, Proving, Retained, Restores
<1>4. receipt' \subseteq receipt \cup {job.run} /\ status' \in {status, job.run}
  BY DEF UploadReceipt, WriteStatus
<1>5. /\ job.run \in Runs /\ remote[job.run] # None /\ remote[job.run].locked
      /\ Restorable(copy[job.run]) /\ remote[job.run].account = copy[job.run]
  BY <1>2 DEF IInv, BackupInv, IntentInv, JobInv, CopyInv, RemoteInv, Capturing,
         Resuming, Proving, Retained, Restores
<1>6. VerifiedInv'
  BY <1>1, <1>4, <1>5 DEF IInv, KeptInv, VerifiedInv, Restorable
<1>7. PlaintextIsNamed'
  BY <1>1 DEF IInv, KeptInv, PlaintextIsNamed
<1> QED  BY <1>3, <1>6, <1>7

LEMMA LapseStep ==
  ASSUME IInv, NEW q \in Runs, RetentionEnds(q)
  PROVE  BackupInv' /\ VerifiedInv' /\ PlaintextIsNamed'
<1>1. /\ UNCHANGED <<intent, job, copy, remote, receipt, status>>
      /\ UNCHANGED <<journals, published>>
      /\ lapsed' = lapsed \cup {q} /\ q # job.run
  BY DEF RetentionEnds
<1>2. BackupInv'
  BY <1>1
     DEF IInv, Restorable, BackupInv, IntentInv, JobInv, CopyInv, RemoteInv, Capturing,
         Resuming, Proving, Retained, Restores
<1>3. VerifiedInv' /\ PlaintextIsNamed'
  BY <1>1 DEF IInv, KeptInv, VerifiedInv, PlaintextIsNamed, Restorable
<1> QED  BY <1>2, <1>3

\* Retention, while it lasts, keeps the bucket from dropping what a run has been proved
\* to be; it does not end in the run that is to check it.
LEMMA PurgeStep ==
  ASSUME IInv, NEW q \in Runs, Purge(q)
  PROVE  BackupInv' /\ VerifiedInv' /\ PlaintextIsNamed'
<1>1. UNCHANGED <<intent, job, copy, lapsed, receipt, status>> /\ UNCHANGED <<journals, published>>
  BY DEF Purge
<1>2. /\ ~remote[q].locked \/ q \in lapsed
      /\ remote[q] # None
      /\ remote'[q] = None /\ \A r \in Runs : r # q => remote'[r] = remote[r]
  BY DEF Purge, IInv, TypeOK
<1>3. BackupInv'
  BY <1>1, <1>2
     DEF IInv, Restorable, BackupInv, IntentInv, JobInv, CopyInv, RemoteInv, Capturing,
         Resuming, Proving, Retained, Restores
<1>4. VerifiedInv' /\ PlaintextIsNamed'
  BY <1>1, <1>2 DEF IInv, KeptInv, VerifiedInv, PlaintextIsNamed, Restorable
<1> QED  BY <1>3, <1>4

LEMMA RefuseStep ==
  ASSUME IInv, Refuse \/ Killed
  PROVE  BackupInv' /\ VerifiedInv' /\ PlaintextIsNamed'
<1>1. UNCHANGED <<intent, copy, remote, lapsed, receipt, status>>
  BY DEF Refuse, Killed, files
<1>2. \/ job' = NoJob
      \/ job.at \in Capturing /\ job' = [job EXCEPT !.at = "guard", !.seen = 0]
      \/ job.at \in Proving /\ job' = [job EXCEPT !.at = "clean"]
  <2>1. CASE Refuse /\ job.at \in Capturing
    BY <2>1 DEF Refuse, Capturing
  <2>2. CASE Refuse /\ job.at \in Proving
    BY <2>2 DEF Refuse, Proving, Goes
  <2>3. CASE Refuse /\ job.at \notin Capturing \cup Proving
    BY <2>3 DEF Refuse, Ends, Capturing, Proving
  <2>4. CASE Killed
    BY <2>4 DEF Killed, Ends
  <2> QED  BY <2>1, <2>2, <2>3, <2>4
<1>3. CASE job.at \in Capturing /\ job' = [job EXCEPT !.at = "guard", !.seen = 0]
  <2>1. job'.at = "guard" /\ job'.run = job.run /\ job'.good = job.good
    BY <1>3 DEF IInv, TypeOK
  <2>2. BackupInv'
    BY <1>1, <1>3, <2>1
       DEF IInv, BackupInv, IntentInv, JobInv, CopyInv, RemoteInv, Capturing,
         Resuming, Proving, Retained, Restores
  <2> QED  BY <1>1, <2>2, DataKept
<1>4. CASE job.at \in Proving /\ job' = [job EXCEPT !.at = "clean"]
  <2>1. job'.at = "clean" /\ job'.run = job.run /\ job'.good = job.good
    BY <1>4 DEF IInv, TypeOK
  <2>2. BackupInv'
    BY <1>1, <1>4, <2>1
       DEF IInv, BackupInv, IntentInv, JobInv, CopyInv, RemoteInv, Capturing,
         Resuming, Proving, Retained, Restores
  <2> QED  BY <1>1, <2>2, DataKept
<1> QED  BY <1>1, <1>2, <1>3, <1>4, DataKept, Idled

(***************************************************************************)
(* Together.                                                                 *)
(***************************************************************************)
LEMMA BackupStepKeeps ==
  ASSUME IInv, BackupNext, UNCHANGED <<rolling, attaching>>
  PROVE  IInv'
<1>1. UNCHANGED <<current, tree, captured, kept, result, rollout, plan, attach>>
  BY DEF rolling, attaching
<1>2. BackupInv' /\ VerifiedInv' /\ PlaintextIsNamed'
  BY BeginStep, ReconcileStep, ResumeStep, ResumedStep, RemoveStep, CompleteStep, ReserveStep,
     QuiesceStep, StopStep, FirstCopyStep, LastCopyStep, UploadStep, ProveStep, PublishStep,
     LapseStep, PurgeStep, RefuseStep
     DEF BackupNext, BackupStep
<1>3. RolloutInv' /\ LinkInv' /\ AttachmentIsWhole' /\ SwitchIsOnRecord' /\ ResultIsOfAMove'
  BY <1>1, BackupFrame
     DEF IInv, KeptInv, RolloutInv, LinkInv, OnlyOf, AttachmentIsWhole, SwitchIsOnRecord,
         ResultIsOfAMove
<1> QED  BY <1>2, <1>3, BackupLock, BackupTypes DEF IInv, KeptInv

\* What a restart leaves is on disk, and no process is in the middle of anything.
LEMMA RestartStep ==
  ASSUME IInv, MachineRestarts
  PROVE  IInv'
<1>1. /\ UNCHANGED <<published, current, kept, result, intent, copy, remote, lapsed, receipt, status>>
      /\ host' = "inactive" /\ rollout' = Resting /\ attach' = Unattached /\ job' = NoJob
  BY DEF MachineRestarts, files
<1>2. TypeOK'
  <2>1. /\ attach' = [at |-> attach'.at, plan |-> attach'.plan]
        /\ attach'.plan \in Plans \cup {None}
    BY <1>1 DEF Unattached
  <2>2. /\ job' = [at |-> job'.at, unit |-> job'.unit, run |-> job'.run, good |-> job'.good,
                  seen |-> job'.seen]
        /\ job'.run \in Runs \cup {None}
    BY <1>1 DEF NoJob
  <2>3. rollout' = [at |-> rollout'.at, expected |-> rollout'.expected,
                    target |-> rollout'.target, hash |-> rollout'.hash]
    BY <1>1 DEF Resting
  <2> QED  BY <1>1, <2>1, <2>2, <2>3 DEF IInv, TypeOK
<1>3. LockInv' /\ RolloutInv' /\ LinkInv'
  BY <1>1 DEF LockInv, RolloutInv, LinkInv, NoJob, Resting, Unattached
<1>4. KeptInv'
  BY <1>1, DataKept DEF IInv, KeptInv, AttachmentIsWhole, SwitchIsOnRecord, ResultIsOfAMove
<1> QED  BY <1>1, <1>2, <1>3, <1>4, Idled DEF IInv

LEMMA Inductive == IInv /\ [Next]_vars => IInv'
<1> SUFFICES ASSUME IInv, [Next]_vars PROVE IInv'
  OBVIOUS
<1>1. CASE Next
  BY <1>1, MachineStep, RolloutStep, AttachStep, BackupStepKeeps, RestartStep DEF Next
<1>2. CASE UNCHANGED vars
  <2>1. /\ UNCHANGED <<host, journals, published, operatorLock>>
        /\ UNCHANGED <<current, kept, result, rollout, attach>>
        /\ UNCHANGED <<intent, job, copy, remote, lapsed, receipt, status>>
    BY <1>2 DEF vars, machine, rolling, attaching, backing
  <2>2. TypeOK' /\ LockInv' /\ RolloutInv' /\ LinkInv'
    BY <2>1 DEF IInv, TypeOK, LockInv, RolloutInv, LinkInv, OnlyOf
  <2>3. BackupInv'
    BY <2>1 DEF IInv, Restorable, BackupInv, IntentInv, JobInv, CopyInv, RemoteInv, Capturing,
         Resuming, Proving, Retained, Restores
  <2>4. KeptInv'
    BY <2>1, DataKept DEF IInv, KeptInv, AttachmentIsWhole, SwitchIsOnRecord, ResultIsOfAMove
  <2> QED  BY <2>2, <2>3, <2>4 DEF IInv
<1> QED  BY <1>1, <1>2

\* Whatever the operator edits, whichever process is killed and whenever the machine
\* restarts: a run called verified has a restorable archive while its retention lasts,
\* account data on disk is named by an unfinished intent, an attachment is whole, a move
\* of the link is on record and a result is about a recorded move.
THEOREM PublishedWhole == Spec => []PublishedIsWhole
<1>1. IInv => PublishedIsWhole
  BY DEF IInv, KeptInv, PublishedIsWhole, VerifiedInv, VerifiedIsRestorable
<1> QED  BY <1>1, Initially, Inductive, PTL DEF Spec

LEMMA Invariant == Spec => []IInv
BY Initially, Inductive, PTL DEF Spec

(***************************************************************************)
(* operator.lock: one process at a time is at the account, so nothing moves  *)
(* under a capture.                                                          *)
(***************************************************************************)
AtTheAccount == {x \in {"host", "attach", "backup"} :
  \/ x = "host" /\ host = "serving"
  \/ x = "attach" /\ attach # Unattached
  \/ x = "backup" /\ job.at \in {"capture", "copying"}}

OneAtTheAccount == \A x, y \in AtTheAccount : x = y

\* The host that serves, the attachment and the capture exclude each other, although the
\* lock goes with whoever is stopped or killed (existing_lock in both tools, the host).
THEOREM AccountIsExclusive == Spec => []OneAtTheAccount
<1>1. IInv => OneAtTheAccount
  BY DEF IInv, LockInv, OneAtTheAccount, AtTheAccount
<1> QED  BY <1>1, Invariant, PTL

CaptureIsStill == [][job.at = "copying" => UNCHANGED <<journals, published>>]_vars

\* From the first file of a copy to the last, no journal is committed to and no token file
\* is linked, whoever is started, stopped or killed meanwhile (HostBackup.capture).
THEOREM NothingMovesUnderACapture == Spec => CaptureIsStill
<1>1. IInv /\ [Next]_vars => [job.at = "copying" => UNCHANGED <<journals, published>>]_vars
  <2> SUFFICES ASSUME IInv, Next, job.at = "copying" PROVE UNCHANGED <<journals, published>>
    OBVIOUS
  <2>1. host # "serving" /\ attach = Unattached
    BY NobodyAssumption DEF IInv, LockInv
  <2>2. CASE MachineNext
    BY <2>1, <2>2 DEF MachineNext, HostOpens, HostCommits, HostFails, OperatorEdits,
                      OperatorStarts, OperatorStops
  <2>3. CASE RolloutNext
    BY <2>3 DEF RolloutNext, CaptureReceipt, KeepIntent, HashTarget, Recheck, ReplaceLink,
                SaveResult, BeginRollback, RolloutEnds, ReleaseEdited, BeginSwitch, machine
  <2>4. CASE AttachNext
    <3>1. attach.at = "idle"
      BY <2>1 DEF Unattached
    <3> QED
      BY <2>4, <3>1 DEF AttachNext, Prepare, CommitPlan, Apply, Validate, Link, Attached,
                        AttachEnds, machine
  <2>5. CASE BackupNext
    BY <2>5, BackupFrame
  <2>6. CASE MachineRestarts
    BY <2>6 DEF MachineRestarts
  <2> QED  BY <2>2, <2>3, <2>4, <2>5, <2>6 DEF Next
<1> QED  BY <1>1, Invariant, PTL DEF Spec, CaptureIsStill

(***************************************************************************)
(* The tokens: once they are listed, they are the host's for good.           *)
(***************************************************************************)
TokensAreFinal == [][published["agent-auth.json"] # None => UNCHANGED published]_vars

LEMMA OnlyLinks ==
  ASSUME Next
  PROVE  Link \/ UNCHANGED published
<1>1. CASE MachineNext
  BY <1>1 DEF MachineNext, HostOpens, HostCommits, HostFails, OperatorEdits, OperatorStarts,
              OperatorStops
<1>2. CASE RolloutNext
  BY <1>2 DEF RolloutNext, CaptureReceipt, KeepIntent, HashTarget, Recheck, ReplaceLink,
              SaveResult, BeginRollback, RolloutEnds, ReleaseEdited, BeginSwitch, machine
<1>3. CASE AttachNext
  BY <1>3 DEF AttachNext, Prepare, CommitPlan, Apply, Validate, Attached, AttachEnds, machine
<1>4. CASE BackupNext
  BY <1>4, BackupFrame
<1>5. CASE MachineRestarts
  BY <1>5 DEF MachineRestarts
<1> QED  BY <1>1, <1>2, <1>3, <1>4, <1>5 DEF Next

LEMMA ListedIsFinal ==
  ASSUME IInv, Next, published["agent-auth.json"] # None
  PROVE  UNCHANGED published
<1>1. Unpublished = {}
  BY DEF IInv, KeptInv, AttachmentIsWhole, Unpublished
<1>2. ~Link
  BY <1>1 DEF Link
<1> QED  BY <1>2, OnlyLinks

\* agent-auth.json is the last file an attachment links, and a link refuses a name that
\* exists: once the tokens are listed no later run of apply, of the same plan or of
\* another, changes a file of them.
THEOREM ListedTokensAreFinal == Spec => TokensAreFinal
<1>1. IInv /\ [Next]_vars => [published["agent-auth.json"] # None => UNCHANGED published]_vars
  BY ListedIsFinal
<1> QED  BY <1>1, Invariant, PTL DEF Spec, TokensAreFinal

HostHasTokens == Active => \E p \in Plans : \A name \in Added : published[name] = p

StartedInv == Active => published["agent-auth.json"] # None

LEMMA StartedKept ==
  ASSUME IInv, StartedInv, [Next]_vars
  PROVE  StartedInv'
<1>1. CASE UNCHANGED vars
  BY <1>1 DEF vars, machine, StartedInv, Active
<1>2. CASE Next
  <2>1. published["agent-auth.json"] # None => published'["agent-auth.json"] # None
    BY <1>2, ListedIsFinal
  <2>2. Active' => Active \/ host' = Started
    <3>1. CASE MachineNext
      BY <3>1 DEF MachineNext, HostOpens, HostCommits, HostFails, OperatorEdits,
                  OperatorStarts, OperatorStops, Active
    <3>2. CASE RolloutNext
      BY <3>2 DEF RolloutNext, CaptureReceipt, KeepIntent, HashTarget, Recheck, ReplaceLink,
                  SaveResult, BeginRollback, RolloutEnds, ReleaseEdited, BeginSwitch, machine,
                  Active
    <3>3. CASE AttachNext
      BY <3>3 DEF AttachNext, Prepare, CommitPlan, Apply, Validate, Link, Attached,
                  AttachEnds, machine, Active
    <3>4. CASE BackupNext
      BY <3>4 DEF BackupNext, BackupStep, TimerFires, RecoveryStarts, Reconcile, CheckGuards,
                  StartHost, MarkResumed, RemoveRun, CompleteIntent, ReserveRun, Quiesce,
                  StopHost, LockAccount, CopyFirst, CopyLast, Upload, CheckRetention,
                  VerifyRemote, UploadReceipt, WriteStatus, Refuse, Killed, RetentionEnds, Purge, machine,
                  Active
    <3>5. CASE MachineRestarts
      BY <3>5 DEF MachineRestarts, Active
    <3> QED  BY <1>2, <3>1, <3>2, <3>3, <3>4, <3>5 DEF Next
  <2>3. Active' => Active \/ published["agent-auth.json"] # None
    BY <2>2 DEF Started, Active
  <2> QED  BY <2>1, <2>3 DEF StartedInv
<1> QED  BY <1>1, <1>2

\* A host that runs has all the tokens of one attachment, whoever started it: the
\* operator, or a backup or a recovery that found it was active before (the unit's
\* ConditionPathExists on agent-auth.json, attach_agent_host.apply).
THEOREM RunningHostHasTokens == Spec => []HostHasTokens
<1>1. Init => StartedInv
  BY DEF Init, MachineInit, StartedInv, Active
<1>2. IInv /\ StartedInv => HostHasTokens
  <2> SUFFICES ASSUME IInv, Active, published["agent-auth.json"] # None
               PROVE  \E p \in Plans : \A name \in Added : published[name] = p
    BY DEF StartedInv, HostHasTokens
  <2>1. published["agent-auth.json"] \in Plans
    BY ThreeAdded DEF IInv, TypeOK
  <2> QED  BY <2>1 DEF IInv, KeptInv, AttachmentIsWhole
<1> QED  BY <1>1, <1>2, StartedKept, Invariant, PTL DEF Spec

(***************************************************************************)
(* A backup that was verified stays what it was.                             *)
(***************************************************************************)
VerifiedIsKept ==
  [][\A r \in Runs \ lapsed : status = r \/ r \in receipt => remote'[r] = remote[r]]_vars

\* What is once called verified is not overwritten by a later run, nor dropped by the
\* bucket while its retention lasts, 89 days at least: a run uploads before it has a
\* receipt, under a name nobody has used, and only an archive under retention gets one
\* (backup_agent_host.backup, check_retention).
THEOREM VerifiedArchivesAreKept == Spec => VerifiedIsKept
<1>1. IInv /\ [Next]_vars =>
        [\A r \in Runs \ lapsed : status = r \/ r \in receipt => remote'[r] = remote[r]]_vars
  <2> SUFFICES ASSUME IInv, Next, NEW r \in Runs \ lapsed, status = r \/ r \in receipt
               PROVE  remote'[r] = remote[r]
    OBVIOUS
  <2>1. remote[r] # None /\ remote[r].locked
    BY DEF IInv, KeptInv, VerifiedInv
  <2>2. CASE Upload
    <3>1. job.run \in Runs /\ remote[job.run] = None
      BY <2>2 DEF Upload, IInv, BackupInv, JobInv, RemoteInv, Proving
    <3> QED  BY <2>1, <2>2, <3>1 DEF Upload, IInv, TypeOK
  <2>3. CASE \E q \in Runs : Purge(q)
    BY <2>1, <2>3 DEF Purge, IInv, TypeOK
  <2>4. CASE BackupNext /\ ~Upload /\ ~(\E q \in Runs : Purge(q))
    <3>1. UNCHANGED remote
      BY <2>4 DEF BackupNext, BackupStep, TimerFires, RecoveryStarts, Reconcile, CheckGuards,
                  StartHost, MarkResumed, RemoveRun, CompleteIntent, ReserveRun, Quiesce,
                  StopHost, LockAccount, CopyFirst, CopyLast, CheckRetention, VerifyRemote,
                  UploadReceipt, WriteStatus, Refuse, Killed, RetentionEnds, files
    <3> QED  BY <3>1
  <2>5. CASE UNCHANGED backing \/ MachineRestarts
    BY <2>5 DEF backing, MachineRestarts, files
  <2> QED  BY <2>2, <2>3, <2>4, <2>5 DEF Next
<1> QED  BY <1>1, Invariant, PTL DEF Spec, VerifiedIsKept
=============================================================================
