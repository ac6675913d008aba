------------------------------ MODULE HostBackup ------------------------------
(* backup_agent_host.py and its systemd units: stop the host, copy the account, *)
(* start it again, then encrypt the copy, upload it, and prove the upload by     *)
(* downloading and restoring it. What the tool must undo is kept in a durable    *)
(* intent, which `recover` reads after the backup process ends (ExecStopPost),   *)
(* at boot, and at the start of the next timed backup.                           *)
EXTENDS HostMachine

CONSTANT Runs    \* run identities; a bound, each backup takes a new one

ASSUME RunsAssumption == None \notin Runs

VARIABLES intent,   \* intent.json
          job,      \* the process that holds backup.lock, if any
          due,      \* a recovery systemd has yet to start: after a stop, at boot
          dirs,     \* private run directories that exist
          copy,     \* the account data in a run directory
          remote,   \* the archives in the bucket, and whether retention keeps them
          lapsed,   \* runs whose archives outlived their retention
          receipt,  \* runs with a RECEIPT.json in the bucket
          status    \* the run status.json calls verified

backing == <<intent, job, due, dirs, copy, remote, lapsed, receipt, status>>
files == <<dirs, copy, remote, lapsed, receipt, status>>

NoJob == [at |-> "idle", unit |-> "none", run |-> None, good |-> FALSE, seen |-> 0]
NoIntent == [run |-> None, wasActive |-> FALSE, guards |-> None, phase |-> "complete"]

BackupInit ==
  /\ intent = NoIntent /\ job = NoJob /\ due = "none"
  /\ dirs = {} /\ copy = [r \in Runs |-> None] /\ remote = [r \in Runs |-> None]
  /\ lapsed = {} /\ receipt = {} /\ status = None

\* guards() reads bytes it accepts, and they are the ones of the intent.
Unchanged == settings \in Disabled /\ settings = intent.guards

Goes(at) == job' = [job EXCEPT !.at = at]
Ends == job' = NoJob /\ due' = IF job.unit = "main" THEN "stopped" ELSE due

(***************************************************************************)
(* systemd starts a process: the timer, ExecStopPost, the boot unit. One of  *)
(* them at a time holds backup.lock; another would end at once.              *)
(***************************************************************************)
Begin(unit) == job = NoJob /\ job' = [NoJob EXCEPT !.at = "reconcile", !.unit = unit]
\* The timer is enabled once the attachment is done; the unit is not started again
\* while its ExecStopPost is still to run.
TimerFires == Begin("main") /\ due # "stopped" /\ published["agent-auth.json"] # None
              /\ UNCHANGED <<machine, intent, due, files>>

RecoveryStarts == due # "none" /\ Begin("recovery") /\ due' = "none"
                  /\ UNCHANGED <<machine, intent, files>>

\* recover(), also the first thing a backup does.
Reconcile ==
  /\ job.at = "reconcile"
  /\ CASE intent.phase = "quiescing" -> Goes("guard") /\ UNCHANGED due
       [] intent.phase = "resumed" -> Goes("clean") /\ UNCHANGED due
       [] OTHER -> IF job.unit = "main" THEN Goes("reserve") /\ UNCHANGED due ELSE Ends
  /\ UNCHANGED <<machine, intent, files>>

\* resume(): the guards are read, then the unit is started if it was active.
CheckGuards ==
  /\ job.at = "guard" /\ Unchanged /\ Goes("start")
  /\ UNCHANGED <<machine, intent, due, files>>

\* Only the backup that stopped the host starts it, a recovery does not.
BugStartsOnce ==
  /\ job.at = "start" /\ host # "failed"
  /\ host' = IF intent.wasActive /\ job.run # None THEN Started ELSE host
  /\ Goes("ready")
  /\ UNCHANGED <<settings, bound, journals, opened, published, operatorLock, mishaps,
                 intent, due, files>>

StartHost ==
  /\ job.at = "start" /\ host # "failed"
  /\ host' = IF intent.wasActive THEN Started ELSE host
  /\ Goes("ready")
  /\ UNCHANGED <<settings, bound, journals, opened, published, operatorLock, mishaps,
                 intent, due, files>>

\* wait_ready(): the host itself answered, under guards that did not move.
MarkResumed ==
  /\ job.at = "ready"
  /\ intent.wasActive => host = "serving" /\ Unchanged
  /\ intent' = [intent EXCEPT !.phase = "resumed"]
  /\ Goes(IF job.good THEN "upload" ELSE "clean")
  /\ UNCHANGED <<machine, due, files>>

\* The run directory goes before the intent that names it is complete.
RemoveRun ==
  /\ job.at = "clean"
  /\ dirs' = dirs \ {intent.run} /\ copy' = [copy EXCEPT ![intent.run] = None]
  /\ Goes("complete")
  /\ UNCHANGED <<machine, intent, due, remote, lapsed, receipt, status>>

CompleteIntent ==
  /\ job.at = "complete"
  /\ intent' = [intent EXCEPT !.phase = "complete"]
  /\ IF job.unit = "main" /\ job.run = None THEN Goes("reserve") /\ UNCHANGED due ELSE Ends
  /\ UNCHANGED <<machine, files>>

\* backup(): a new identity and its directory. One that left no trace is as good as new.
Unused == {r \in Runs \ (dirs \cup lapsed) : remote[r] = None /\ intent.run # r}

ReserveRun ==
  /\ job.at = "reserve"
  /\ Unused # {}
  /\ LET r == CHOOSE r \in Unused : TRUE
     IN dirs' = dirs \cup {r} /\ job' = [job EXCEPT !.at = "quiesce", !.run = r]
  /\ UNCHANGED <<machine, intent, due, copy, remote, lapsed, receipt, status>>

\* snapshot(): what was running, and under which bytes, is durable before the stop.
Quiesce ==
  /\ job.at = "quiesce" /\ settings \in Disabled /\ host # "failed"
  /\ intent' = [run |-> job.run, wasActive |-> Active, guards |-> settings,
                phase |-> "quiescing"]
  /\ Goes("stop")
  /\ UNCHANGED <<machine, due, files>>

StopHost ==
  /\ job.at = "stop"
  /\ host' = IF intent.wasActive /\ Active THEN "inactive" ELSE host
  /\ operatorLock' = IF host' = host THEN operatorLock ELSE Released("host")
  /\ Goes("lock")
  /\ UNCHANGED <<settings, bound, journals, opened, published, mishaps,
                 intent, due, files>>

\* A capture that trusts the stop it has just asked for.
BugTrustStop == Unchanged

Capturable == host = "inactive" /\ operatorLock = None /\ Unchanged

LockAccount ==
  /\ job.at = "lock" /\ Capturable
  /\ operatorLock' = "backup" /\ Goes("capture")
  /\ UNCHANGED <<host, settings, bound, journals, opened, published, mishaps,
                 intent, due, files>>

\* capture() reads file after file, a journal and then what SQLite left beside it. A copy
\* has the authentication files, and is mixed if its files are not of one moment.
CopyFirst ==
  /\ job.at = "capture"
  /\ copy' = [copy EXCEPT ![job.run] = [auth |-> published, mixed |-> FALSE]]
  /\ job' = [job EXCEPT !.at = "copying", !.seen = journals]
  /\ UNCHANGED <<machine, intent, due, dirs, remote, lapsed, receipt, status>>

\* Both journals and every authentication file must be there.
Complete == opened /\ \A name \in Added : published[name] # None

CopyLast ==
  /\ job.at = "copying" /\ Complete /\ Unchanged
  /\ copy' = [copy EXCEPT ![job.run].mixed = journals # job.seen]
  /\ operatorLock' = Released("backup")
  /\ job' = [job EXCEPT !.at = "guard", !.good = TRUE, !.seen = 0]
  /\ UNCHANGED <<host, settings, bound, journals, opened, published, mishaps,
                 intent, due, dirs, remote, lapsed, receipt, status>>

(***************************************************************************)
(* The host runs again. What the bucket stores may not be what was sent.     *)
(***************************************************************************)
Garbled == [auth |-> [name \in Added |-> None], mixed |-> FALSE]

Stored(account) == {[account |-> account, locked |-> TRUE],
                    [account |-> account, locked |-> FALSE],
                    [account |-> Garbled, locked |-> TRUE]}

Upload ==
  /\ job.at = "upload"
  /\ \E archive \in Stored(copy[job.run]) : remote' = [remote EXCEPT ![job.run] = archive]
  /\ Goes("retain")
  /\ UNCHANGED <<machine, intent, due, dirs, copy, lapsed, receipt, status>>

\* Retention ends, at least 89 days after the run that checked it.
RetentionEnds(r) ==
  /\ mishaps < MaxMishaps /\ mishaps' = mishaps + 1
  /\ remote[r] # None /\ remote[r].locked /\ r # job.run /\ r \notin lapsed
  /\ lapsed' = lapsed \cup {r}
  /\ UNCHANGED <<host, settings, bound, journals, opened, published, operatorLock,
                 intent, job, due, dirs, copy, remote, receipt, status>>

\* The bucket may drop what no retention keeps.
Purge(r) ==
  /\ mishaps < MaxMishaps /\ mishaps' = mishaps + 1
  /\ remote[r] # None /\ (~remote[r].locked \/ r \in lapsed)
  /\ remote' = [remote EXCEPT ![r] = None]
  /\ UNCHANGED <<host, settings, bound, journals, opened, published, operatorLock,
                 intent, job, due, dirs, copy, lapsed, receipt, status>>

Retained == remote[job.run] # None /\ remote[job.run].locked

\* A signed HEAD request asks the bucket, and nothing else, for its answer.
CheckRetention ==
  /\ job.at = "retain" /\ Retained /\ Goes("verify")
  /\ UNCHANGED <<machine, intent, due, files>>

\* What is downloaded and decrypted restores, file by file, to what was captured.
Restores == remote[job.run].account = copy[job.run]

VerifyRemote ==
  /\ job.at = "verify" /\ Restores /\ Goes("receipt")
  /\ UNCHANGED <<machine, intent, due, files>>

UploadReceipt ==
  /\ job.at = "receipt" /\ receipt' = receipt \cup {job.run} /\ Goes("status")
  /\ UNCHANGED <<machine, intent, due, dirs, copy, remote, lapsed, status>>

WriteStatus ==
  /\ job.at = "status" /\ status' = job.run /\ Goes("clean")
  /\ UNCHANGED <<machine, intent, due, dirs, copy, remote, lapsed, receipt>>

(***************************************************************************)
(* Failure. Inside snapshot() the host is resumed whatever happened; then    *)
(* backup() removes the run only if its intent says the host is back.        *)
(***************************************************************************)
Blocked ==
  CASE job.at = "guard" -> ~Unchanged
    [] job.at = "start" -> host = "failed"
    [] job.at = "ready" -> intent.wasActive /\ (~Active \/ ~Unchanged)
    [] job.at = "reserve" -> Unused = {}
    [] job.at = "quiesce" -> settings \notin Disabled \/ host = "failed"
    [] job.at = "lock" -> ~Capturable
    [] job.at = "copying" -> ~(Complete /\ Unchanged)
    [] job.at = "retain" -> ~Retained
    [] job.at = "verify" -> ~Restores
    [] OTHER -> FALSE

\* A require(), a lock that is busy, a command or a request that fails or takes too long.
Refuse ==
  /\ job # NoJob
  /\ \/ Blocked /\ UNCHANGED mishaps
     \/ mishaps < MaxMishaps /\ mishaps' = mishaps + 1
  /\ operatorLock' = Released("backup")
  /\ CASE job.at \in {"stop", "lock", "capture", "copying"} ->
            job' = [job EXCEPT !.at = "guard", !.seen = 0] /\ UNCHANGED due
       [] job.at \in {"upload", "retain", "verify", "receipt", "status"} -> Goes("clean") /\ UNCHANGED due
       [] OTHER -> Ends
  /\ UNCHANGED <<host, settings, bound, journals, opened, published, intent, files>>

Killed ==
  /\ job # NoJob /\ mishaps < MaxMishaps /\ mishaps' = mishaps + 1
  /\ Ends /\ operatorLock' = Released("backup")
  /\ UNCHANGED <<host, settings, bound, journals, opened, published, intent, files>>

BackupStep ==
  \/ TimerFires \/ RecoveryStarts \/ Reconcile \/ CheckGuards \/ StartHost \/ MarkResumed
  \/ RemoveRun \/ CompleteIntent \/ ReserveRun \/ Quiesce \/ StopHost \/ LockAccount
  \/ CopyFirst \/ CopyLast \/ Upload \/ CheckRetention \/ VerifyRemote \/ UploadReceipt
  \/ WriteStatus \/ Refuse
BackupNext == BackupStep \/ Killed \/ \E r \in Runs : RetentionEnds(r) \/ Purge(r)
=============================================================================
