----------------------------- MODULE HostMachine -----------------------------
(* The Linux host the paper agent runs on, as its deployment tools see it: the *)
(* systemd unit liquilens-agent-host.service, the private state directory with *)
(* its two journals and its authentication files, the account process lock     *)
(* operator.lock, and the operator who may edit what the tools guard.           *)
EXTENDS Naturals, FiniteSets

CONSTANTS Settings,    \* bytes of config.json, of the unit files and of STOP, together
          Disabled,    \* those a disabled paper host may have: what guards() accepts
          Initial,     \* the bytes the host is installed with
          Plans,       \* attachment plan directories
          None,
          MaxWrites,   \* bound: commits of the host to its journals
          MaxMishaps   \* bound: operator edits and unit commands, processes killed or
                       \* failing, machine restarts, commands and checks that fail,
                       \* archives whose retention ends or that the bucket drops

ASSUME SettingsAssumption == /\ Disabled \subseteq Settings
                             /\ Initial \in Disabled
                             /\ MaxWrites \in Nat /\ MaxMishaps \in Nat
ASSUME NobodyAssumption == None \notin {"host", "attach", "backup"}

VARIABLES
  host,        \* the unit: inactive, starting and serving (both active), failed
  settings,    \* the guarded bytes as they are on disk
  bound,       \* config.json names a broker account: not before the rollout, always
               \* after; for a tool it is a change of the bytes like any other edit
  journals,    \* commits to audit.sqlite3 and alpaca-submissions.sqlite3 so far
  opened,      \* a host has created the submission journal
  published,   \* which plan each authentication file of the state directory is from
  operatorLock,\* who holds operator.lock
  mishaps      \* how much of the bound is spent

machine == <<host, settings, bound, journals, opened, published, operatorLock, mishaps>>

\* The files an attachment adds, the order it links them in.
Additions == <<"agent-read.token", "agent-execution.token", "agent-auth.json">>
Added == {Additions[i] : i \in DOMAIN Additions}

MachineInit ==
  /\ host = "inactive" /\ settings = Initial /\ bound \in BOOLEAN /\ opened = FALSE
  /\ journals = 0
  /\ published = [name \in Added |-> None]
  /\ operatorLock = None /\ mishaps = 0

\* What systemctl calls ActiveState=active: a Type=simple process that was forked.
Active == host \in {"starting", "serving"}

\* The result of `systemctl start`: nothing while the file its condition names is
\* missing, a forked process otherwise.
Started == IF Active \/ published["agent-auth.json"] = None THEN host ELSE "starting"

\* The lock is not of a process that systemd has ended.
Released(process) == IF operatorLock = process THEN None ELSE operatorLock

(***************************************************************************)
(* The host process: it owns operator.lock for its lifetime, creates the    *)
(* submission journal, and commits what agents ask of it to its journals      *)
(* (assessments and events, also while execution is disabled).               *)
(***************************************************************************)
HostOpens ==
  /\ host = "starting"
  /\ IF operatorLock = None /\ settings \in Disabled
     THEN host' = "serving" /\ operatorLock' = "host" /\ opened' = TRUE
     ELSE host' = "failed" /\ UNCHANGED <<operatorLock, opened>>
  /\ UNCHANGED <<settings, bound, journals, published, mishaps>>

HostCommits ==
  /\ host = "serving" /\ journals < MaxWrites
  /\ journals' = journals + 1
  /\ UNCHANGED <<host, settings, bound, opened, published, operatorLock, mishaps>>

\* The process ends by itself with an error.
HostFails ==
  /\ Active /\ mishaps < MaxMishaps
  /\ host' = "failed" /\ mishaps' = mishaps + 1
  /\ operatorLock' = Released("host")
  /\ UNCHANGED <<settings, bound, journals, opened, published>>

(***************************************************************************)
(* The operator, who may or may not hold backup.lock while doing it.         *)
(***************************************************************************)
OperatorEdits ==
  /\ mishaps < MaxMishaps /\ mishaps' = mishaps + 1
  /\ \E s \in Settings \ {settings} : settings' = s
  /\ UNCHANGED <<host, bound, journals, opened, published, operatorLock>>

\* The first start, once the attachment is done; a later one is a mishap.
OperatorStarts ==
  /\ Started # host /\ host' = Started
  /\ IF opened THEN mishaps < MaxMishaps /\ mishaps' = mishaps + 1
     ELSE UNCHANGED mishaps
  /\ UNCHANGED <<settings, bound, journals, opened, published, operatorLock>>

OperatorStops ==
  /\ mishaps < MaxMishaps /\ host # "inactive"
  /\ host' = "inactive" /\ mishaps' = mishaps + 1
  /\ operatorLock' = Released("host")
  /\ UNCHANGED <<settings, bound, journals, opened, published>>

MachineNext == \/ HostOpens \/ HostCommits \/ HostFails
               \/ OperatorEdits \/ OperatorStarts \/ OperatorStops
=============================================================================
