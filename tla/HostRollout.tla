----------------------------- MODULE HostRollout -----------------------------
(* disabled_rollout.py: moves the link `current` of a disabled, unbound        *)
(* installation to another checked-out release, or back. A receipt captured    *)
(* beforehand must describe the installation exactly, an intent is kept        *)
(* before the link is replaced, and the result is saved only after what is      *)
(* installed has been read again.                                               *)
EXTENDS HostMachine

CONSTANTS Releases, First    \* release directories, and the one installed first

ASSUME First \in Releases

VARIABLES current,  \* the release the link names
          tree,     \* the content of each release directory
          captured, \* the last capture receipt, of those that stay on disk
          kept,     \* the moves the .intent files announce
          result,   \* the last result receipt
          rollout   \* the process: at which step, with which receipt and target

rolling == <<current, tree, captured, kept, result, rollout>>

Resting == [at |-> "idle", expected |-> None, target |-> None, hash |-> None]

RolloutInit ==
  /\ current = First /\ tree = [r \in Releases |-> 0]
  /\ captured = None /\ kept = {} /\ result = None /\ rollout = Resting

\* snapshot(): refused unless disabled, unbound and stopped.
Installable == settings \in Disabled /\ ~bound /\ host = "inactive"
Installation == [current |-> current, release |-> tree[current], private |-> settings]

CaptureReceipt ==
  /\ rollout = Resting /\ Installable
  /\ captured' = Installation
  /\ UNCHANGED <<machine, current, tree, kept, result, rollout>>

\* switch: to a clean checkout of the named commit, from the captured receipt.
BeginSwitch(target) ==
  /\ rollout = Resting /\ captured # None /\ tree[target] = 0
  /\ rollout' = [Resting EXCEPT !.at = "keep", !.expected = captured, !.target = target]
  /\ UNCHANGED <<machine, current, tree, captured, kept, result>>

\* rollback: to the release a result says was there before, if it is unchanged.
BeginRollback ==
  /\ rollout = Resting /\ result # None
  /\ tree[result.before.current] = result.before.release
  /\ rollout' = [Resting EXCEPT !.at = "keep", !.expected = result.after,
                                !.target = result.before.current]
  /\ UNCHANGED <<machine, current, tree, captured, kept, result>>

KeepIntent ==
  /\ rollout.at = "keep"
  /\ kept' = kept \cup {[from |-> rollout.expected.current, to |-> rollout.target]}
  /\ rollout' = [rollout EXCEPT !.at = "hash"]
  /\ UNCHANGED <<machine, current, tree, captured, result>>

HashTarget ==
  /\ rollout.at = "hash" /\ Installable /\ Installation = rollout.expected
  /\ rollout' = [rollout EXCEPT !.at = "recheck", !.hash = tree[rollout.target]]
  /\ UNCHANGED <<machine, current, tree, captured, kept, result>>

Recheck ==
  /\ rollout.at = "recheck" /\ Installable /\ Installation = rollout.expected
  /\ rollout' = [rollout EXCEPT !.at = "replace"]
  /\ UNCHANGED <<machine, current, tree, captured, kept, result>>

ReplaceLink ==
  /\ rollout.at = "replace"
  /\ current' = rollout.target /\ rollout' = [rollout EXCEPT !.at = "verify"]
  /\ UNCHANGED <<machine, tree, captured, kept, result>>

SaveResult ==
  /\ rollout.at = "verify" /\ Installable
  /\ Installation.release = rollout.hash
  /\ Installation.private = rollout.expected.private
  /\ result' = [before |-> rollout.expected, after |-> Installation]
  /\ rollout' = Resting
  /\ UNCHANGED <<machine, current, tree, captured, kept>>

\* A require() that does not hold, or a kill: the process ends and its lock with it.
RolloutEnds ==
  /\ rollout # Resting
  /\ \/ mishaps < MaxMishaps /\ mishaps' = mishaps + 1
     \/ /\ rollout.at \in {"hash", "recheck"}
        /\ ~Installable \/ Installation # rollout.expected
        /\ UNCHANGED mishaps
     \/ /\ rollout.at = "verify"
        /\ \/ ~Installable
           \/ Installation.release # rollout.hash
           \/ Installation.private # rollout.expected.private
        /\ UNCHANGED mishaps
  /\ rollout' = Resting
  /\ UNCHANGED <<host, settings, bound, journals, opened, published, operatorLock,
                 current, tree, captured, kept, result>>

\* Somebody edits a release directory that is not to be edited.
ReleaseEdited(r) ==
  /\ mishaps < MaxMishaps /\ tree[r] = 0
  /\ tree' = [tree EXCEPT ![r] = 1] /\ mishaps' = mishaps + 1
  /\ UNCHANGED <<host, settings, bound, journals, opened, published, operatorLock,
                 current, captured, kept, result, rollout>>

RolloutNext ==
  \/ CaptureReceipt \/ KeepIntent \/ HashTarget \/ Recheck \/ ReplaceLink \/ SaveResult
  \/ BeginRollback \/ RolloutEnds
  \/ \E r \in Releases : ReleaseEdited(r) \/ BeginSwitch(r)
=============================================================================
