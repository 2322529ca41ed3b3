--------------------------- MODULE MCRunLifecycle ---------------------------
(* Instances of RunLifecycle for TLC. *)
EXTENDS RunLifecycle, TLC

CONSTANTS r1, r2   \* two requests in flight at the same time

TwoRequests == {r1, r2}
RequestSymmetry == Permutations(TwoRequests)

AllOps == OpNames
\* The operations of the stale-status findings.
StatusOps == {"openRun", "cancelRun"}
ArchiveOps == {"cancelRun", "reactivateRun", "archiveRun"}
StartOps == {"saveDraft", "publishRoster", "startRun"}
=============================================================================
