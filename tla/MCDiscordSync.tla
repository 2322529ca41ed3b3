---------------------------- MODULE MCDiscordSync ----------------------------
(* Instances of DiscordSync for TLC: one manager request at a time beside the bot. *)
EXTENDS DiscordSync

CONSTANT r1

OneRequest == {r1}

\* The operations of the cancellation cycles; none of them can write a stale
\* status over a cancellation.
CycleOps == {"cancelRun", "reactivateRun", "retireRun", "archiveRun", "restoreRun"}
\* The operations that announce and end in an archived Run.
EditOps == {"cancelRun", "editRun", "lateFillHelp", "archiveRun"}
ScopeOps == {"cancelRun", "editRun", "archiveRun"}
RestoreOps == {"cancelRun", "archiveRun", "restoreRun"}
=============================================================================
