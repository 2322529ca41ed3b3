------------------------------ MODULE RunState ------------------------------
(***************************************************************************)
(* The Run lifecycle rules of src/domain/run-state.ts: the statuses, the   *)
(* transition table and the capability predicates every service asks       *)
(* before it changes a Run.  Pure definitions, no state.                   *)
(***************************************************************************)

RunStatuses == {"DRAFT", "OPEN", "ROSTERING", "PUBLISHED",
                "IN_PROGRESS", "COMPLETED", "CANCELLED"}

\* RUN_TRANSITIONS: the edges a generic status change may take.
RunTransitions == { <<"DRAFT", "OPEN">>, <<"DRAFT", "CANCELLED">>,
                    <<"OPEN", "ROSTERING">>, <<"OPEN", "CANCELLED">>,
                    <<"ROSTERING", "PUBLISHED">>, <<"ROSTERING", "OPEN">>,
                    <<"ROSTERING", "CANCELLED">>,
                    <<"PUBLISHED", "IN_PROGRESS">>, <<"PUBLISHED", "CANCELLED">>,
                    <<"IN_PROGRESS", "COMPLETED">>, <<"IN_PROGRESS", "CANCELLED">> }

CanTransitionRun(from, to) == <<from, to>> \in RunTransitions

\* PRE_START_RUN_STATUSES; CANCELLABLE_STATUSES and REACTIVATABLE_FROM_STATUSES
\* are three lists in the source with the same members.
PreStartStatuses == {"DRAFT", "OPEN", "ROSTERING", "PUBLISHED"}
CancellableStatuses == {"DRAFT", "OPEN", "ROSTERING", "PUBLISHED"}
ReactivatableFromStatuses == {"DRAFT", "OPEN", "ROSTERING", "PUBLISHED"}
SignupWindowStatuses == {"OPEN", "ROSTERING", "PUBLISHED"}
ArchivableStatuses == {"COMPLETED", "CANCELLED"}

\* EDITABLE_RUN_STATUSES of the roster service; assertRunPreStartInTx accepts
\* exactly the same statuses inside a roster transaction.
RosterEditableStatuses == {"OPEN", "ROSTERING", "PUBLISHED"}

IsSignupWindowOpen(status, signupsOpen) ==
    signupsOpen /\ status \in SignupWindowStatuses

CanEditRunBeforeStart(status) == status \in PreStartStatuses
CanOpenRun(status) == status = "DRAFT"
CanToggleSignupWindow(status) == status \in SignupWindowStatuses
CanCancelRun(status) == status \in CancellableStatuses
CanStartRun(status) == status = "PUBLISHED"
CanCompleteRun(status) == status = "IN_PROGRESS"
CanArchiveRun(status, archived) == status \in ArchivableStatuses /\ ~archived
CanReactivateRun(status, cancelledFrom, archived) ==
    /\ status = "CANCELLED"
    /\ ~archived
    /\ cancelledFrom \in ReactivatableFromStatuses
=============================================================================
