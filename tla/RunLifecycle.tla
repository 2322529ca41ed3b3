---------------------------- MODULE RunLifecycle ----------------------------
(***************************************************************************)
(* One Run row and everything that moves its status: the manager requests  *)
(* of run.service.ts and roster.service.ts, over the transactions of       *)
(* run.repository.ts, roster.repository.ts and attendance.repository.ts.   *)
(*                                                                         *)
(* A request first LOADS the Run (the service's own checks on a plain read)*)
(* and only later writes.  Writes are of two kinds:                        *)
(*   - transactions under the RunRoster row lock (lockRosterInTx) that     *)
(*     re-read the Run and check again.  PostgreSQL runs them at READ      *)
(*     COMMITTED and they do not lock the Run row before writing it, so    *)
(*     the locked re-read and the commit are two steps here and an         *)
(*     unlocked write may fall between them;                               *)
(*   - single unlocked UPDATE statements (updateFields, updateStatus,      *)
(*     archiveRun, restoreRun) that check nothing.                         *)
(* A transaction that does not write the Run row, or that locks it first   *)
(* (updatePreStartAtomic), is one step.                                    *)
(*                                                                         *)
(* The roster is abstracted to the facts the lifecycle reads.  Its         *)
(* optimistic version is abstracted to a flag of each request: `fresh`     *)
(* holds while no other write bumped the version since the request loaded. *)
(***************************************************************************)
EXTENDS Naturals, RunState

CONSTANTS Requests,    \* concurrent manager requests
          NoRequest,   \* the roster lock is free
          Ops,         \* the operations these requests perform
          MaxCancels   \* bound on cancelRevision

OpNames == {"openRun", "closeSignups", "reopenSignups", "cancelRun", "reactivateRun",
            "retireRun", "editRun", "saveDraft", "addParticipant", "publishRoster",
            "updateRoster", "startRun", "completeRun", "archiveRun", "restoreRun",
            "lateFillHelp"}

ASSUME LifecycleAssumption == /\ NoRequest \notin Requests
                              /\ Ops \subseteq OpNames
                              /\ MaxCancels \in Nat

VARIABLES run,       \* the Run row
          roster,    \* what the lifecycle needs of RunRoster and the signups
          evidence,  \* RunStartSnapshot and RunAttendance
          lock,      \* who holds the RunRoster row lock
          req        \* the requests in flight

lifecycleVars == <<run, roster, evidence, lock, req>>

NoStatus == "NONE"   \* cancelledFromStatus = null

RunRows == [status : RunStatuses,
            signupsOpen : BOOLEAN,
            cancelledFromStatus : PreStartStatuses \cup {NoStatus},
            cancelledFromSignupsOpen : BOOLEAN,   \* null reads as false
            cancelRevision : Nat,
            archivedAt : BOOLEAN,
            completedAt : BOOLEAN]

RosterRows == [publishedAt : BOOLEAN,
               runChangedSinceAck : BOOLEAN,   \* roster-relevant edit not acknowledged
               draftDiffers : BOOLEAN,         \* saved draft # published selection
               lineup : BOOLEAN,               \* some signup is SELECTED
               participation : BOOLEAN]        \* anyone ever signed up or was rostered

AttendanceStates == {"NONE", "UNMARKED", "MARKED"}   \* MARKED: no row is UNMARKED

\* What a request keeps of the rows it read.
Kept == [status : RunStatuses, signupsOpen : BOOLEAN, revision : Nat]
NothingKept == [status |-> "DRAFT", signupsOpen |-> FALSE, revision |-> 0]

ReqRows == [op : OpNames \cup {"none"},
            pc : {"idle", "loaded", "locked", "saved", "clearing"},
            kept : Kept,
            fresh : BOOLEAN]
Idle == [op |-> "none", pc |-> "idle", kept |-> NothingKept, fresh |-> TRUE]

-----------------------------------------------------------------------------
\* The rows a Run is created with: a DRAFT from the form, or an OPEN Run that
\* the community schedule creates.
CreatedRun(status) == [status |-> status, signupsOpen |-> (status = "OPEN"),
                       cancelledFromStatus |-> NoStatus,
                       cancelledFromSignupsOpen |-> FALSE, cancelRevision |-> 0,
                       archivedAt |-> FALSE, completedAt |-> FALSE]

Init == /\ run \in {CreatedRun("DRAFT"), CreatedRun("OPEN")}
        /\ \E signups \in BOOLEAN :   \* a DRAFT may be created with booster signups
               roster = [publishedAt |-> FALSE, runChangedSinceAck |-> FALSE,
                         draftDiffers |-> FALSE, lineup |-> FALSE, participation |-> signups]
        /\ evidence = [startSnapshot |-> FALSE, attendance |-> "NONE"]
        /\ lock = NoRequest
        /\ req = [p \in Requests |-> Idle]

\* hasUnpublishedRosterChanges, over the abstract roster.
HasUnpublishedRosterChanges ==
    /\ roster.publishedAt
    /\ roster.runChangedSinceAck \/ roster.draftDiffers

\* Faulty variant: Start evidence is not looked at.
FaultyNeverStarted == TRUE
\* Neither the service nor the transaction reactivates a Run that has started.
NeverStarted == /\ ~evidence.startSnapshot
                /\ evidence.attendance = "NONE"
                /\ ~run.completedAt

-----------------------------------------------------------------------------
(* Steps every request is made of. *)

At(p, op, pc) == req[p].op = op /\ req[p].pc = pc

\* The service loads the Run, checks it and keeps what its later writes use.
Load(p, op, kept) ==
    /\ op \in Ops
    /\ req[p] = Idle
    /\ req' = [req EXCEPT ![p] = [op |-> op, pc |-> "loaded", kept |-> kept, fresh |-> TRUE]]
    /\ UNCHANGED <<run, roster, evidence, lock>>

Finish(p) == req' = [req EXCEPT ![p] = Idle]

\* Faulty variant: the row lock is not taken, so transactions overlap.
FaultyLockFree == TRUE
\* lockRosterInTx: the no-op UPDATE waits for the holder of the row lock.
LockFree == lock = NoRequest

\* A transaction takes the lock and re-reads; `kept` is what it will write from.
LockAndRead(p, op, kept) ==
    /\ At(p, op, "loaded")
    /\ LockFree
    /\ lock' = p
    /\ req' = [req EXCEPT ![p].pc = "locked", ![p].kept = kept]
    /\ UNCHANGED <<run, roster, evidence>>

\* Commit of a locked transaction: the request ends and the lock is released.
Commit(p, op) == At(p, op, "locked") /\ lock' = NoRequest /\ Finish(p)

VersionedOps == {"saveDraft", "addParticipant", "publishRoster", "updateRoster"}

\* A roster version bump: every other request that loaded an older version is
\* refused when it compares versions under the lock.
Outdate(requests) ==
    [q \in Requests |-> IF requests[q].op \in VersionedOps /\ requests[q].pc = "loaded"
                        THEN [requests[q] EXCEPT !.fresh = FALSE] ELSE requests[q]]

KeepStatus == [NothingKept EXCEPT !.status = run.status]

-----------------------------------------------------------------------------
(* openRun, setSignupWindow: unlocked writes after an unlocked check. *)

LoadOpenRun(p) == CanOpenRun(run.status) /\ Load(p, "openRun", NothingKept)

OpenRun(p) ==
    /\ At(p, "openRun", "loaded")
    /\ run' = [run EXCEPT !.status = "OPEN", !.signupsOpen = TRUE]
    /\ Finish(p)
    /\ UNCHANGED <<roster, evidence, lock>>

LoadSetSignupWindow(p, op) ==
    /\ op \in {"closeSignups", "reopenSignups"}
    /\ CanToggleSignupWindow(run.status)
    /\ run.signupsOpen = (op = "closeSignups")
    /\ Load(p, op, NothingKept)

SetSignupWindow(p) ==
    /\ At(p, "closeSignups", "loaded") \/ At(p, "reopenSignups", "loaded")
    /\ run' = [run EXCEPT !.signupsOpen = (req[p].op = "reopenSignups")]
    /\ Finish(p)
    /\ UNCHANGED <<roster, evidence, lock>>

-----------------------------------------------------------------------------
(* cancelRun, reactivateRun and the community schedule's own retirement. *)

LoadCancelRun(p) == CanCancelRun(run.status) /\ Load(p, "cancelRun", NothingKept)

ReadRow == [status |-> run.status, signupsOpen |-> run.signupsOpen,
            revision |-> run.cancelRevision]

CancelReads(p) ==
    /\ CanCancelRun(run.status)
    /\ run.cancelRevision < MaxCancels
    /\ LockAndRead(p, "cancelRun", ReadRow)

\* The row a cancellation writes from the locked read.
CancelledRow(kept) == [run EXCEPT !.status = "CANCELLED", !.signupsOpen = FALSE,
                                  !.cancelledFromStatus = kept.status,
                                  !.cancelledFromSignupsOpen = kept.signupsOpen,
                                  !.cancelRevision = kept.revision + 1]

CancelCommits(p) ==
    /\ Commit(p, "cancelRun")
    /\ run' = CancelledRow(req[p].kept)
    /\ UNCHANGED <<roster, evidence>>

LoadReactivateRun(p) ==
    /\ CanReactivateRun(run.status, run.cancelledFromStatus, run.archivedAt)
    /\ NeverStarted
    /\ Load(p, "reactivateRun", [NothingKept EXCEPT !.revision = run.cancelRevision])

\* Faulty variant: any CANCELLED row will do.
FaultySameCancellation(p) == TRUE
\* expectedCancelRevision: the cancellation the manager saw is the current one.
SameCancellation(p) == req[p].kept.revision = run.cancelRevision

ReactivateReads(p) ==
    /\ CanReactivateRun(run.status, run.cancelledFromStatus, run.archivedAt)
    /\ SameCancellation(p)
    /\ NeverStarted
    /\ LockAndRead(p, "reactivateRun", req[p].kept)

\* The snapshot columns only change under the lock, so the commit may read them
\* from the row it writes.
ReactivateCommits(p) ==
    /\ At(p, "reactivateRun", "locked")
    /\ run' = [run EXCEPT !.status = run.cancelledFromStatus,
                          !.signupsOpen = run.cancelledFromStatus # "DRAFT"
                                          /\ run.cancelledFromSignupsOpen,
                          !.cancelledFromStatus = NoStatus,
                          !.cancelledFromSignupsOpen = FALSE]
    /\ lock' = NoRequest
    /\ req' = [req EXCEPT ![p].pc = "clearing"]
    /\ UNCHANGED <<roster, evidence>>

\* retireScheduleDraftInTx: an unused DRAFT or OPEN Run whose occurrence the
\* schedule dropped is cancelled and archived in one write.
LoadRetireRun(p) == Load(p, "retireRun", NothingKept)

RetireReads(p) ==
    /\ run.status \in {"DRAFT", "OPEN"}
    /\ ~run.archivedAt
    /\ ~roster.participation
    /\ run.cancelRevision < MaxCancels
    /\ LockAndRead(p, "retireRun", ReadRow)

RetireCommits(p) ==
    /\ Commit(p, "retireRun")
    /\ run' = [CancelledRow(req[p].kept) EXCEPT !.archivedAt = TRUE]
    /\ UNCHANGED <<roster, evidence>>

-----------------------------------------------------------------------------
(* updateRun: one transaction that locks the roster AND the Run row. *)

LoadUpdateRun(p) == CanEditRunBeforeStart(run.status) /\ Load(p, "editRun", KeepStatus)

\* effect and moved: the roster effect the service derived, and whether the
\* content replacement re-bound boss exceptions.
UpdatePreStart(p, effect, moved) ==
    /\ At(p, "editRun", "loaded")
    /\ LockFree
    /\ CanEditRunBeforeStart(run.status)
    /\ roster' = [roster EXCEPT !.runChangedSinceAck =
                      @ \/ (roster.publishedAt /\ effect = "MARK_CHANGED")]
    /\ req' = [ (IF moved \/ (roster.publishedAt /\ effect = "REFRESH_EMBED")
                 THEN Outdate(req) ELSE req) EXCEPT ![p] = Idle ]
    /\ UNCHANGED <<run, evidence, lock>>

RosterEffects == {"NONE", "MARK_CHANGED", "REFRESH_EMBED"}

-----------------------------------------------------------------------------
(* Roster writes: Save Roster, Add Player, Publish Roster, Update Roster. *)

LoadSaveDraft(p) ==
    run.status \in RosterEditableStatuses /\ Load(p, "saveDraft", KeepStatus)
LoadAddParticipant(p) ==
    run.status \in RosterEditableStatuses /\ Load(p, "addParticipant", KeepStatus)

\* The draft write of one transaction.  selects: the saved selection is not
\* empty.  The status move to ROSTERING comes after the transaction, from the
\* status that was loaded before it.
DraftWrite(p, op, selects) ==
    /\ At(p, op, "loaded")
    /\ LockFree
    /\ req[p].fresh
    /\ run.status \in RosterEditableStatuses
    /\ \E differs \in BOOLEAN :
           roster' = [roster EXCEPT !.draftDiffers = differs,
                                    !.participation = @ \/ selects]
    /\ req' = [Outdate(req) EXCEPT
                  ![p] = IF req[p].kept.status = "OPEN" /\ selects
                         THEN [req[p] EXCEPT !.pc = "saved", !.kept = NothingKept,
                                             !.fresh = TRUE]
                         ELSE Idle]
    /\ UNCHANGED <<run, evidence, lock>>

SaveDraft(p) == \E selects \in BOOLEAN : DraftWrite(p, "saveDraft", selects)
AddParticipant(p) == DraftWrite(p, "addParticipant", TRUE)

\* runRepository.updateStatus: unlocked and unconditional.
StartRostering(p) ==
    /\ At(p, "saveDraft", "saved") \/ At(p, "addParticipant", "saved")
    /\ run' = [run EXCEPT !.status = "ROSTERING"]
    /\ Finish(p)
    /\ UNCHANGED <<roster, evidence, lock>>

LoadPublishRoster(p) ==
    run.status \in RosterEditableStatuses /\ Load(p, "publishRoster", KeepStatus)

PublishReads(p) ==
    /\ req[p].fresh
    /\ run.status \in RosterEditableStatuses
    /\ LockAndRead(p, "publishRoster", req[p].kept)

\* publishSelectionsInTx writes the Run status only when the LOADED status was
\* OPEN or ROSTERING.
PublishCommits(p) ==
    /\ At(p, "publishRoster", "locked")
    /\ run' = IF req[p].kept.status \in {"OPEN", "ROSTERING"}
              THEN [run EXCEPT !.status = "PUBLISHED"] ELSE run
    /\ \E lineup \in BOOLEAN :
           roster' = [roster EXCEPT !.publishedAt = TRUE, !.runChangedSinceAck = FALSE,
                                    !.draftDiffers = FALSE, !.lineup = lineup,
                                    !.participation = @ \/ lineup]
    /\ lock' = NoRequest
    /\ req' = [Outdate(req) EXCEPT ![p] = Idle]
    /\ UNCHANGED evidence

LoadUpdateRoster(p) ==
    roster.publishedAt /\ run.status = "PUBLISHED" /\ Load(p, "updateRoster", NothingKept)

UpdateRoster(p) ==
    /\ At(p, "updateRoster", "loaded")
    /\ LockFree
    /\ req[p].fresh
    /\ run.status \in RosterEditableStatuses
    /\ roster.publishedAt
    /\ \E lineup \in BOOLEAN :
           roster' = [roster EXCEPT !.runChangedSinceAck = FALSE, !.draftDiffers = FALSE,
                                    !.lineup = lineup, !.participation = @ \/ lineup]
    /\ req' = [Outdate(req) EXCEPT ![p] = Idle]
    /\ UNCHANGED <<run, evidence, lock>>

-----------------------------------------------------------------------------
(* Late Fill help: an announcement, no write of the rows modelled here. *)

\* loadPingableRun
LoadLateFillHelp(p) ==
    /\ run.status \in SignupWindowStatuses
    /\ ~run.archivedAt
    /\ Load(p, "lateFillHelp", NothingKept)

\* createLateFillHelp, createCustomPing: under the roster lock, but the Run is
\* not read again.
RequestHelp(p) ==
    /\ At(p, "lateFillHelp", "loaded")
    /\ LockFree
    /\ Finish(p)
    /\ UNCHANGED <<run, roster, evidence, lock>>

-----------------------------------------------------------------------------
(* Start, attendance, Complete. *)

LoadStartRun(p) == CanStartRun(run.status) /\ roster.lineup /\ Load(p, "startRun", NothingKept)

\* Faulty variants of the locked re-check of Start.
FaultyStartIgnoresRoster == ~evidence.startSnapshot /\ evidence.attendance = "NONE" /\ roster.lineup
FaultyStartIgnoresEvidence == roster.publishedAt /\ ~HasUnpublishedRosterChanges /\ roster.lineup
\* What startRunWithAttendance checks besides the status, under the lock.
StartAllowed == /\ ~evidence.startSnapshot
                /\ roster.publishedAt
                /\ ~HasUnpublishedRosterChanges
                /\ evidence.attendance = "NONE"
                /\ roster.lineup

StartReads(p) ==
    /\ CanStartRun(run.status)
    /\ StartAllowed
    /\ LockAndRead(p, "startRun", NothingKept)

StartCommits(p) ==
    /\ Commit(p, "startRun")
    /\ run' = [run EXCEPT !.status = "IN_PROGRESS", !.signupsOpen = FALSE]
    /\ evidence' = [startSnapshot |-> TRUE, attendance |-> "UNMARKED"]
    /\ UNCHANGED roster

\* Faulty variant: attendance stays editable whatever the Run status is.
FaultyMayMarkAttendance == LockFree /\ evidence.attendance # "NONE"
\* assertRunInProgressInTx, under the roster lock.
MayMarkAttendance == LockFree /\ run.status = "IN_PROGRESS" /\ evidence.attendance # "NONE"

\* setStatusAtomic, markAllUnmarkedPresent: some rows change.
MarkAttendance ==
    /\ MayMarkAttendance
    /\ \E a \in {"UNMARKED", "MARKED"} : evidence' = [evidence EXCEPT !.attendance = a]
    /\ UNCHANGED <<run, roster, lock, req>>

\* replaceParticipantAtomic: the row that is replaced and the row that steps in
\* are both marked.  Its status check takes no lock and may be old by the time
\* the roster version is bumped, which waits for the holder of the roster row.
ReplaceParticipant ==
    /\ LockFree
    /\ evidence.attendance = "UNMARKED"
    /\ evidence' = [evidence EXCEPT !.attendance = "MARKED"]
    /\ req' = Outdate(req)
    /\ UNCHANGED <<run, roster, lock>>

LoadCompleteRun(p) == CanCompleteRun(run.status) /\ Load(p, "completeRun", NothingKept)

CompleteReads(p) ==
    /\ CanCompleteRun(run.status)
    /\ evidence.attendance = "MARKED"
    /\ LockAndRead(p, "completeRun", NothingKept)

CompleteCommits(p) ==
    /\ Commit(p, "completeRun")
    /\ run' = [run EXCEPT !.status = "COMPLETED", !.signupsOpen = FALSE, !.completedAt = TRUE]
    /\ UNCHANGED <<roster, evidence>>

-----------------------------------------------------------------------------
(* Archive and restore: unlocked writes after an unlocked check. *)

LoadArchiveRun(p) ==
    CanArchiveRun(run.status, run.archivedAt) /\ Load(p, "archiveRun", NothingKept)

ArchiveRun(p) ==
    /\ At(p, "archiveRun", "loaded")
    /\ run' = [run EXCEPT !.archivedAt = TRUE]
    /\ Finish(p)
    /\ UNCHANGED <<roster, evidence, lock>>

LoadRestoreRun(p) == run.archivedAt /\ Load(p, "restoreRun", NothingKept)

RestoreRun(p) ==
    /\ At(p, "restoreRun", "loaded")
    /\ run' = [run EXCEPT !.archivedAt = FALSE]
    /\ req' = [req EXCEPT ![p].pc = "clearing"]
    /\ UNCHANGED <<roster, evidence, lock>>

\* discordSyncService.clearArchiveArtifacts, a statement of its own that follows
\* the commit of Reactivate and of Restore.
ClearArchiveArtifacts(p) ==
    /\ req[p].pc = "clearing"
    /\ Finish(p)
    /\ UNCHANGED <<run, roster, evidence, lock>>

-----------------------------------------------------------------------------
(* Players, and requests that end early. *)

\* A signup is created; neither its check nor its write takes the roster lock.
PlayerSignsUp ==
    /\ ~roster.participation
    /\ roster' = [roster EXCEPT !.participation = TRUE]
    /\ UNCHANGED <<run, evidence, lock, req>>

\* A signup leaves: its status write is unlocked and may change what counts as
\* the published lineup at any moment.
PlayerLeaves ==
    /\ roster.participation
    /\ \E differs \in BOOLEAN, lineup \in {roster.lineup, FALSE} :
           roster' = [roster EXCEPT !.draftDiffers = differs, !.lineup = lineup]
    /\ UNCHANGED <<run, evidence, lock, req>>

\* clearDraftSelectionsForSignupIds: drops the draft slots and bumps the version.
ClearDraftSelections ==
    /\ roster.participation
    /\ LockFree
    /\ \E differs \in BOOLEAN : roster' = [roster EXCEPT !.draftDiffers = differs]
    /\ req' = Outdate(req)
    /\ UNCHANGED <<run, evidence, lock>>

\* A request is refused by a check, or its process dies: an open transaction
\* rolls back and its lock is released.
Fail(p) ==
    /\ req[p] # Idle
    /\ lock' = IF lock = p THEN NoRequest ELSE lock
    /\ Finish(p)
    /\ UNCHANGED <<run, roster, evidence>>

-----------------------------------------------------------------------------
LoadStep(p) ==
    \/ LoadOpenRun(p) \/ LoadCancelRun(p) \/ LoadReactivateRun(p) \/ LoadRetireRun(p)
    \/ \E op \in Ops : LoadSetSignupWindow(p, op)
    \/ LoadUpdateRun(p) \/ LoadSaveDraft(p) \/ LoadAddParticipant(p)
    \/ LoadPublishRoster(p) \/ LoadUpdateRoster(p) \/ LoadStartRun(p)
    \/ LoadCompleteRun(p) \/ LoadArchiveRun(p) \/ LoadRestoreRun(p)
    \/ LoadLateFillHelp(p)

ReadStep(p) ==
    \/ CancelReads(p) \/ ReactivateReads(p) \/ RetireReads(p) \/ PublishReads(p)
    \/ StartReads(p) \/ CompleteReads(p)

WriteStep(p) ==
    \/ OpenRun(p) \/ SetSignupWindow(p)
    \/ SaveDraft(p) \/ AddParticipant(p) \/ StartRostering(p) \/ PublishCommits(p)
    \/ UpdateRoster(p) \/ StartCommits(p) \/ CompleteCommits(p)
    \/ ArchiveRun(p) \/ RestoreRun(p)

\* The one write of an edit.
EditStep(p) == \E effect \in RosterEffects, moved \in BOOLEAN : UpdatePreStart(p, effect, moved)

PlayerStep == PlayerSignsUp \/ PlayerLeaves \/ ClearDraftSelections

Next == \/ \E p \in Requests : \/ LoadStep(p) \/ ReadStep(p) \/ WriteStep(p) \/ EditStep(p) \/ Fail(p)
                               \/ CancelCommits(p) \/ ReactivateCommits(p)
                               \/ RetireCommits(p) \/ ClearArchiveArtifacts(p) \/ RequestHelp(p)
        \/ MarkAttendance \/ ReplaceParticipant
        \/ PlayerStep

Spec == Init /\ [][Next]_lifecycleVars

-----------------------------------------------------------------------------
(* Properties. *)

\* Every variable keeps its type: the rows of the tables, the holder of the
\* roster lock and the requests in flight.
TypeOK == /\ run \in RunRows
          /\ roster \in RosterRows
          /\ evidence \in [startSnapshot : BOOLEAN, attendance : AttendanceStates]
          /\ lock \in Requests \cup {NoRequest}
          /\ req \in [Requests -> ReqRows]

\* A transaction between its locked re-read and its commit is the one holder
\* of the roster lock (lockRosterInTx serializes Start, Cancel, Publish...).
LockDiscipline == \A p \in Requests : req[p].pc = "locked" <=> lock = p

\* What a transaction read under the roster lock still holds when it commits,
\* although unlocked writes may have changed the Run status in between:
\* Cancel, Reactivate and the schedule's retirement still work on the current
\* cancellation cycle (the ABA protection of expectedCancelRevision), a Run
\* about to be reactivated has a snapshot and no start evidence, a Run about to
\* start is published, acknowledged and not started, and a Run about to be
\* completed was started and is fully marked.
LockedReadsHold ==
    \A p \in Requests : req[p].pc = "locked" =>
        /\ req[p].op \in {"cancelRun", "retireRun"} =>
               /\ req[p].kept.revision = run.cancelRevision
               /\ req[p].kept.status \in CancellableStatuses
        /\ req[p].op = "reactivateRun" =>
               /\ req[p].kept.revision = run.cancelRevision
               /\ run.cancelledFromStatus # NoStatus
               /\ ~evidence.startSnapshot
        /\ req[p].op = "startRun" =>
               /\ ~evidence.startSnapshot
               /\ roster.publishedAt /\ ~roster.runChangedSinceAck
        /\ req[p].op = "completeRun" =>
               evidence.startSnapshot /\ evidence.attendance = "MARKED"

\* A Run that is IN_PROGRESS was started exactly by Start (the snapshot exists)
\* and is not a completed Run that came back; attendance rows exist only with
\* the snapshot; and a completed Run stays fully marked: neither a late
\* attendance change nor a second start can touch it, even after a stale status
\* write took the Run out of COMPLETED.
EvidenceMatchesStatus ==
    /\ run.status = "IN_PROGRESS" => evidence.startSnapshot /\ ~run.completedAt
    /\ evidence.startSnapshot <=> evidence.attendance # "NONE"
    /\ run.completedAt => evidence.startSnapshot /\ evidence.attendance = "MARKED"

\* startRunWithAttendance happens at most once per Run: once the start snapshot
\* exists no step moves the Run into IN_PROGRESS again, whatever status a stale
\* write gave the Run in between.
StartsOnce ==
    [][evidence.startSnapshot =>
          /\ evidence'.startSnapshot
          /\ run'.status = "IN_PROGRESS" => run.status = "IN_PROGRESS"]_lifecycleVars

\* A Run never starts over an unacknowledged roster-relevant edit or without a
\* published roster: an edit or a save either commits before Start, which then
\* refuses, or finds the Run started and is refused itself.
StartIsAcknowledged ==
    [][evidence'.startSnapshot /\ ~evidence.startSnapshot =>
          roster.publishedAt /\ ~roster.runChangedSinceAck]_lifecycleVars

\* Reactivate never resurrects a Run that actually started: the step that
\* consumes the pre-cancel snapshot finds no start snapshot and no attendance.
StartedIsNeverReactivated ==
    [][run.cancelledFromStatus # NoStatus /\ run'.cancelledFromStatus = NoStatus =>
          ~evidence.startSnapshot /\ evidence.attendance = "NONE"]_lifecycleVars

\* Every cancellation gets a cancelRevision of its own, so its RUN_CANCELLED
\* source key cannot collide with an earlier one: two concurrent cancellations
\* never write the same revision.
CancelGetsOwnRevision ==
    [][/\ run'.cancelRevision >= run.cancelRevision
       /\ run.status # "CANCELLED" /\ run'.status = "CANCELLED" =>
              run'.cancelRevision = run.cancelRevision + 1]_lifecycleVars

\* openRun and the ROSTERING write after a save take a Run out of CANCELLED
\* without ending its cancellation cycle (see OnlyReactivateLeavesCancelled).
StaleStatusWriters == {"openRun", "saveDraft", "addParticipant"}

\* Unless a stale status write undoes a Cancel, the status and the pre-cancel
\* snapshot agree: a Run is CANCELLED exactly when it has a snapshot to be
\* reactivated from, whatever Publish, Start, Complete and Archive do.
CancelledHasSnapshot == run.status = "CANCELLED" <=> run.cancelledFromStatus # NoStatus

\* What run-state.ts says of CANCELLED: "not generically mutable", only
\* reactivateRun leaves it (and that operation consumes the snapshot).
OnlyReactivateLeavesCancelled ==
    [][run.status = "CANCELLED" /\ run'.status # "CANCELLED" =>
          run'.cancelledFromStatus = NoStatus]_lifecycleVars

\* What run-state.ts says of archiving: "only a terminal Run may be archived".
OnlyTerminalRunsAreArchived ==
    [][~run.archivedAt /\ run'.archivedAt => run'.status \in ArchivableStatuses]_lifecycleVars

\* What run-state.ts says of Start: "the freeze point"; an IN_PROGRESS Run only
\* moves on along RUN_TRANSITIONS.
StartedRunsKeepTheirStatus ==
    [][run.status = "IN_PROGRESS" =>
          run'.status \in {"IN_PROGRESS"} \cup
              {s \in RunStatuses : CanTransitionRun("IN_PROGRESS", s)}]_lifecycleVars

-----------------------------------------------------------------------------
(* What the lifecycle would promise.                                        *)

\* openRun, the move to ROSTERING and archiveRun look at nothing when they
\* write.  They come in time when no transaction is between its read and its
\* commit, and the Run still is in a status the operation is for.
StatusWritesInTime ==
    \A p \in Requests :
        /\ OpenRun(p) => LockFree /\ CanOpenRun(run.status)
        /\ StartRostering(p) => LockFree /\ run.status \in {"OPEN", "ROSTERING"}
ArchivesInTime ==
    \A p \in Requests : ArchiveRun(p) => LockFree /\ run.status \in ArchivableStatuses

TimelySpec == Init /\ [][Next /\ StatusWritesInTime /\ ArchivesInTime]_lifecycleVars

Cycle == INSTANCE RunCycle WITH
             status <- run.status,
             cancelledFrom <- run.cancelledFromStatus,
             revision <- run.cancelRevision,
             archived <- run.archivedAt,
             attendance <- evidence.attendance

\* The lifecycle follows RunCycle, as run-state.ts describes it ("Start Run is
\* the freeze point", "only a terminal Run may be archived", RUN_TRANSITIONS),
\* with the unlocked writes of openRun, of the move to ROSTERING and of
\* archiveRun in time: the roster lock is enough for everything else.
FollowsCycle == Cycle!Spec

\* Then an archived Run has ended, over any number of Restores, Reactivates and
\* retirements: no step brings a Run back that is archived, or archives one that
\* is coming back.
ArchivedRunsHaveEnded == run.archivedAt => run.status \in ArchivableStatuses
=============================================================================
