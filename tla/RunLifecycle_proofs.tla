------------------------ MODULE RunLifecycle_proofs ------------------------
(***************************************************************************)
(* TLAPS proofs about RunLifecycle, for any set of requests, any set of    *)
(* operations and any bound on cancellations: the invariants and action    *)
(* properties of the code as it is, the agreement of status and snapshot   *)
(* without the stale status writers, and the step simulation of RunCycle by *)
(* the lifecycle whose unlocked writes come in time.                       *)
(***************************************************************************)
EXTENDS RunLifecycle, TLAPS

\* The inductive invariant: each transaction's locked reads hold at its commit
\* only because the lock has one holder, and a completed Run stays marked only
\* because Start cannot commit twice.
IInv == TypeOK /\ LockDiscipline /\ LockedReadsHold /\ EvidenceMatchesStatus

\* Outdating the loaded roster versions keeps everything else of a request.
LEMMA OutdateKeepsRequests ==
    ASSUME TypeOK
    PROVE  /\ Outdate(req) \in [Requests -> ReqRows]
           /\ \A q \in Requests : /\ Outdate(req)[q].op = req[q].op
                                  /\ Outdate(req)[q].pc = req[q].pc
                                  /\ Outdate(req)[q].kept = req[q].kept
  BY DEF TypeOK, Outdate, ReqRows

\* A freshly created Run satisfies the invariant.
LEMMA InitIInv == Init => IInv
<1> SUFFICES ASSUME Init PROVE IInv
  OBVIOUS
<1>1. run \in RunRows
  <2>1. ASSUME NEW s \in {"DRAFT", "OPEN"} PROVE CreatedRun(s) \in RunRows
    <3>1. (s = "OPEN") \in BOOLEAN
      OBVIOUS
    <3> QED BY <3>1 DEF CreatedRun, RunRows, RunStatuses, PreStartStatuses, NoStatus
  <2> QED BY <2>1 DEF Init
<1>2. \A q \in Requests : req[q] = Idle
  BY DEF Init
<1>3. Idle \in ReqRows /\ Idle.pc = "idle"
  BY DEF Idle, ReqRows, NothingKept, Kept, RunStatuses
<1>4. TypeOK
  BY <1>1, <1>3 DEF Init, TypeOK, RosterRows, AttendanceStates
<1>5. LockDiscipline /\ LockedReadsHold
  BY <1>2, <1>3, LifecycleAssumption DEF Init, LockDiscipline, LockedReadsHold
<1>6. EvidenceMatchesStatus
  BY DEF Init, EvidenceMatchesStatus, CreatedRun
<1> QED BY <1>4, <1>5, <1>6 DEF IInv

\* Loading a Run changes one idle request and nothing else.
LEMMA LoadKeepsIInv ==
    ASSUME IInv, NEW p \in Requests, NEW op \in OpNames, NEW kept \in Kept, Load(p, op, kept)
    PROVE  IInv'
  BY LifecycleAssumption DEF Load, IInv, TypeOK, LockDiscipline, LockedReadsHold, EvidenceMatchesStatus, ReqRows, Idle

\* Taking the lock keeps the invariant when what was read satisfies what
\* LockedReadsHold asks of that operation.
LEMMA LockAndReadKeepsIInv ==
    ASSUME IInv, NEW p \in Requests, NEW op \in OpNames, NEW kept \in Kept,
           LockAndRead(p, op, kept),
           op \in {"cancelRun", "retireRun"} =>
               kept.revision = run.cancelRevision /\ kept.status \in CancellableStatuses,
           op = "reactivateRun" =>
               /\ kept.revision = run.cancelRevision
               /\ run.cancelledFromStatus # NoStatus
               /\ ~evidence.startSnapshot,
           op = "startRun" =>
               ~evidence.startSnapshot /\ roster.publishedAt /\ ~roster.runChangedSinceAck,
           op = "completeRun" => evidence.startSnapshot /\ evidence.attendance = "MARKED"
    PROVE  IInv'
<1>1. At(p, op, "loaded") /\ lock = NoRequest /\ lock' = p /\ UNCHANGED <<run, roster, evidence>>
  BY DEF LockAndRead, LockFree
<1>2. /\ req'[p].op = op /\ req'[p].pc = "locked" /\ req'[p].kept = kept
      /\ \A q \in Requests \ {p} : req'[q] = req[q]
      /\ req' \in [Requests -> ReqRows]
  BY DEF LockAndRead, At, IInv, TypeOK, ReqRows
<1>3. \A q \in Requests : req[q].pc # "locked"
  BY <1>1, LifecycleAssumption DEF IInv, LockDiscipline
<1>4. TypeOK'
  BY <1>1, <1>2 DEF IInv, TypeOK
<1>5. LockDiscipline'
  BY <1>1, <1>2, <1>3 DEF LockDiscipline
<1>6. LockedReadsHold'
  BY <1>1, <1>2, <1>3 DEF LockedReadsHold
<1>7. EvidenceMatchesStatus'
  BY <1>1 DEF IInv, EvidenceMatchesStatus
<1> QED BY <1>4, <1>5, <1>6, <1>7 DEF IInv

\* The row CancelledRow builds is a Run row when it is built from a locked read.
LEMMA CancelledRowIsARun ==
    ASSUME run \in RunRows, NEW kept \in Kept, kept.status \in CancellableStatuses
    PROVE  /\ CancelledRow(kept) \in RunRows
           /\ CancelledRow(kept).status = "CANCELLED"
           /\ CancelledRow(kept).cancelRevision = kept.revision + 1
           /\ CancelledRow(kept).completedAt = run.completedAt
           /\ CancelledRow(kept).cancelledFromStatus = kept.status
<1>1. kept.revision + 1 \in Nat /\ kept.signupsOpen \in BOOLEAN /\ kept.status \in PreStartStatuses
  BY DEF Kept, CancellableStatuses, PreStartStatuses
<1>2. "CANCELLED" \in RunStatuses
  BY DEF RunStatuses
<1> QED BY <1>1, <1>2 DEF CancelledRow, RunRows

\* A request that ends without touching the rows: refused, crashed, or done.
LEMMA EndingKeepsIInv ==
    ASSUME IInv, NEW p \in Requests, req' = [req EXCEPT ![p] = Idle],
           lock' = IF lock = p THEN NoRequest ELSE lock, UNCHANGED <<run, roster, evidence>>
    PROVE  IInv'
<1>1. Idle \in ReqRows /\ Idle.pc = "idle"
  BY DEF Idle, ReqRows, NothingKept, Kept, RunStatuses
<1>2. /\ req' \in [Requests -> ReqRows] /\ req'[p] = Idle
      /\ \A q \in Requests \ {p} : req'[q] = req[q]
  BY <1>1 DEF IInv, TypeOK
<1>3. TypeOK'
  BY <1>2 DEF IInv, TypeOK
<1>4. LockDiscipline'
  BY <1>1, <1>2, LifecycleAssumption DEF IInv, LockDiscipline
<1>5. LockedReadsHold'
  BY <1>1, <1>2 DEF IInv, LockedReadsHold
<1>6. EvidenceMatchesStatus'
  BY DEF IInv, EvidenceMatchesStatus
<1> QED BY <1>3, <1>4, <1>5, <1>6 DEF IInv

\* The locked re-reads of the six two-step transactions.
LEMMA ReadStepKeepsIInv ==
    ASSUME IInv, NEW p \in Requests, ReadStep(p)
    PROVE  IInv'
<1> USE DEF OpNames
<1>1. req[p].kept \in Kept
  BY DEF IInv, TypeOK, ReqRows
<1>2. ReadRow \in Kept /\ ReadRow.revision = run.cancelRevision /\ ReadRow.status = run.status
  BY DEF ReadRow, Kept, IInv, TypeOK, RunRows
<1>3. NothingKept \in Kept
  BY DEF NothingKept, Kept, RunStatuses
<1>4. CASE CancelReads(p)
  BY <1>2, <1>4, LockAndReadKeepsIInv DEF CancelReads, CanCancelRun
<1>5. CASE ReactivateReads(p)
  <2>1. /\ run.cancelledFromStatus # NoStatus /\ ~evidence.startSnapshot
        /\ req[p].kept.revision = run.cancelRevision
    BY <1>5 DEF ReactivateReads, CanReactivateRun, NeverStarted, SameCancellation,
       ReactivatableFromStatuses, NoStatus
  <2> QED BY <1>1, <1>5, <2>1, LockAndReadKeepsIInv DEF ReactivateReads
<1>6. CASE RetireReads(p)
  BY <1>2, <1>6, LockAndReadKeepsIInv DEF RetireReads, CancellableStatuses
<1>7. CASE PublishReads(p)
  BY <1>1, <1>7, LockAndReadKeepsIInv DEF PublishReads
<1>8. CASE StartReads(p)
  <2>1. ~evidence.startSnapshot /\ roster.publishedAt /\ ~roster.runChangedSinceAck
    BY <1>8 DEF StartReads, StartAllowed, HasUnpublishedRosterChanges
  <2> QED BY <1>3, <1>8, <2>1, LockAndReadKeepsIInv DEF StartReads
<1>9. CASE CompleteReads(p)
  <2>1. evidence.startSnapshot /\ evidence.attendance = "MARKED"
    BY <1>9 DEF CompleteReads, CanCompleteRun, IInv, EvidenceMatchesStatus
  <2> QED BY <1>3, <1>9, <2>1, LockAndReadKeepsIInv DEF CompleteReads
<1> QED BY <1>4, <1>5, <1>6, <1>7, <1>8, <1>9 DEF ReadStep

\* The loads of all operations.
LEMMA LoadStepKeepsIInv ==
    ASSUME IInv, NEW p \in Requests, LoadStep(p)
    PROVE  IInv'
<1>1. PICK op \in OpNames, kept \in {NothingKept, KeepStatus,
                                     [NothingKept EXCEPT !.revision = run.cancelRevision]} :
          Load(p, op, kept)
  BY DEF LoadStep, OpNames, LoadOpenRun, LoadCancelRun, LoadReactivateRun, LoadRetireRun,
     LoadSetSignupWindow, LoadUpdateRun, LoadSaveDraft, LoadAddParticipant,
     LoadPublishRoster, LoadUpdateRoster, LoadStartRun, LoadCompleteRun, LoadArchiveRun,
     LoadRestoreRun, LoadLateFillHelp
<1>2. run.status \in RunStatuses /\ run.cancelRevision \in Nat
  BY DEF IInv, TypeOK, RunRows
<1>3. NothingKept \in Kept
  BY DEF NothingKept, Kept, RunStatuses
<1>4. KeepStatus \in Kept /\ [NothingKept EXCEPT !.revision = run.cancelRevision] \in Kept
  BY <1>2, <1>3 DEF KeepStatus, Kept
<1> QED BY <1>1, <1>3, <1>4, LoadKeepsIInv

\* The idle request is a request record.
LEMMA IdleIsARequest == Idle \in ReqRows /\ Idle.pc = "idle"
  BY DEF Idle, ReqRows, NothingKept, Kept, RunStatuses

\* A single unlocked UPDATE of the Run row keeps the invariant as long as it
\* leaves the cancellation columns and completedAt alone and does not invent a
\* start: this is why the stale status writes, which break RUN_TRANSITIONS,
\* cannot break what the locked transactions rely on.
LEMMA UnlockedWriteKeepsIInv ==
    ASSUME IInv, NEW p \in Requests, NEW r \in ReqRows,
           req[p].pc # "locked", r.pc # "locked", req' = [req EXCEPT ![p] = r],
           run' \in RunRows,
           run'.cancelRevision = run.cancelRevision,
           run'.cancelledFromStatus = run.cancelledFromStatus,
           run'.completedAt = run.completedAt,
           run'.status = "IN_PROGRESS" => run.status = "IN_PROGRESS",
           UNCHANGED <<roster, evidence, lock>>
    PROVE  IInv'
<1>1. /\ req' \in [Requests -> ReqRows] /\ req'[p] = r
      /\ \A q \in Requests \ {p} : req'[q] = req[q]
  BY DEF IInv, TypeOK
<1>2. TypeOK'
  BY <1>1 DEF IInv, TypeOK
<1>3. LockDiscipline'
  BY <1>1 DEF IInv, LockDiscipline
<1>4. LockedReadsHold'
  BY <1>1 DEF IInv, LockedReadsHold
<1>5. EvidenceMatchesStatus'
  BY DEF IInv, EvidenceMatchesStatus
<1> QED BY <1>2, <1>3, <1>4, <1>5 DEF IInv

\* A one-step roster transaction runs while nobody else holds the lock.
LEMMA RosterWriteKeepsIInv ==
    ASSUME IInv, LockFree, roster' \in RosterRows, req' \in [Requests -> ReqRows],
           \A q \in Requests : req'[q].pc # "locked",
           UNCHANGED <<run, evidence, lock>>
    PROVE  IInv'
<1>1. TypeOK'
  BY DEF IInv, TypeOK
<1>2. LockDiscipline' /\ LockedReadsHold'
  BY LifecycleAssumption DEF LockFree, LockDiscipline, LockedReadsHold
<1>3. EvidenceMatchesStatus'
  BY DEF IInv, EvidenceMatchesStatus
<1> QED BY <1>1, <1>2, <1>3 DEF IInv

\* The commit of a locked transaction leaves nobody in the locked phase.
LEMMA CommitKeepsIInv ==
    ASSUME IInv, NEW p \in Requests, req[p].pc = "locked", lock' = NoRequest,
           req' \in [Requests -> ReqRows], req'[p].pc # "locked",
           \A q \in Requests \ {p} : req'[q].pc = req[q].pc,
           run' \in RunRows, roster' \in RosterRows,
           evidence' \in [startSnapshot : BOOLEAN, attendance : AttendanceStates],
           EvidenceMatchesStatus'
    PROVE  IInv'
<1>1. \A q \in Requests : req'[q].pc # "locked"
  BY DEF IInv, LockDiscipline
<1>2. TypeOK'
  BY DEF TypeOK
<1>3. LockDiscipline' /\ LockedReadsHold'
  BY <1>1, LifecycleAssumption DEF LockDiscipline, LockedReadsHold
<1> QED BY <1>2, <1>3 DEF IInv

\* The writes a request makes, one case per operation.
LEMMA WriteStepKeepsIInv ==
    ASSUME IInv, NEW p \in Requests, WriteStep(p) \/ EditStep(p)
    PROVE  IInv'
<1> USE IdleIsARequest
<1>1. /\ run \in RunRows /\ roster \in RosterRows /\ req \in [Requests -> ReqRows]
      /\ evidence \in [startSnapshot : BOOLEAN, attendance : AttendanceStates]
      /\ EvidenceMatchesStatus
  BY DEF IInv, TypeOK
<1>2. /\ Outdate(req) \in [Requests -> ReqRows]
      /\ \A q \in Requests : Outdate(req)[q].pc = req[q].pc
  BY OutdateKeepsRequests DEF IInv
<1>3. LockFree => \A q \in Requests : req[q].pc # "locked"
  BY LifecycleAssumption DEF LockFree, IInv, LockDiscipline
<1>4. CASE OpenRun(p)
  <2>1. run' \in RunRows /\ run'.status = "OPEN" /\ run'.cancelRevision = run.cancelRevision
        /\ run'.cancelledFromStatus = run.cancelledFromStatus /\ run'.completedAt = run.completedAt
    BY <1>1, <1>4 DEF OpenRun, RunRows, RunStatuses
  <2> QED BY <1>4, <2>1, UnlockedWriteKeepsIInv DEF OpenRun, At, Finish
<1>5. CASE SetSignupWindow(p)
  <2>1. (req[p].op = "reopenSignups") \in BOOLEAN
    OBVIOUS
  <2>2. run' \in RunRows /\ run'.status = run.status /\ run'.cancelRevision = run.cancelRevision
        /\ run'.cancelledFromStatus = run.cancelledFromStatus /\ run'.completedAt = run.completedAt
    BY <1>1, <1>5, <2>1 DEF SetSignupWindow, RunRows
  <2> QED BY <1>5, <2>2, UnlockedWriteKeepsIInv DEF SetSignupWindow, At, Finish
<1>6. ASSUME NEW effect \in RosterEffects, NEW moved \in BOOLEAN, UpdatePreStart(p, effect, moved)
      PROVE  IInv'
  <2>1. roster' \in RosterRows
    BY <1>1, <1>6 DEF UpdatePreStart, RosterRows
  <2>2. req' \in [Requests -> ReqRows] /\ \A q \in Requests : req'[q].pc # "locked"
    BY <1>1, <1>2, <1>3, <1>6 DEF UpdatePreStart
  <2> QED BY <1>6, <2>1, <2>2, RosterWriteKeepsIInv DEF UpdatePreStart
<1>7. ASSUME NEW op \in {"saveDraft", "addParticipant"}, NEW selects \in BOOLEAN,
             DraftWrite(p, op, selects)
      PROVE  IInv'
  <2>1. roster' \in RosterRows
    BY <1>1, <1>7 DEF DraftWrite, RosterRows
  <2>2. [req[p] EXCEPT !.pc = "saved", !.kept = NothingKept, !.fresh = TRUE] \in ReqRows
    BY <1>1 DEF ReqRows, NothingKept, Kept, RunStatuses
  <2>3. req' \in [Requests -> ReqRows] /\ \A q \in Requests : req'[q].pc # "locked"
    BY <1>1, <1>2, <1>3, <1>7, <2>2 DEF DraftWrite, ReqRows
  <2> QED BY <1>7, <2>1, <2>3, RosterWriteKeepsIInv DEF DraftWrite
<1>8. CASE StartRostering(p)
  <2>1. run' \in RunRows /\ run'.status = "ROSTERING" /\ run'.cancelRevision = run.cancelRevision
        /\ run'.cancelledFromStatus = run.cancelledFromStatus /\ run'.completedAt = run.completedAt
    BY <1>1, <1>8 DEF StartRostering, RunRows, RunStatuses
  <2> QED BY <1>8, <2>1, UnlockedWriteKeepsIInv DEF StartRostering, At, Finish
<1>9. CASE PublishCommits(p)
  <2>1. run' \in RunRows /\ run'.completedAt = run.completedAt
        /\ (run'.status = "IN_PROGRESS" => run.status = "IN_PROGRESS")
    BY <1>1, <1>9 DEF PublishCommits, RunRows, RunStatuses
  <2>2. roster' \in RosterRows
    BY <1>1, <1>9 DEF PublishCommits, RosterRows
  <2>3. req' \in [Requests -> ReqRows] /\ req'[p] = Idle
        /\ \A q \in Requests \ {p} : req'[q].pc = req[q].pc
    BY <1>2, <1>9 DEF PublishCommits
  <2>4. EvidenceMatchesStatus'
    BY <1>1, <1>9, <2>1 DEF PublishCommits, EvidenceMatchesStatus
  <2> QED BY <1>1, <1>9, <2>1, <2>2, <2>3, <2>4, CommitKeepsIInv DEF PublishCommits, At
<1>10. CASE UpdateRoster(p)
  <2>1. roster' \in RosterRows
    BY <1>1, <1>10 DEF UpdateRoster, RosterRows
  <2>2. req' \in [Requests -> ReqRows] /\ \A q \in Requests : req'[q].pc # "locked"
    BY <1>2, <1>3, <1>10 DEF UpdateRoster
  <2> QED BY <1>10, <2>1, <2>2, RosterWriteKeepsIInv DEF UpdateRoster
<1>11. CASE StartCommits(p)
  <2>1. run' \in RunRows /\ run'.completedAt = run.completedAt
    BY <1>1, <1>11 DEF StartCommits, RunRows, RunStatuses
  <2>2. ~evidence.startSnapshot
    BY <1>11 DEF StartCommits, Commit, At, IInv, LockedReadsHold
  <2>3. evidence' \in [startSnapshot : BOOLEAN, attendance : AttendanceStates]
        /\ evidence'.startSnapshot /\ evidence'.attendance = "UNMARKED"
    BY <1>11 DEF StartCommits, AttendanceStates
  <2>4. EvidenceMatchesStatus'
    BY <1>1, <2>1, <2>2, <2>3 DEF EvidenceMatchesStatus
  <2>5. req' \in [Requests -> ReqRows] /\ req'[p] = Idle
        /\ \A q \in Requests \ {p} : req'[q].pc = req[q].pc
    BY <1>1, <1>11 DEF StartCommits, Commit, Finish
  <2> QED BY <1>1, <1>11, <2>1, <2>3, <2>4, <2>5, CommitKeepsIInv DEF StartCommits, Commit, At
<1>12. CASE CompleteCommits(p)
  <2>1. run' \in RunRows /\ run'.status = "COMPLETED"
    BY <1>1, <1>12 DEF CompleteCommits, RunRows, RunStatuses
  <2>2. evidence.startSnapshot /\ evidence.attendance = "MARKED"
    BY <1>12 DEF CompleteCommits, Commit, At, IInv, LockedReadsHold
  <2>3. EvidenceMatchesStatus'
    BY <1>12, <2>1, <2>2 DEF CompleteCommits, EvidenceMatchesStatus
  <2>4. req' \in [Requests -> ReqRows] /\ req'[p] = Idle
        /\ \A q \in Requests \ {p} : req'[q].pc = req[q].pc
    BY <1>1, <1>12 DEF CompleteCommits, Commit, Finish
  <2> QED BY <1>1, <1>12, <2>1, <2>3, <2>4, CommitKeepsIInv DEF CompleteCommits, Commit, At
<1>13. CASE ArchiveRun(p)
  <2>1. run' \in RunRows /\ run'.status = run.status /\ run'.cancelRevision = run.cancelRevision
        /\ run'.cancelledFromStatus = run.cancelledFromStatus /\ run'.completedAt = run.completedAt
    BY <1>1, <1>13 DEF ArchiveRun, RunRows
  <2> QED BY <1>13, <2>1, UnlockedWriteKeepsIInv DEF ArchiveRun, At, Finish
<1>14. CASE RestoreRun(p)
  <2>1. run' \in RunRows /\ run'.status = run.status /\ run'.cancelRevision = run.cancelRevision
        /\ run'.cancelledFromStatus = run.cancelledFromStatus /\ run'.completedAt = run.completedAt
    BY <1>1, <1>14 DEF RestoreRun, RunRows
  <2> DEFINE r == [req[p] EXCEPT !.pc = "clearing"]
  <2>2. r \in ReqRows /\ r.pc = "clearing" /\ req[p].pc = "loaded"
    BY <1>1, <1>14 DEF ReqRows, RestoreRun, At
  <2>3. req' = [req EXCEPT ![p] = r]
    BY <1>14 DEF RestoreRun
  <2>4. UNCHANGED <<roster, evidence, lock>>
    BY <1>14 DEF RestoreRun
  <2> HIDE DEF r
  <2> QED BY <2>1, <2>2, <2>3, <2>4, UnlockedWriteKeepsIInv
<1> QED BY <1>4, <1>5, <1>6, <1>7, <1>8, <1>9, <1>10, <1>11, <1>12, <1>13, <1>14
        DEF WriteStep, EditStep, SaveDraft, AddParticipant

\* The commits that change the cancellation cycle.
LEMMA CycleCommitKeepsIInv ==
    ASSUME IInv, NEW p \in Requests, CancelCommits(p) \/ ReactivateCommits(p) \/ RetireCommits(p)
    PROVE  IInv'
<1> USE IdleIsARequest
<1>1. /\ run \in RunRows /\ roster \in RosterRows /\ req \in [Requests -> ReqRows]
      /\ evidence \in [startSnapshot : BOOLEAN, attendance : AttendanceStates]
      /\ EvidenceMatchesStatus /\ req[p].kept \in Kept
  BY DEF IInv, TypeOK, ReqRows
<1>2. CASE CancelCommits(p)
  <2>1. req[p].kept.status \in CancellableStatuses
    BY <1>2 DEF CancelCommits, Commit, At, IInv, LockedReadsHold
  <2>2. run' \in RunRows /\ run'.status = "CANCELLED" /\ run'.completedAt = run.completedAt
    BY <1>1, <1>2, <2>1, CancelledRowIsARun DEF CancelCommits
  <2>3. EvidenceMatchesStatus'
    BY <1>1, <1>2, <2>2 DEF CancelCommits, EvidenceMatchesStatus
  <2>4. req' \in [Requests -> ReqRows] /\ req'[p] = Idle
        /\ \A q \in Requests \ {p} : req'[q].pc = req[q].pc
    BY <1>1, <1>2 DEF CancelCommits, Commit, Finish
  <2> QED BY <1>1, <1>2, <2>2, <2>3, <2>4, CommitKeepsIInv DEF CancelCommits, Commit, At
<1>3. CASE ReactivateCommits(p)
  <2>1. run.cancelledFromStatus \in PreStartStatuses
    BY <1>1, <1>3 DEF ReactivateCommits, At, IInv, LockedReadsHold, RunRows
  <2>2. (run.cancelledFromStatus # "DRAFT" /\ run.cancelledFromSignupsOpen) \in BOOLEAN
    OBVIOUS
  <2>3. run' \in RunRows /\ run'.status \in PreStartStatuses /\ run'.completedAt = run.completedAt
    BY <1>1, <1>3, <2>1, <2>2 DEF ReactivateCommits, RunRows, RunStatuses, PreStartStatuses, NoStatus
  <2>4. EvidenceMatchesStatus'
    BY <1>1, <1>3, <2>3 DEF ReactivateCommits, EvidenceMatchesStatus, PreStartStatuses
  <2>5. req' \in [Requests -> ReqRows] /\ req'[p].pc = "clearing"
        /\ \A q \in Requests \ {p} : req'[q].pc = req[q].pc
    BY <1>1, <1>3 DEF ReactivateCommits, ReqRows
  <2> QED BY <1>1, <1>3, <2>3, <2>4, <2>5, CommitKeepsIInv DEF ReactivateCommits, At
<1>4. CASE RetireCommits(p)
  <2>1. req[p].kept.status \in CancellableStatuses
    BY <1>4 DEF RetireCommits, Commit, At, IInv, LockedReadsHold
  <2> DEFINE row == CancelledRow(req[p].kept)
  <2>2. row \in RunRows /\ row.status = "CANCELLED" /\ row.completedAt = run.completedAt
    BY <1>1, <2>1, CancelledRowIsARun
  <2>3. run' = [row EXCEPT !.archivedAt = TRUE]
    BY <1>4 DEF RetireCommits
  <2> HIDE DEF row
  <2>4. run' \in RunRows /\ run'.status = "CANCELLED" /\ run'.completedAt = run.completedAt
    BY <2>2, <2>3 DEF RunRows
  <2>5. EvidenceMatchesStatus'
    BY <1>1, <1>4, <2>4 DEF RetireCommits, EvidenceMatchesStatus
  <2>6. req' \in [Requests -> ReqRows] /\ req'[p] = Idle
        /\ \A q \in Requests \ {p} : req'[q].pc = req[q].pc
    BY <1>1, <1>4 DEF RetireCommits, Commit, Finish
  <2> QED BY <1>1, <1>4, <2>4, <2>5, <2>6, CommitKeepsIInv DEF RetireCommits, Commit, At
<1> QED BY <1>2, <1>3, <1>4

\* What players and attendance changes do.
LEMMA OutsideStepKeepsIInv ==
    ASSUME IInv, PlayerStep \/ MarkAttendance \/ ReplaceParticipant
    PROVE  IInv'
<1>1. TypeOK /\ roster \in RosterRows
  BY DEF IInv, TypeOK
<1>2. CASE PlayerSignsUp \/ PlayerLeaves
  <2>1. /\ roster' \in RosterRows /\ roster'.publishedAt = roster.publishedAt
        /\ roster'.runChangedSinceAck = roster.runChangedSinceAck
        /\ UNCHANGED <<run, evidence, lock, req>>
    BY <1>1, <1>2 DEF PlayerSignsUp, PlayerLeaves, RosterRows
  <2> QED BY <2>1 DEF IInv, TypeOK, LockDiscipline, LockedReadsHold, EvidenceMatchesStatus
<1>3. CASE ClearDraftSelections
  <2>1. roster' \in RosterRows
    BY <1>1, <1>3 DEF ClearDraftSelections, RosterRows
  <2>2. req' \in [Requests -> ReqRows] /\ \A q \in Requests : req'[q].pc # "locked"
    BY <1>1, <1>3, OutdateKeepsRequests, LifecycleAssumption
       DEF ClearDraftSelections, LockFree, IInv, LockDiscipline
  <2> QED BY <1>3, <2>1, <2>2, RosterWriteKeepsIInv DEF ClearDraftSelections
<1>4. CASE MarkAttendance
  <2>1. lock = NoRequest /\ run.status = "IN_PROGRESS" /\ evidence.attendance # "NONE"
    BY <1>4 DEF MarkAttendance, MayMarkAttendance, LockFree
  <2>2. /\ evidence' \in [startSnapshot : BOOLEAN, attendance : AttendanceStates]
        /\ evidence'.startSnapshot = evidence.startSnapshot /\ evidence'.attendance # "NONE"
    BY <1>1, <1>4 DEF MarkAttendance, TypeOK, AttendanceStates
  <2>3. UNCHANGED <<run, roster, lock, req>>
    BY <1>4 DEF MarkAttendance
  <2>4. \A q \in Requests : req[q].pc # "locked"
    BY <2>1, LifecycleAssumption DEF IInv, LockDiscipline
  <2> QED BY <2>1, <2>2, <2>3, <2>4
        DEF IInv, TypeOK, LockDiscipline, LockedReadsHold, EvidenceMatchesStatus
<1>5. CASE ReplaceParticipant
  <2>1. /\ evidence' \in [startSnapshot : BOOLEAN, attendance : AttendanceStates]
        /\ evidence'.startSnapshot = evidence.startSnapshot
        /\ evidence.attendance = "UNMARKED" /\ evidence'.attendance = "MARKED"
    BY <1>1, <1>5 DEF ReplaceParticipant, TypeOK, AttendanceStates
  <2>2. /\ req' \in [Requests -> ReqRows] /\ \A q \in Requests : req'[q].pc # "locked"
        /\ lock = NoRequest /\ UNCHANGED <<run, roster, lock>>
    BY <1>1, <1>5, OutdateKeepsRequests, LifecycleAssumption
       DEF ReplaceParticipant, LockFree, IInv, LockDiscipline
  <2> QED BY <2>1, <2>2, LifecycleAssumption
        DEF IInv, TypeOK, LockDiscipline, LockedReadsHold, EvidenceMatchesStatus
<1> QED BY <1>2, <1>3, <1>4, <1>5 DEF PlayerStep

\* IInv is inductive.
LEMMA NextKeepsIInv == IInv /\ [Next]_lifecycleVars => IInv'
<1> SUFFICES ASSUME IInv, [Next]_lifecycleVars PROVE IInv'
  OBVIOUS
<1>1. ASSUME NEW p \in Requests, LoadStep(p) PROVE IInv'
  BY <1>1, LoadStepKeepsIInv
<1>2. ASSUME NEW p \in Requests, ReadStep(p) PROVE IInv'
  BY <1>2, ReadStepKeepsIInv
<1>3. ASSUME NEW p \in Requests, WriteStep(p) \/ EditStep(p) PROVE IInv'
  BY <1>3, WriteStepKeepsIInv
<1>4. ASSUME NEW p \in Requests, CancelCommits(p) \/ ReactivateCommits(p) \/ RetireCommits(p)
      PROVE  IInv'
  BY <1>4, CycleCommitKeepsIInv
<1>5. ASSUME NEW p \in Requests, Fail(p) PROVE IInv'
  BY <1>5, EndingKeepsIInv DEF Fail, Finish
<1>6. ASSUME NEW p \in Requests, ClearArchiveArtifacts(p) \/ RequestHelp(p) PROVE IInv'
  <2>1. lock # p
    BY <1>6, LifecycleAssumption DEF ClearArchiveArtifacts, RequestHelp, At, IInv, LockDiscipline
  <2> QED BY <1>6, <2>1, EndingKeepsIInv DEF ClearArchiveArtifacts, RequestHelp, Finish
<1>7. CASE MarkAttendance \/ ReplaceParticipant \/ PlayerStep
  BY <1>7, OutsideStepKeepsIInv
<1>8. CASE UNCHANGED lifecycleVars
  BY <1>8 DEF lifecycleVars, IInv, TypeOK, LockDiscipline, LockedReadsHold, EvidenceMatchesStatus
<1> QED BY <1>1, <1>2, <1>3, <1>4, <1>5, <1>6, <1>7, <1>8 DEF Next

\* IInv holds in every reachable state.
THEOREM IInvAlways == Spec => []IInv
  BY InitIInv, NextKeepsIInv, PTL DEF Spec

\* Every variable keeps its type, for any number of concurrent requests.
THEOREM TypeCorrect == Spec => []TypeOK
<1>1. IInv => TypeOK
  BY DEF IInv
<1> QED BY <1>1, IInvAlways, PTL

\* The roster lock has one holder, the transaction between its locked re-read
\* and its commit.
THEOREM OneLockHolder == Spec => []LockDiscipline
<1>1. IInv => LockDiscipline
  BY DEF IInv
<1> QED BY <1>1, IInvAlways, PTL

\* What a transaction read under the roster lock still holds at its commit.
THEOREM LockedReadsAlwaysHold == Spec => []LockedReadsHold
<1>1. IInv => LockedReadsHold
  BY DEF IInv
<1> QED BY <1>1, IInvAlways, PTL

\* Start evidence agrees with the Run status, stale status writes or not.
THEOREM EvidenceAlwaysMatches == Spec => []EvidenceMatchesStatus
<1>1. IInv => EvidenceMatchesStatus
  BY DEF IInv
<1> QED BY <1>1, IInvAlways, PTL

-----------------------------------------------------------------------------
(* Action properties, from the same invariant. *)

\* Loads and locked re-reads change no row.
LEMMA LoadsAndReadsChangeNoRow ==
    ASSUME NEW p \in Requests, LoadStep(p) \/ ReadStep(p)
    PROVE  UNCHANGED <<run, roster, evidence>>
<1>1. CASE LoadStep(p)
  BY <1>1 DEF LoadStep, Load, LoadOpenRun, LoadCancelRun, LoadReactivateRun, LoadRetireRun,
     LoadSetSignupWindow, LoadUpdateRun, LoadSaveDraft, LoadAddParticipant,
     LoadPublishRoster, LoadUpdateRoster, LoadStartRun, LoadCompleteRun, LoadArchiveRun,
     LoadRestoreRun, LoadLateFillHelp
<1>2. CASE ReadStep(p)
  BY <1>2 DEF ReadStep, LockAndRead, CancelReads, ReactivateReads, RetireReads, PublishReads,
     StartReads, CompleteReads
<1> QED BY <1>1, <1>2

\* Which steps write the Run row, and what they leave alone: only Start moves a
\* Run into IN_PROGRESS or creates its evidence, and only the three cycle
\* commits touch the cancellation columns or enter CANCELLED.
LEMMA WhoWritesTheRun ==
    ASSUME IInv, [Next]_lifecycleVars
    PROVE  \/ \E p \in Requests : StartCommits(p)
           \/ \E p \in Requests : CancelCommits(p) \/ RetireCommits(p)
           \/ \E p \in Requests : ReactivateCommits(p)
           \/ /\ evidence'.startSnapshot = evidence.startSnapshot
              /\ run'.status = "IN_PROGRESS" => run.status = "IN_PROGRESS"
              /\ run'.status = "CANCELLED" => run.status = "CANCELLED"
              /\ run'.cancelRevision = run.cancelRevision
              /\ run'.cancelledFromStatus = run.cancelledFromStatus
<1> DEFINE Quiet == /\ evidence'.startSnapshot = evidence.startSnapshot
                    /\ run'.status = "IN_PROGRESS" => run.status = "IN_PROGRESS"
                    /\ run'.status = "CANCELLED" => run.status = "CANCELLED"
                    /\ run'.cancelRevision = run.cancelRevision
                    /\ run'.cancelledFromStatus = run.cancelledFromStatus
<1>1. /\ run \in RunRows
      /\ evidence \in [startSnapshot : BOOLEAN, attendance : AttendanceStates]
  BY DEF IInv, TypeOK
<1>2. ASSUME NEW p \in Requests, LoadStep(p) \/ ReadStep(p) PROVE Quiet
  BY <1>2, LoadsAndReadsChangeNoRow
<1>3. ASSUME NEW p \in Requests, WriteStep(p) \/ EditStep(p), ~StartCommits(p) PROVE Quiet
  BY <1>1, <1>3 DEF WriteStep, EditStep, OpenRun, SetSignupWindow, UpdatePreStart, SaveDraft, AddParticipant,
     DraftWrite, StartRostering, PublishCommits, UpdateRoster, CompleteCommits, ArchiveRun,
     RestoreRun, RunRows
<1>4. ASSUME NEW p \in Requests, Fail(p) \/ ClearArchiveArtifacts(p) \/ RequestHelp(p)
      PROVE  Quiet
  BY <1>4 DEF Fail, ClearArchiveArtifacts, RequestHelp
<1>5. CASE MarkAttendance \/ ReplaceParticipant \/ PlayerStep
  BY <1>1, <1>5 DEF MarkAttendance, ReplaceParticipant, PlayerStep, PlayerSignsUp, PlayerLeaves, ClearDraftSelections
<1>6. CASE UNCHANGED lifecycleVars
  BY <1>6 DEF lifecycleVars
<1> QED BY <1>2, <1>3, <1>4, <1>5, <1>6 DEF Next

\* A Start commit is the first: no snapshot yet, and the roster is published
\* and acknowledged.
LEMMA StartCommitIsFirst ==
    ASSUME IInv, NEW p \in Requests, StartCommits(p)
    PROVE  /\ ~evidence.startSnapshot /\ roster.publishedAt /\ ~roster.runChangedSinceAck
           /\ run'.cancelRevision = run.cancelRevision /\ run'.status = "IN_PROGRESS"
           /\ run'.cancelledFromStatus = run.cancelledFromStatus
<1>1. run \in RunRows
  BY DEF IInv, TypeOK
<1> QED BY <1>1 DEF StartCommits, Commit, At, IInv, LockedReadsHold, RunRows

\* Cancel and Retire write the next revision of the cycle they read.
LEMMA CancelTakesNextRevision ==
    ASSUME IInv, NEW p \in Requests, CancelCommits(p) \/ RetireCommits(p)
    PROVE  /\ run'.cancelRevision = run.cancelRevision + 1 /\ run'.status = "CANCELLED"
           /\ run'.cancelledFromStatus # NoStatus /\ UNCHANGED evidence
<1>1. /\ run \in RunRows /\ req[p].kept \in Kept
      /\ req[p].kept.status \in CancellableStatuses
      /\ req[p].kept.revision = run.cancelRevision
  BY DEF IInv, TypeOK, ReqRows, LockedReadsHold, CancelCommits, RetireCommits, Commit, At
<1> DEFINE row == CancelledRow(req[p].kept)
<1>2. /\ row \in RunRows /\ row.status = "CANCELLED"
      /\ row.cancelRevision = run.cancelRevision + 1 /\ row.cancelledFromStatus # NoStatus
  BY <1>1, CancelledRowIsARun DEF CancellableStatuses, NoStatus
<1>3. run' = row \/ run' = [row EXCEPT !.archivedAt = TRUE]
  BY DEF CancelCommits, RetireCommits
<1>4. UNCHANGED evidence
  BY DEF CancelCommits, RetireCommits
<1> HIDE DEF row
<1> QED BY <1>2, <1>3, <1>4 DEF RunRows

\* Reactivate restores a pre-start status and finds no start evidence.
LEMMA ReactivateFindsNoStart ==
    ASSUME IInv, NEW p \in Requests, ReactivateCommits(p)
    PROVE  /\ ~evidence.startSnapshot /\ evidence.attendance = "NONE" /\ UNCHANGED evidence
           /\ run'.status \in PreStartStatuses /\ run'.cancelRevision = run.cancelRevision
<1>1. run \in RunRows /\ run.cancelledFromStatus # NoStatus /\ ~evidence.startSnapshot
  BY DEF IInv, TypeOK, LockedReadsHold, ReactivateCommits, At
<1>2. evidence.attendance = "NONE"
  BY <1>1 DEF IInv, EvidenceMatchesStatus
<1> QED BY <1>1, <1>2 DEF ReactivateCommits, RunRows

\* A Run starts at most once.
THEOREM RunStartsOnce == Spec => StartsOnce
<1>1. IInv /\ [Next]_lifecycleVars =>
        [evidence.startSnapshot =>
          /\ evidence'.startSnapshot
          /\ run'.status = "IN_PROGRESS" => run.status = "IN_PROGRESS"]_lifecycleVars
  <2> SUFFICES ASSUME IInv, [Next]_lifecycleVars, evidence.startSnapshot
               PROVE  /\ evidence'.startSnapshot
                      /\ run'.status = "IN_PROGRESS" => run.status = "IN_PROGRESS"
    OBVIOUS
  <2> QED BY WhoWritesTheRun, StartCommitIsFirst, CancelTakesNextRevision, ReactivateFindsNoStart
          DEF PreStartStatuses
<1> QED BY <1>1, IInvAlways, PTL DEF Spec, StartsOnce

\* A Run never starts over an unacknowledged edit or an unpublished roster.
THEOREM StartNeedsAcknowledgedRoster == Spec => StartIsAcknowledged
<1>1. IInv /\ [Next]_lifecycleVars =>
        [evidence'.startSnapshot /\ ~evidence.startSnapshot =>
          roster.publishedAt /\ ~roster.runChangedSinceAck]_lifecycleVars
  BY WhoWritesTheRun, StartCommitIsFirst, CancelTakesNextRevision, ReactivateFindsNoStart
<1> QED BY <1>1, IInvAlways, PTL DEF Spec, StartIsAcknowledged

\* A Run that has started is never reactivated.
THEOREM NoReactivateAfterStart == Spec => StartedIsNeverReactivated
<1>1. IInv /\ [Next]_lifecycleVars =>
        [run.cancelledFromStatus # NoStatus /\ run'.cancelledFromStatus = NoStatus =>
          ~evidence.startSnapshot /\ evidence.attendance = "NONE"]_lifecycleVars
  BY WhoWritesTheRun, StartCommitIsFirst, CancelTakesNextRevision, ReactivateFindsNoStart
<1> QED BY <1>1, IInvAlways, PTL DEF Spec, StartedIsNeverReactivated

\* Every cancellation writes a cancelRevision no earlier one wrote.
THEOREM EveryCancelHasItsRevision == Spec => CancelGetsOwnRevision
<1>1. IInv /\ [Next]_lifecycleVars =>
        [/\ run'.cancelRevision >= run.cancelRevision
         /\ run.status # "CANCELLED" /\ run'.status = "CANCELLED" =>
                run'.cancelRevision = run.cancelRevision + 1]_lifecycleVars
  <2>1. IInv => run.cancelRevision \in Nat
    BY DEF IInv, TypeOK, RunRows
  <2> QED BY <2>1, WhoWritesTheRun, StartCommitIsFirst, CancelTakesNextRevision,
             ReactivateFindsNoStart DEF PreStartStatuses
<1> QED BY <1>1, IInvAlways, PTL DEF Spec, CancelGetsOwnRevision

-----------------------------------------------------------------------------
(* Without the stale status writers the status follows the cycle. *)

\* A request performs one of Ops; a Run is CANCELLED exactly when it has its
\* snapshot; and no transaction but Reactivate works on a CANCELLED Run.
CycleInv ==
    /\ \A p \in Requests : req[p].op \in Ops \cup {"none"}
    /\ run.status = "CANCELLED" <=> run.cancelledFromStatus # NoStatus
    /\ \A p \in Requests : req[p].pc = "locked" /\ req[p].op # "reactivateRun" =>
           run.status # "CANCELLED"

\* A step keeps CycleInv when nobody takes the lock, the requests stay requests
\* for Ops, and the status moves within one side of the cycle.
LEMMA CycleKept ==
    ASSUME CycleInv,
           \A q \in Requests : /\ req'[q].op \in Ops \cup {"none"}
                               /\ req'[q].pc = "locked" =>
                                      req[q].pc = "locked" /\ req'[q].op = req[q].op,
           run'.cancelledFromStatus = run.cancelledFromStatus,
           run'.status = "CANCELLED" <=> run.status = "CANCELLED"
    PROVE  CycleInv'
  BY DEF CycleInv

\* A commit is the only locked transaction, so afterwards none is left.
LEMMA CycleAfterCommit ==
    ASSUME IInv, CycleInv, NEW p \in Requests, req[p].pc = "locked",
           req'[p].pc # "locked", req'[p].op \in Ops \cup {"none"},
           \A q \in Requests \ {p} : req'[q].pc = req[q].pc /\ req'[q].op = req[q].op,
           run'.status = "CANCELLED" <=> run'.cancelledFromStatus # NoStatus
    PROVE  CycleInv'
<1>1. \A q \in Requests : req'[q].pc # "locked"
  BY DEF IInv, LockDiscipline
<1> QED BY <1>1 DEF CycleInv

\* Loads and locked reads: only a Run that is not CANCELLED is read, except by
\* Reactivate.
LEMMA LoadsAndReadsKeepCycle ==
    ASSUME IInv, CycleInv, NEW p \in Requests, LoadStep(p) \/ ReadStep(p)
    PROVE  CycleInv'
<1>1. req \in [Requests -> ReqRows]
  BY DEF IInv, TypeOK
<1>2. CASE LoadStep(p)
  <2>1. PICK op \in Ops : req'= [req EXCEPT ![p] = req'[p]] /\ req'[p].op = op /\ req'[p].pc = "loaded"
    BY <1>1, <1>2 DEF LoadStep, LoadOpenRun, LoadCancelRun, LoadReactivateRun, LoadRetireRun,
       LoadSetSignupWindow, LoadUpdateRun, LoadSaveDraft, LoadAddParticipant, LoadPublishRoster,
       LoadUpdateRoster, LoadStartRun, LoadCompleteRun, LoadArchiveRun, LoadRestoreRun,
       LoadLateFillHelp, Load
  <2>2. UNCHANGED run
    BY <1>2, LoadsAndReadsChangeNoRow
  <2> QED BY <1>1, <2>1, <2>2, CycleKept DEF CycleInv
<1>3. CASE ReadStep(p)
  <2>1. PICK op, kept : LockAndRead(p, op, kept) /\ (op # "reactivateRun" => run.status # "CANCELLED")
    BY <1>3 DEF ReadStep, CancelReads, ReactivateReads, RetireReads, PublishReads, StartReads,
       CompleteReads, OpNames, CanCancelRun, CancellableStatuses, RosterEditableStatuses,
       CanStartRun, CanCompleteRun
  <2>2. /\ req'[p].op = op /\ req[p].op = op
        /\ \A q \in Requests \ {p} : req'[q] = req[q]
        /\ UNCHANGED run
    BY <1>1, <2>1 DEF LockAndRead, At, ReqRows
  <2> QED BY <2>1, <2>2 DEF CycleInv
<1> QED BY <1>2, <1>3

\* Writes: the stale status writers are not among the requests, and Publish,
\* Start and Complete commit over a Run that is not CANCELLED.
LEMMA WritesKeepCycle ==
    ASSUME Ops \cap StaleStatusWriters = {}, IInv, CycleInv, NEW p \in Requests,
           WriteStep(p) \/ EditStep(p)
    PROVE  CycleInv'
<1>1. req \in [Requests -> ReqRows] /\ run \in RunRows
  BY DEF IInv, TypeOK
<1>2. \A q \in Requests : /\ req[q] \in ReqRows
                          /\ Outdate(req)[q].op = req[q].op /\ Outdate(req)[q].pc = req[q].pc
  BY <1>1, OutdateKeepsRequests DEF IInv
<1>3. Outdate(req) \in [Requests -> ReqRows]
  BY OutdateKeepsRequests DEF IInv
<1>4. Idle.op = "none" /\ Idle.pc = "idle"
  BY DEF Idle
<1>5. req[p].op \notin StaleStatusWriters
  BY DEF CycleInv, StaleStatusWriters
<1>6. CASE OpenRun(p) \/ SaveDraft(p) \/ AddParticipant(p) \/ StartRostering(p)
  BY <1>5, <1>6 DEF OpenRun, SaveDraft, AddParticipant, DraftWrite, StartRostering, At, StaleStatusWriters
<1>7. CASE SetSignupWindow(p) \/ ArchiveRun(p)
  <2>1. /\ req' = [req EXCEPT ![p] = Idle]
        /\ run'.status = run.status /\ run'.cancelledFromStatus = run.cancelledFromStatus
    BY <1>1, <1>7 DEF SetSignupWindow, ArchiveRun, Finish, RunRows
  <2> QED BY <1>1, <1>4, <2>1, CycleKept DEF CycleInv
<1>8. CASE RestoreRun(p)
  <2>1. /\ req' = [req EXCEPT ![p].pc = "clearing"]
        /\ run'.status = run.status /\ run'.cancelledFromStatus = run.cancelledFromStatus
    BY <1>1, <1>8 DEF RestoreRun, RunRows
  <2>2. /\ req'[p].op = req[p].op /\ req'[p].pc = "clearing"
        /\ \A q \in Requests \ {p} : req'[q] = req[q]
    BY <1>1, <2>1 DEF ReqRows
  <2> QED BY <2>1, <2>2, CycleKept DEF CycleInv
<1>9. CASE EditStep(p) \/ UpdateRoster(p)
  <2>1. UNCHANGED run /\ (req' = [Outdate(req) EXCEPT ![p] = Idle] \/ req' = [req EXCEPT ![p] = Idle])
    BY <1>9 DEF EditStep, UpdatePreStart, UpdateRoster
  <2>2. req'[p] = Idle /\ \A q \in Requests \ {p} : req'[q].op = req[q].op /\ req'[q].pc = req[q].pc
    BY <1>1, <1>2, <1>3, <2>1
  <2> QED BY <1>4, <2>1, <2>2, CycleKept DEF CycleInv
<1>10. CASE PublishCommits(p) \/ StartCommits(p) \/ CompleteCommits(p)
  <2>1. /\ req[p].pc = "locked" /\ req[p].op # "reactivateRun"
        /\ req' = [Outdate(req) EXCEPT ![p] = Idle] \/ req' = [req EXCEPT ![p] = Idle]
        /\ run'.status \in {run.status, "PUBLISHED", "IN_PROGRESS", "COMPLETED"}
        /\ run'.cancelledFromStatus = run.cancelledFromStatus
    BY <1>1, <1>10 DEF PublishCommits, StartCommits, CompleteCommits, Commit, Finish, At, RunRows
  <2>2. req'[p] = Idle /\ \A q \in Requests \ {p} : req'[q].op = req[q].op /\ req'[q].pc = req[q].pc
    BY <1>1, <1>2, <1>3, <2>1
  <2>3. run.status # "CANCELLED" /\ run.cancelledFromStatus = NoStatus
    BY <2>1 DEF CycleInv
  <2> QED BY <1>4, <2>1, <2>2, <2>3, CycleAfterCommit
<1> QED BY <1>6, <1>7, <1>8, <1>9, <1>10 DEF WriteStep

\* Cancel and Retire enter the cycle, Reactivate leaves it.
LEMMA CycleCommitsKeepCycle ==
    ASSUME IInv, CycleInv, NEW p \in Requests,
           CancelCommits(p) \/ RetireCommits(p) \/ ReactivateCommits(p)
    PROVE  CycleInv'
<1>1. req \in [Requests -> ReqRows] /\ run \in RunRows /\ Idle.op = "none" /\ Idle.pc = "idle"
  BY DEF IInv, TypeOK, Idle
<1>2. CASE CancelCommits(p) \/ RetireCommits(p)
  <2>1. /\ req[p].pc = "locked" /\ req' = [req EXCEPT ![p] = Idle]
        /\ run'.status = "CANCELLED" /\ run'.cancelledFromStatus # NoStatus
    BY <1>2, CancelTakesNextRevision DEF CancelCommits, RetireCommits, Commit, Finish, At
  <2> QED BY <1>1, <2>1, CycleAfterCommit
<1>3. CASE ReactivateCommits(p)
  <2>1. /\ req[p].pc = "locked" /\ req' = [req EXCEPT ![p].pc = "clearing"]
        /\ run'.status \in PreStartStatuses /\ run'.cancelledFromStatus = NoStatus
    BY <1>1, <1>3, ReactivateFindsNoStart DEF ReactivateCommits, At, RunRows
  <2>2. /\ req'[p].op = req[p].op /\ req'[p].pc = "clearing"
        /\ \A q \in Requests \ {p} : req'[q] = req[q]
    BY <1>1, <2>1 DEF ReqRows
  <2> QED BY <2>1, <2>2, CycleAfterCommit DEF PreStartStatuses, CycleInv
<1> QED BY <1>2, <1>3

\* Without the stale status writers, CycleInv is inductive.
LEMMA NextKeepsCycleInv ==
    ASSUME Ops \cap StaleStatusWriters = {}, IInv, CycleInv, [Next]_lifecycleVars
    PROVE  CycleInv'
<1>1. req \in [Requests -> ReqRows] /\ Idle.op = "none" /\ Idle.pc = "idle"
  BY DEF IInv, TypeOK, Idle
<1>2. ASSUME NEW p \in Requests, Fail(p) \/ ClearArchiveArtifacts(p) \/ RequestHelp(p)
      PROVE  CycleInv'
  <2>1. UNCHANGED run /\ req' = [req EXCEPT ![p] = Idle]
    BY <1>2 DEF Fail, ClearArchiveArtifacts, RequestHelp, Finish
  <2> QED BY <1>1, <2>1, CycleKept DEF CycleInv
<1>3. CASE MarkAttendance \/ ReplaceParticipant \/ PlayerStep
  <2>1. UNCHANGED run /\ (req' = req \/ req' = Outdate(req))
    BY <1>3 DEF MarkAttendance, ReplaceParticipant, PlayerStep, PlayerSignsUp, PlayerLeaves,
       ClearDraftSelections
  <2>2. \A q \in Requests : req'[q].op = req[q].op /\ req'[q].pc = req[q].pc
    BY <2>1, OutdateKeepsRequests DEF IInv
  <2> QED BY <2>1, <2>2, CycleKept DEF CycleInv
<1>4. CASE UNCHANGED lifecycleVars
  BY <1>4 DEF lifecycleVars, CycleInv
<1> QED BY <1>2, <1>3, <1>4, LoadsAndReadsKeepCycle, WritesKeepCycle, CycleCommitsKeepCycle DEF Next

\* A created Run is at rest and not cancelled.
LEMMA InitCycleInv == Init => CycleInv
  BY DEF Init, CycleInv, CreatedRun, Idle

\* Take the stale status writers away and the status and the snapshot of a
\* cancellation always agree: they are the only cause of a Run that left
\* CANCELLED without Reactivate.
THEOREM SnapshotFollowsStatus ==
    ASSUME Ops \cap StaleStatusWriters = {}
    PROVE  Spec => []CancelledHasSnapshot
<1>1. IInv /\ CycleInv /\ [Next]_lifecycleVars => CycleInv'
  BY NextKeepsCycleInv
<1>2. CycleInv => CancelledHasSnapshot
  BY DEF CycleInv, CancelledHasSnapshot
<1> QED BY <1>1, <1>2, InitCycleInv, IInvAlways, PTL DEF Spec

-----------------------------------------------------------------------------
(* The lifecycle follows RunCycle when its unlocked writes come in time.    *)

\* What a transaction read of the status is still there when it commits.
LockedStatus(p) ==
    req[p].pc = "locked" =>
        /\ req[p].op \in {"cancelRun", "retireRun"} => run.status = req[p].kept.status
        /\ req[p].op = "retireRun" => run.status \in {"DRAFT", "OPEN"}
        /\ req[p].op = "reactivateRun" => run.status = "CANCELLED"
        /\ req[p].op = "publishRoster" => run.status \in RosterEditableStatuses
        /\ req[p].op = "startRun" => run.status = "PUBLISHED"
        /\ req[p].op = "completeRun" => run.status = "IN_PROGRESS"

\* The status, the columns and the evidence tell one story.
Agree == /\ run.status = "CANCELLED" <=> run.cancelledFromStatus # NoStatus
         /\ evidence.startSnapshot <=> run.status \in {"IN_PROGRESS", "COMPLETED"}
         /\ run.completedAt <=> run.status = "COMPLETED"

StatusInv == Agree /\ \A p \in Requests : LockedStatus(p)

\* Reactivate, whether the Run was archived meanwhile or not.
ComesBack ==
    /\ run.status = "CANCELLED" /\ run.cancelledFromStatus \in PreStartStatuses
    /\ run'.status = run.cancelledFromStatus /\ run'.cancelledFromStatus = NoStatus
    /\ evidence.attendance = "NONE"
    /\ UNCHANGED <<run.cancelRevision, run.archivedAt, evidence.attendance>>

\* A step of RunCycle, as far as it does not depend on archiving.
StatusStep ==
    \/ UNCHANGED <<run.status, run.cancelledFromStatus, run.cancelRevision, evidence.attendance>>
    \/ Cycle!Open \/ Cycle!StartRostering \/ Cycle!Publish
    \/ Cycle!Cancel \/ Cycle!Retire \/ ComesBack
    \/ Cycle!Start \/ Cycle!Mark \/ Cycle!Complete

\* Nobody takes the lock, and the status stays.
LEMMA StatusKept ==
    ASSUME StatusInv,
           run'.status = run.status, run'.cancelledFromStatus = run.cancelledFromStatus,
           run'.completedAt = run.completedAt, evidence'.startSnapshot = evidence.startSnapshot,
           \A q \in Requests : req'[q].pc = "locked" =>
               /\ req[q].pc = "locked" /\ req'[q].op = req[q].op /\ req'[q].kept = req[q].kept
    PROVE  StatusInv'
<1>1. Agree'
  BY DEF StatusInv, Agree
<1>2. ASSUME NEW q \in Requests PROVE LockedStatus(q)'
  BY DEF StatusInv, LockedStatus
<1> QED BY <1>1, <1>2 DEF StatusInv

\* Where nobody is in a transaction, the status only has to agree with the rest.
LEMMA StatusUnlocked ==
    ASSUME \A q \in Requests : req'[q].pc # "locked", Agree'
    PROVE  StatusInv'
  BY DEF StatusInv, LockedStatus

\* Without the lock nobody is in a transaction; with it nobody else is.
LEMMA WhoIsLocked ==
    ASSUME IInv
    PROVE  /\ LockFree => \A q \in Requests : req[q].pc # "locked"
           /\ \A p, q \in Requests : req[p].pc = "locked" /\ req[q].pc = "locked" => p = q
  BY LifecycleAssumption DEF IInv, LockDiscipline, LockFree

LEMMA InitStatusInv == Init => StatusInv
<1> SUFFICES ASSUME Init PROVE StatusInv
  OBVIOUS
<1>1. Agree
  BY DEF Init, Agree, CreatedRun
<1>2. \A p \in Requests : req[p].pc = "idle"
  BY DEF Init, Idle
<1> QED BY <1>1, <1>2 DEF StatusInv, LockedStatus

\* A transaction reads the status it goes by under the lock.
LEMMA ReadsKeepStatus ==
    ASSUME IInv, StatusInv, NEW p \in Requests, ReadStep(p)
    PROVE  StatusInv'
<1>1. req \in [Requests -> ReqRows] /\ UNCHANGED <<run, roster, evidence>>
  BY LoadsAndReadsChangeNoRow DEF IInv, TypeOK
<1>2. PICK op, kept :
         /\ LockAndRead(p, op, kept)
         /\ op \in {"cancelRun", "retireRun"} => run.status = kept.status
         /\ op = "retireRun" => run.status \in {"DRAFT", "OPEN"}
         /\ op = "reactivateRun" => run.status = "CANCELLED"
         /\ op = "publishRoster" => run.status \in RosterEditableStatuses
         /\ op = "startRun" => run.status = "PUBLISHED"
         /\ op = "completeRun" => run.status = "IN_PROGRESS"
  <2>1. ReadRow.status = run.status
    BY DEF ReadRow
  <2> QED BY <2>1 DEF ReadStep, CancelReads, ReactivateReads, RetireReads, PublishReads, StartReads,
             CompleteReads, CanReactivateRun, CanStartRun, CanCompleteRun
<1>3. /\ req'[p].op = op /\ req'[p].kept = kept
      /\ \A q \in Requests \ {p} : req'[q] = req[q] /\ req[q].pc # "locked"
  BY <1>1, <1>2, WhoIsLocked DEF LockAndRead, At, ReqRows
<1>4. ASSUME NEW q \in Requests PROVE LockedStatus(q)'
  BY <1>1, <1>2, <1>3 DEF LockedStatus
<1>5. Agree'
  BY <1>1 DEF StatusInv, Agree
<1> QED BY <1>4, <1>5 DEF StatusInv

\* A request that moves on without taking the lock leaves the transactions alone.
LEMMA OneRequestMoves ==
    ASSUME IInv, NEW p \in Requests, NEW x, x.pc # "locked",
           req' = [req EXCEPT ![p] = x] \/ req' = [Outdate(req) EXCEPT ![p] = x]
    PROVE  \A q \in Requests : req'[q].pc = "locked" =>
               /\ req[q].pc = "locked" /\ req'[q].op = req[q].op /\ req'[q].kept = req[q].kept
<1>1. req \in [Requests -> ReqRows] /\ Outdate(req) \in [Requests -> ReqRows]
  BY OutdateKeepsRequests DEF IInv, TypeOK
<1>2. ASSUME NEW q \in Requests, req'[q].pc = "locked"
      PROVE  req[q].pc = "locked" /\ req'[q].op = req[q].op /\ req'[q].kept = req[q].kept
  <2>1. q # p /\ (req'[q] = req[q] \/ req'[q] = Outdate(req)[q])
    BY <1>1, <1>2
  <2> QED BY <1>2, <2>1, OutdateKeepsRequests DEF IInv
<1> QED BY <1>2

\* What leaves the status alone: players, loads, edits, draft writes, Update
\* Roster, signup windows, archiving, and requests that end.
LEMMA PlayersKeepStatus ==
    ASSUME IInv, StatusInv, PlayerStep
    PROVE  StatusInv' /\ StatusStep
<1>1. UNCHANGED <<run, evidence>> /\ (req' = req \/ req' = Outdate(req))
  BY DEF PlayerStep, PlayerSignsUp, PlayerLeaves, ClearDraftSelections
<1>2. \A q \in Requests : req'[q].op = req[q].op /\ req'[q].pc = req[q].pc /\ req'[q].kept = req[q].kept
  BY <1>1, OutdateKeepsRequests DEF IInv
<1> QED BY <1>1, <1>2, StatusKept DEF StatusStep

LEMMA LoadsKeepStatus ==
    ASSUME IInv, StatusInv, NEW p \in Requests, LoadStep(p)
    PROVE  StatusInv'
<1>1. UNCHANGED <<run, evidence>>
  BY LoadsAndReadsChangeNoRow
<1>2. PICK op, kept : Load(p, op, kept)
  BY DEF LoadStep, LoadOpenRun, LoadCancelRun, LoadReactivateRun, LoadRetireRun,
     LoadSetSignupWindow, LoadUpdateRun, LoadSaveDraft, LoadAddParticipant, LoadPublishRoster,
     LoadUpdateRoster, LoadStartRun, LoadCompleteRun, LoadArchiveRun, LoadRestoreRun,
     LoadLateFillHelp
<1> DEFINE x == [op |-> op, pc |-> "loaded", kept |-> kept, fresh |-> TRUE]
<1>3. x.pc # "locked" /\ req' = [req EXCEPT ![p] = x]
  BY <1>2 DEF Load
<1> HIDE DEF x
<1> QED BY <1>1, <1>3, OneRequestMoves, StatusKept

LEMMA EndsKeepStatus ==
    ASSUME IInv, StatusInv, NEW p \in Requests,
           \/ EditStep(p) \/ UpdateRoster(p) \/ SetSignupWindow(p) \/ ArchiveRun(p)
           \/ Fail(p) \/ ClearArchiveArtifacts(p) \/ RequestHelp(p)
    PROVE  StatusInv' /\ StatusStep
<1>1. run \in RunRows /\ Idle.pc # "locked"
  BY DEF IInv, TypeOK, Idle
<1>2. req' = [req EXCEPT ![p] = Idle] \/ req' = [Outdate(req) EXCEPT ![p] = Idle]
  BY DEF EditStep, UpdatePreStart, UpdateRoster, SetSignupWindow, ArchiveRun, Fail,
         ClearArchiveArtifacts, RequestHelp, Finish
<1>3. /\ run'.status = run.status /\ run'.cancelledFromStatus = run.cancelledFromStatus
      /\ run'.completedAt = run.completedAt /\ run'.cancelRevision = run.cancelRevision
      /\ UNCHANGED evidence
  BY <1>1 DEF EditStep, UpdatePreStart, UpdateRoster, SetSignupWindow, ArchiveRun, Fail,
              ClearArchiveArtifacts, RequestHelp, RunRows
<1> QED BY <1>1, <1>2, <1>3, OneRequestMoves, StatusKept DEF StatusStep

LEMMA DraftsAndRestoreKeepStatus ==
    ASSUME IInv, StatusInv, NEW p \in Requests, SaveDraft(p) \/ AddParticipant(p) \/ RestoreRun(p)
    PROVE  StatusInv' /\ StatusStep
<1>1. run \in RunRows /\ req[p] \in ReqRows
  BY DEF IInv, TypeOK
<1>2. /\ run'.status = run.status /\ run'.cancelledFromStatus = run.cancelledFromStatus
      /\ run'.completedAt = run.completedAt /\ run'.cancelRevision = run.cancelRevision
      /\ UNCHANGED evidence
  BY <1>1 DEF SaveDraft, AddParticipant, DraftWrite, RestoreRun, RunRows
<1> DEFINE Moves(x) == /\ x.pc # "locked"
                       /\ req' = [req EXCEPT ![p] = x] \/ req' = [Outdate(req) EXCEPT ![p] = x]
<1>3. \E x : Moves(x)
  <2> DEFINE saved == [req[p] EXCEPT !.pc = "saved", !.kept = NothingKept, !.fresh = TRUE]
             clearing == [req[p] EXCEPT !.pc = "clearing"]
  <2>1. saved.pc # "locked" /\ clearing.pc # "locked" /\ Idle.pc # "locked"
    BY <1>1 DEF ReqRows, Idle
  <2>2. \/ req' = [Outdate(req) EXCEPT ![p] = saved] \/ req' = [Outdate(req) EXCEPT ![p] = Idle]
        \/ req' = [req EXCEPT ![p] = clearing]
    BY DEF SaveDraft, AddParticipant, DraftWrite, RestoreRun
  <2> HIDE DEF saved, clearing
  <2>3. Moves(saved) \/ Moves(clearing) \/ Moves(Idle)
    BY <2>1, <2>2
  <2> QED BY <2>3
<1>4. PICK x : Moves(x)
  BY <1>3
<1> QED BY <1>2, <1>4, OneRequestMoves, StatusKept DEF StatusStep

\* Afterwards nobody is in a transaction.
LEMMA OneRequestCommits ==
    ASSUME IInv, NEW p \in Requests, NEW x, x.pc # "locked", req[p].pc = "locked" \/ LockFree,
           req' = [req EXCEPT ![p] = x] \/ req' = [Outdate(req) EXCEPT ![p] = x]
    PROVE  \A q \in Requests : req'[q].pc # "locked"
<1>1. \A q \in Requests : req'[q].pc = "locked" => req[q].pc = "locked"
  BY OneRequestMoves
<1>2. req'[p] = x
  BY OutdateKeepsRequests DEF IInv, TypeOK
<1> QED BY <1>1, <1>2, WhoIsLocked

\* The unlocked status writes, when they come in time.
LEMMA TimelyWritesKeepStatus ==
    ASSUME IInv, StatusInv, NEW p \in Requests, StatusWritesInTime, OpenRun(p) \/ StartRostering(p)
    PROVE  StatusInv' /\ StatusStep
<1>1. run \in RunRows /\ Idle.pc # "locked" /\ Agree
  BY DEF IInv, TypeOK, Idle, StatusInv
<1>2. LockFree /\ UNCHANGED evidence /\ req' = [req EXCEPT ![p] = Idle]
  BY DEF StatusWritesInTime, OpenRun, StartRostering, Finish
<1>3. \A q \in Requests : req'[q].pc # "locked"
  BY <1>1, <1>2, OneRequestCommits
<1>4. /\ run'.cancelledFromStatus = run.cancelledFromStatus /\ run'.cancelRevision = run.cancelRevision
      /\ run'.archivedAt = run.archivedAt /\ run'.completedAt = run.completedAt
  BY <1>1 DEF OpenRun, StartRostering, RunRows
<1>5. \/ run.status = "DRAFT" /\ run'.status = "OPEN"
      \/ run.status \in {"OPEN", "ROSTERING"} /\ run'.status = "ROSTERING"
  BY <1>1 DEF StatusWritesInTime, OpenRun, StartRostering, CanOpenRun, RunRows
<1>6. Agree'
  BY <1>1, <1>2, <1>4, <1>5 DEF Agree
<1>7. StatusStep
  BY <1>2, <1>4, <1>5 DEF StatusStep, Cycle!Open, Cycle!StartRostering, Cycle!Become
<1> QED BY <1>3, <1>6, <1>7, StatusUnlocked

\* Publish, Start and Complete commit over the status they read.
LEMMA ForwardCommitsKeepStatus ==
    ASSUME IInv, StatusInv, NEW p \in Requests,
           PublishCommits(p) \/ StartCommits(p) \/ CompleteCommits(p)
    PROVE  StatusInv' /\ StatusStep
<1>1. /\ run \in RunRows /\ Idle.pc # "locked" /\ Agree /\ LockedStatus(p)
      /\ evidence \in [startSnapshot : BOOLEAN, attendance : AttendanceStates]
  BY DEF IInv, TypeOK, Idle, StatusInv
<1>2. /\ req[p].pc = "locked"
      /\ req' = [req EXCEPT ![p] = Idle] \/ req' = [Outdate(req) EXCEPT ![p] = Idle]
  BY DEF PublishCommits, StartCommits, CompleteCommits, Commit, Finish, At
<1>3. \A q \in Requests : req'[q].pc # "locked"
  BY <1>1, <1>2, OneRequestCommits
<1>4. /\ run'.cancelledFromStatus = run.cancelledFromStatus /\ run'.cancelRevision = run.cancelRevision
      /\ run'.archivedAt = run.archivedAt
  BY <1>1 DEF PublishCommits, StartCommits, CompleteCommits, RunRows
<1>5. CASE PublishCommits(p)
  <2>1. run.status \in {"OPEN", "ROSTERING", "PUBLISHED"} /\ UNCHANGED evidence
    BY <1>1, <1>5 DEF PublishCommits, At, LockedStatus, RosterEditableStatuses
  <2>2. (run'.status = "PUBLISHED" \/ run'.status = run.status) /\ run'.completedAt = run.completedAt
    BY <1>1, <1>5 DEF PublishCommits, RunRows
  <2>3. Agree'
    BY <1>1, <1>4, <2>1, <2>2 DEF Agree
  <2>4. StatusStep
    BY <1>4, <2>1, <2>2 DEF StatusStep, Cycle!Publish, Cycle!Become
  <2> QED BY <1>3, <2>3, <2>4, StatusUnlocked
<1>6. CASE StartCommits(p)
  <2>1. run.status = "PUBLISHED" /\ run'.status = "IN_PROGRESS" /\ run'.completedAt = run.completedAt
    BY <1>1, <1>6 DEF StartCommits, Commit, At, LockedStatus, RunRows
  <2>2. evidence'.startSnapshot /\ evidence'.attendance = "UNMARKED" /\ evidence.attendance = "NONE"
    BY <1>1, <1>6, <2>1 DEF StartCommits, Agree, IInv, EvidenceMatchesStatus
  <2>3. Agree'
    BY <1>1, <1>4, <2>1, <2>2 DEF Agree
  <2>4. StatusStep
    BY <1>4, <2>1, <2>2 DEF StatusStep, Cycle!Start, Cycle!Become
  <2> QED BY <1>3, <2>3, <2>4, StatusUnlocked
<1>7. CASE CompleteCommits(p)
  <2>1. run.status = "IN_PROGRESS" /\ run'.status = "COMPLETED" /\ run'.completedAt /\ UNCHANGED evidence
    BY <1>1, <1>7 DEF CompleteCommits, Commit, At, LockedStatus, RunRows
  <2>2. evidence.attendance = "MARKED"
    BY <1>7 DEF CompleteCommits, Commit, At, IInv, LockedReadsHold
  <2>3. Agree'
    BY <1>1, <1>4, <2>1 DEF Agree
  <2>4. StatusStep
    BY <1>4, <2>1, <2>2 DEF StatusStep, Cycle!Complete, Cycle!Become
  <2> QED BY <1>3, <2>3, <2>4, StatusUnlocked
<1> QED BY <1>5, <1>6, <1>7

\* Cancel and Retire remember the very status they end.
LEMMA CancelsKeepStatus ==
    ASSUME IInv, StatusInv, NEW p \in Requests, CancelCommits(p) \/ RetireCommits(p)
    PROVE  StatusInv' /\ StatusStep
<1> DEFINE row == CancelledRow(req[p].kept)
<1>1. /\ run \in RunRows /\ Idle.pc # "locked" /\ Agree /\ LockedStatus(p) /\ req[p].kept \in Kept
  BY DEF IInv, TypeOK, Idle, StatusInv, ReqRows
<1>2. /\ req[p].pc = "locked" /\ req[p].op \in {"cancelRun", "retireRun"}
      /\ req' = [req EXCEPT ![p] = Idle] /\ UNCHANGED evidence
      /\ CancelCommits(p) => run' = row
      /\ RetireCommits(p) => run' = [row EXCEPT !.archivedAt = TRUE] /\ req[p].op = "retireRun"
  BY DEF CancelCommits, RetireCommits, Commit, Finish, At
<1>3. \A q \in Requests : req'[q].pc # "locked"
  BY <1>1, <1>2, OneRequestCommits
<1>4. /\ req[p].kept.status \in CancellableStatuses /\ req[p].kept.status = run.status
      /\ req[p].kept.revision = run.cancelRevision
      /\ req[p].op = "retireRun" => run.status \in {"DRAFT", "OPEN"}
  BY <1>1, <1>2 DEF IInv, LockedReadsHold, LockedStatus
<1>5. /\ row \in RunRows /\ row.status = "CANCELLED" /\ row.cancelledFromStatus = run.status
      /\ row.cancelRevision = run.cancelRevision + 1 /\ row.completedAt = run.completedAt
  BY <1>1, <1>4, CancelledRowIsARun
<1>6. row.archivedAt = run.archivedAt
  BY <1>1 DEF CancelledRow, RunRows
<1> HIDE DEF row
<1>7. /\ run'.status = "CANCELLED" /\ run'.cancelledFromStatus = run.status
      /\ run'.cancelRevision = run.cancelRevision + 1 /\ run'.completedAt = run.completedAt
      /\ CancelCommits(p) => run'.archivedAt = run.archivedAt
      /\ RetireCommits(p) => run'.archivedAt = TRUE
  BY <1>2, <1>5, <1>6 DEF RunRows
<1>8. run.status \in {"DRAFT", "OPEN", "ROSTERING", "PUBLISHED"}
  BY <1>4 DEF CancellableStatuses
<1>9. Agree'
  BY <1>1, <1>2, <1>7, <1>8 DEF Agree, NoStatus
<1>10. StatusStep
  <2>1. CASE CancelCommits(p)
    BY <1>2, <1>7, <1>8, <2>1 DEF StatusStep, Cycle!Cancel, Cycle!EndCycle, Cycle!NotStarted
  <2>2. CASE RetireCommits(p)
    BY <1>2, <1>4, <1>7, <2>2 DEF StatusStep, Cycle!Retire, Cycle!EndCycle
  <2> QED BY <2>1, <2>2
<1> QED BY <1>3, <1>9, <1>10, StatusUnlocked

\* Reactivate goes back there.
LEMMA ReactivateKeepsStatus ==
    ASSUME IInv, StatusInv, NEW p \in Requests, ReactivateCommits(p)
    PROVE  StatusInv' /\ StatusStep
<1> DEFINE clearing == [req[p] EXCEPT !.pc = "clearing"]
<1>1. /\ run \in RunRows /\ Agree /\ LockedStatus(p) /\ req[p] \in ReqRows
  BY DEF IInv, TypeOK, StatusInv
<1>2. req[p].pc = "locked" /\ req[p].op = "reactivateRun" /\ req' = [req EXCEPT ![p] = clearing]
  BY DEF ReactivateCommits, At
<1>3. clearing.pc # "locked"
  BY <1>1 DEF ReqRows
<1> HIDE DEF clearing
<1>4. \A q \in Requests : req'[q].pc # "locked"
  BY <1>2, <1>3, OneRequestCommits
<1>5. run.status = "CANCELLED" /\ run.cancelledFromStatus \in PreStartStatuses
  BY <1>1, <1>2 DEF LockedStatus, Agree, RunRows
<1>6. /\ run'.status = run.cancelledFromStatus /\ run'.cancelledFromStatus = NoStatus
      /\ run'.cancelRevision = run.cancelRevision /\ run'.archivedAt = run.archivedAt
      /\ run'.completedAt = run.completedAt
  BY <1>1 DEF ReactivateCommits, RunRows
<1>7. ~evidence.startSnapshot /\ evidence.attendance = "NONE" /\ UNCHANGED evidence
  BY ReactivateFindsNoStart DEF ReactivateCommits
<1>8. Agree'
  BY <1>1, <1>5, <1>6, <1>7 DEF Agree, PreStartStatuses
<1>9. StatusStep
  BY <1>5, <1>6, <1>7 DEF StatusStep, ComesBack
<1> QED BY <1>4, <1>8, <1>9, StatusUnlocked

\* Attendance is only marked while the Run is in progress.
LEMMA AttendanceKeepsStatus ==
    ASSUME IInv, StatusInv, MarkAttendance \/ ReplaceParticipant
    PROVE  StatusInv' /\ StatusStep
<1>1. /\ Agree /\ evidence \in [startSnapshot : BOOLEAN, attendance : AttendanceStates]
  BY DEF IInv, TypeOK, StatusInv
<1>2. /\ UNCHANGED run /\ LockFree /\ (req' = req \/ req' = Outdate(req))
      /\ evidence'.startSnapshot = evidence.startSnapshot
      /\ evidence'.attendance \in {"UNMARKED", "MARKED"}
  BY <1>1 DEF MarkAttendance, MayMarkAttendance, ReplaceParticipant
<1>3. run.status = "IN_PROGRESS"
  <2>1. CASE MarkAttendance
    BY <2>1 DEF MarkAttendance, MayMarkAttendance
  <2>2. CASE ReplaceParticipant
    <3>1. evidence.attendance = "UNMARKED"
      BY <2>2 DEF ReplaceParticipant
    <3> QED BY <1>1, <3>1 DEF IInv, EvidenceMatchesStatus, Agree
  <2> QED BY <2>1, <2>2
<1>4. \A q \in Requests : req'[q].op = req[q].op /\ req'[q].pc = req[q].pc /\ req'[q].kept = req[q].kept
  BY <1>2, OutdateKeepsRequests DEF IInv
<1>5. StatusInv'
  BY <1>2, <1>4, StatusKept
<1>6. StatusStep
  BY <1>2, <1>3 DEF StatusStep, Cycle!Mark
<1> QED BY <1>5, <1>6

\* Every step of the lifecycle moves the status as RunCycle does.
LEMMA NextMakesStatusStep ==
    ASSUME IInv, StatusInv, [Next]_lifecycleVars, StatusWritesInTime
    PROVE  StatusInv' /\ StatusStep
<1>1. ASSUME NEW p \in Requests, LoadStep(p) \/ ReadStep(p) PROVE StatusInv' /\ StatusStep
  BY <1>1, LoadsKeepStatus, ReadsKeepStatus, LoadsAndReadsChangeNoRow DEF StatusStep
<1>2. ASSUME NEW p \in Requests, WriteStep(p) PROVE StatusInv' /\ StatusStep
  BY <1>2, TimelyWritesKeepStatus, EndsKeepStatus, DraftsAndRestoreKeepStatus, ForwardCommitsKeepStatus
     DEF WriteStep
<1>3. ASSUME NEW p \in Requests, EditStep(p) \/ Fail(p) \/ ClearArchiveArtifacts(p) \/ RequestHelp(p)
      PROVE  StatusInv' /\ StatusStep
  BY <1>3, EndsKeepStatus
<1>4. ASSUME NEW p \in Requests, CancelCommits(p) \/ RetireCommits(p) \/ ReactivateCommits(p)
      PROVE  StatusInv' /\ StatusStep
  BY <1>4, CancelsKeepStatus, ReactivateKeepsStatus
<1>5. CASE MarkAttendance \/ ReplaceParticipant
  BY <1>5, AttendanceKeepsStatus
<1>6. CASE PlayerStep
  BY <1>6, PlayersKeepStatus
<1>7. CASE UNCHANGED lifecycleVars
  BY <1>7, StatusKept DEF lifecycleVars, StatusStep
<1> QED BY <1>1, <1>2, <1>3, <1>4, <1>5, <1>6, <1>7 DEF Next

\* A request only gets the lock by reading under it.
LEMMA WhoTakesTheLock ==
    ASSUME IInv, Next, NEW q \in Requests, req'[q].pc = "locked"
    PROVE  (req[q].pc = "locked" /\ req'[q].op = req[q].op) \/ ReadStep(q)
<1> DEFINE Held == req[q].pc = "locked" /\ req'[q].op = req[q].op
           Moves(p, x) == /\ x.pc # "locked"
                          /\ req' = [req EXCEPT ![p] = x] \/ req' = [Outdate(req) EXCEPT ![p] = x]
<1>1. req \in [Requests -> ReqRows] /\ Idle.pc # "locked"
  BY DEF IInv, TypeOK, Idle
<1>2. ASSUME NEW p \in Requests, NEW x, Moves(p, x) PROVE Held
  BY <1>2, OneRequestMoves
<1> HIDE DEF Held
<1>3. ASSUME NEW p \in Requests, LoadStep(p) PROVE Held
  <2>1. PICK op, kept : Load(p, op, kept)
    BY <1>3 DEF LoadStep, LoadOpenRun, LoadCancelRun, LoadReactivateRun, LoadRetireRun,
       LoadSetSignupWindow, LoadUpdateRun, LoadSaveDraft, LoadAddParticipant, LoadPublishRoster,
       LoadUpdateRoster, LoadStartRun, LoadCompleteRun, LoadArchiveRun, LoadRestoreRun,
       LoadLateFillHelp
  <2> DEFINE x == [op |-> op, pc |-> "loaded", kept |-> kept, fresh |-> TRUE]
  <2>2. Moves(p, x)
    BY <2>1 DEF Load
  <2> QED BY <1>2, <2>2
<1>4. ASSUME NEW p \in Requests, ReadStep(p), p # q PROVE Held
  <2>1. PICK op, kept : LockAndRead(p, op, kept)
    BY <1>4 DEF ReadStep, CancelReads, ReactivateReads, RetireReads, PublishReads, StartReads,
       CompleteReads
  <2> QED BY <1>1, <1>4, <2>1 DEF LockAndRead, Held
<1>5. ASSUME NEW p \in Requests, SaveDraft(p) \/ AddParticipant(p) \/ RestoreRun(p) \/ ReactivateCommits(p)
      PROVE  Held
  <2> DEFINE saved == [req[p] EXCEPT !.pc = "saved", !.kept = NothingKept, !.fresh = TRUE]
             clearing == [req[p] EXCEPT !.pc = "clearing"]
  <2>1. saved.pc # "locked" /\ clearing.pc # "locked"
    BY <1>1 DEF ReqRows
  <2>2. \/ req' = [Outdate(req) EXCEPT ![p] = saved] \/ req' = [Outdate(req) EXCEPT ![p] = Idle]
        \/ req' = [req EXCEPT ![p] = clearing]
    BY <1>5 DEF SaveDraft, AddParticipant, DraftWrite, RestoreRun, ReactivateCommits
  <2> HIDE DEF saved, clearing
  <2>3. Moves(p, saved) \/ Moves(p, clearing) \/ Moves(p, Idle)
    BY <1>1, <2>1, <2>2
  <2> QED BY <1>2, <2>3
<1>6. ASSUME NEW p \in Requests,
             \/ WriteStep(p) /\ ~(SaveDraft(p) \/ AddParticipant(p) \/ RestoreRun(p))
             \/ EditStep(p) \/ Fail(p) \/ CancelCommits(p) \/ RetireCommits(p)
             \/ ClearArchiveArtifacts(p) \/ RequestHelp(p)
      PROVE  Held
  <2>1. Moves(p, Idle)
    BY <1>1, <1>6 DEF WriteStep, EditStep, OpenRun, SetSignupWindow, StartRostering, PublishCommits,
       UpdateRoster, StartCommits, CompleteCommits, ArchiveRun, UpdatePreStart, Fail, CancelCommits,
       RetireCommits, ClearArchiveArtifacts, RequestHelp, Commit, Finish
  <2> QED BY <1>2, <2>1
<1>7. CASE MarkAttendance \/ ReplaceParticipant \/ PlayerStep
  <2>1. req' = req \/ req' = Outdate(req)
    BY <1>7 DEF MarkAttendance, ReplaceParticipant, PlayerStep, PlayerSignsUp, PlayerLeaves,
       ClearDraftSelections
  <2> QED BY <2>1, OutdateKeepsRequests DEF IInv, Held
<1> QED BY <1>3, <1>4, <1>5, <1>6, <1>7 DEF Next, Held

\* Which steps archive a Run or bring it back to the lists.
LEMMA WhoArchives ==
    ASSUME IInv, Next, run'.archivedAt # run.archivedAt
    PROVE  \E p \in Requests : ArchiveRun(p) \/ RestoreRun(p) \/ RetireCommits(p)
<1> SUFFICES ASSUME ~\E p \in Requests : ArchiveRun(p) \/ RestoreRun(p) \/ RetireCommits(p)
             PROVE  run'.archivedAt = run.archivedAt
  OBVIOUS
<1>1. run \in RunRows
  BY DEF IInv, TypeOK
<1>2. ASSUME NEW p \in Requests, LoadStep(p) \/ ReadStep(p) PROVE run' = run
  BY <1>2, LoadsAndReadsChangeNoRow
<1>3. ASSUME NEW p \in Requests, WriteStep(p) \/ EditStep(p), ~ArchiveRun(p), ~RestoreRun(p)
      PROVE  run'.archivedAt = run.archivedAt
  BY <1>1, <1>3 DEF WriteStep, EditStep, OpenRun, SetSignupWindow, UpdatePreStart, SaveDraft,
     AddParticipant, DraftWrite, StartRostering, PublishCommits, UpdateRoster, StartCommits,
     CompleteCommits, RunRows
<1>4. ASSUME NEW p \in Requests, CancelCommits(p) \/ ReactivateCommits(p)
      PROVE  run'.archivedAt = run.archivedAt
  BY <1>1, <1>4 DEF CancelCommits, ReactivateCommits, CancelledRow, RunRows
<1>5. ASSUME NEW p \in Requests, Fail(p) \/ ClearArchiveArtifacts(p) \/ RequestHelp(p)
      PROVE  run' = run
  BY <1>5 DEF Fail, ClearArchiveArtifacts, RequestHelp
<1>6. CASE MarkAttendance \/ ReplaceParticipant \/ PlayerStep
  BY <1>6 DEF MarkAttendance, ReplaceParticipant, PlayerStep, PlayerSignsUp, PlayerLeaves, ClearDraftSelections
<1> QED BY <1>2, <1>3, <1>4, <1>5, <1>6 DEF Next

\* Nobody is about to bring an archived Run back.
ArchiveInv ==
    /\ ArchivedRunsHaveEnded
    /\ \A p \in Requests : req[p].pc = "locked" /\ req[p].op = "reactivateRun" => ~run.archivedAt

\* What moves when archivedAt does.
LEMMA ArchivingSteps ==
    ASSUME IInv, StatusInv, NEW p \in Requests, ArchivesInTime,
           ArchiveRun(p) \/ RestoreRun(p) \/ RetireCommits(p), run'.archivedAt # run.archivedAt
    PROVE  /\ run'.archivedAt => \A q \in Requests : req'[q].pc # "locked"
           /\ Cycle!Archive \/ Cycle!Restore \/ Cycle!Retire
<1>1. run \in RunRows /\ Idle.pc # "locked"
  BY DEF IInv, TypeOK, Idle
<1>2. CASE ArchiveRun(p)
  <2>1. LockFree /\ req' = [req EXCEPT ![p] = Idle] /\ run.status \in ArchivableStatuses
    BY <1>2 DEF ArchivesInTime, ArchiveRun, Finish
  <2>2. /\ run'.archivedAt = TRUE /\ ~run.archivedAt /\ run'.status = run.status
        /\ run'.cancelledFromStatus = run.cancelledFromStatus
        /\ run'.cancelRevision = run.cancelRevision /\ UNCHANGED evidence
    BY <1>1, <1>2 DEF ArchiveRun, RunRows
  <2> QED BY <1>1, <2>1, <2>2, OneRequestCommits DEF Cycle!Archive, Cycle!Ended, ArchivableStatuses
<1>3. CASE RestoreRun(p)
  <2>1. /\ run'.archivedAt = FALSE /\ run.archivedAt /\ run'.status = run.status
        /\ run'.cancelledFromStatus = run.cancelledFromStatus
        /\ run'.cancelRevision = run.cancelRevision /\ UNCHANGED evidence
    BY <1>1, <1>3 DEF RestoreRun, RunRows
  <2> QED BY <2>1 DEF Cycle!Restore
<1>4. CASE RetireCommits(p)
  <2>1. req[p].pc = "locked" /\ req' = [req EXCEPT ![p] = Idle]
    BY <1>4 DEF RetireCommits, Commit, Finish, At
  <2>2. run'.cancelRevision = run.cancelRevision + 1 /\ run.cancelRevision \in Nat
    BY <1>1, <1>4, CancelTakesNextRevision DEF RunRows
  <2>3. StatusStep
    BY <1>4, CancelsKeepStatus
  <2>4. Cycle!Retire
    BY <2>2, <2>3 DEF StatusStep, ComesBack, Cycle!Open, Cycle!StartRostering, Cycle!Publish,
       Cycle!Become, Cycle!Cancel, Cycle!Start, Cycle!Mark, Cycle!Complete
  <2> QED BY <1>1, <2>1, <2>4, OneRequestCommits
<1> QED BY <1>2, <1>3, <1>4

\* What comes back is not archived.
LEMMA ReactivatedIsNotArchived ==
    ASSUME IInv, ArchiveInv, Next, ComesBack
    PROVE  Cycle!Reactivate
<1>1. run.cancelledFromStatus # NoStatus /\ run'.cancelledFromStatus = NoStatus
  BY DEF ComesBack, PreStartStatuses, NoStatus
<1>2. PICK p \in Requests : ReactivateCommits(p)
  BY <1>1, WhoWritesTheRun, StartCommitIsFirst, CancelTakesNextRevision
<1>3. ~run.archivedAt
  BY <1>2 DEF ReactivateCommits, At, ArchiveInv
<1> QED BY <1>3 DEF ComesBack, Cycle!Reactivate, Cycle!NotStarted, PreStartStatuses, NoStatus

\* No step of RunCycle archives a Run that has not ended, or brings back one
\* that is archived.
LEMMA CycleKeepsArchiving ==
    ASSUME ArchivedRunsHaveEnded, [Cycle!Next]_(Cycle!cycleVars)
    PROVE  ArchivedRunsHaveEnded'
  BY DEF ArchivedRunsHaveEnded, ArchivableStatuses, Cycle!cycleVars, Cycle!Next, Cycle!Open,
     Cycle!StartRostering, Cycle!Publish, Cycle!Become, Cycle!Cancel, Cycle!Retire, Cycle!EndCycle,
     Cycle!Reactivate, Cycle!Start, Cycle!Mark, Cycle!Complete, Cycle!Archive, Cycle!Restore,
     Cycle!Ended

\* The invariant of the lifecycle with its unlocked writes in time.
TimelyInv == IInv /\ StatusInv /\ ArchiveInv

\* Step simulation: each step is a step of RunCycle or changes nothing there.
LEMMA NextFollowsCycle ==
    ASSUME TimelyInv, Next, StatusWritesInTime, ArchivesInTime
    PROVE  TimelyInv' /\ [Cycle!Next]_(Cycle!cycleVars)
<1>1. IInv /\ StatusInv /\ ArchiveInv /\ IInv' /\ StatusInv' /\ StatusStep
  BY NextKeepsIInv, NextMakesStatusStep DEF TimelyInv
<1>2. /\ run'.archivedAt # run.archivedAt => Cycle!Archive \/ Cycle!Restore \/ Cycle!Retire
      /\ run'.archivedAt # run.archivedAt /\ run'.archivedAt =>
             \A q \in Requests : req'[q].pc # "locked"
  BY <1>1, WhoArchives, ArchivingSteps
<1>3. [Cycle!Next]_(Cycle!cycleVars)
  <2>1. CASE run'.archivedAt # run.archivedAt
    BY <1>2, <2>1 DEF Cycle!Next
  <2>2. CASE run'.archivedAt = run.archivedAt
    BY <1>1, <2>2, ReactivatedIsNotArchived DEF StatusStep, Cycle!Next, Cycle!cycleVars
  <2> QED BY <2>1, <2>2
<1>4. ArchivedRunsHaveEnded'
  BY <1>1, <1>3, CycleKeepsArchiving DEF ArchiveInv
<1>5. ASSUME NEW q \in Requests, req'[q].pc = "locked", req'[q].op = "reactivateRun"
      PROVE  ~run'.archivedAt
  <2>1. CASE run'.archivedAt # run.archivedAt
    BY <1>2, <1>5, <2>1
  <2>2. CASE run'.archivedAt = run.archivedAt /\ req[q].pc = "locked" /\ req'[q].op = req[q].op
    BY <1>1, <1>5, <2>2 DEF ArchiveInv
  <2>3. CASE ReadStep(q)
    <3>1. req \in [Requests -> ReqRows] /\ UNCHANGED run
      BY <1>1, <2>3, LoadsAndReadsChangeNoRow DEF IInv, TypeOK
    <3>2. ReactivateReads(q)
      BY <1>5, <2>3, <3>1 DEF ReadStep, CancelReads, RetireReads, PublishReads, StartReads,
         CompleteReads, LockAndRead, At, ReqRows
    <3> QED BY <3>1, <3>2 DEF ReactivateReads, CanReactivateRun
  <2> QED BY <1>1, <1>5, <2>1, <2>2, <2>3, WhoTakesTheLock
<1> QED BY <1>1, <1>3, <1>4, <1>5 DEF TimelyInv, ArchiveInv

\* A created Run is where RunCycle begins.
LEMMA InitFollowsCycle == Init => TimelyInv /\ Cycle!Init
<1> SUFFICES ASSUME Init PROVE TimelyInv /\ Cycle!Init
  OBVIOUS
<1>1. ArchiveInv
  BY DEF Init, ArchiveInv, ArchivedRunsHaveEnded, CreatedRun, Idle
<1>2. Cycle!Init
  BY DEF Init, CreatedRun, Cycle!Init, NoStatus
<1> QED BY <1>1, <1>2, InitIInv, InitStatusInv DEF TimelyInv

\* A step that changes nothing.
LEMMA StutterFollowsCycle ==
    ASSUME TimelyInv, UNCHANGED lifecycleVars
    PROVE  TimelyInv' /\ UNCHANGED Cycle!cycleVars
<1>1. IInv' /\ StatusInv'
  BY NextKeepsIInv, StatusKept DEF TimelyInv, lifecycleVars
<1> QED BY <1>1 DEF TimelyInv, lifecycleVars, ArchiveInv, ArchivedRunsHaveEnded, Cycle!cycleVars

\* The lifecycle implements RunCycle when openRun, the move to ROSTERING and
\* archiveRun write in time: what every other operation needs, the roster lock
\* gives it.
THEOREM TimelyLifecycleFollowsCycle == TimelySpec => FollowsCycle
<1>1. TimelyInv /\ [Next /\ StatusWritesInTime /\ ArchivesInTime]_lifecycleVars =>
          TimelyInv' /\ [Cycle!Next]_(Cycle!cycleVars)
  BY NextFollowsCycle, StutterFollowsCycle
<1> QED BY <1>1, InitFollowsCycle, PTL DEF TimelySpec, FollowsCycle, Cycle!Spec

\* Then an archived Run has ended, whatever was restored, reactivated and
\* archived again before.
THEOREM ArchivedRunsStayEnded == TimelySpec => []ArchivedRunsHaveEnded
<1>1. TimelyInv /\ [Next /\ StatusWritesInTime /\ ArchivesInTime]_lifecycleVars => TimelyInv'
  BY NextFollowsCycle, StutterFollowsCycle
<1>2. TimelyInv => ArchivedRunsHaveEnded
  BY DEF TimelyInv, ArchiveInv
<1> QED BY <1>1, <1>2, InitFollowsCycle, PTL DEF TimelySpec

\* And a cancelled Run has exactly one snapshot to come back from.
THEOREM TimelySnapshotFollowsStatus == TimelySpec => []CancelledHasSnapshot
<1>1. TimelyInv /\ [Next /\ StatusWritesInTime /\ ArchivesInTime]_lifecycleVars => TimelyInv'
  BY NextFollowsCycle, StutterFollowsCycle
<1>2. TimelyInv => CancelledHasSnapshot
  BY DEF TimelyInv, StatusInv, Agree, CancelledHasSnapshot
<1> QED BY <1>1, <1>2, InitFollowsCycle, PTL DEF TimelySpec

-----------------------------------------------------------------------------
(* The same without the stale writers, for the code as it is.              *)

\* No request ever opens a Run or moves it to ROSTERING.
LEMMA NoStaleWrites ==
    ASSUME Ops \cap StaleStatusWriters = {}, CycleInv
    PROVE  StatusWritesInTime
  BY DEF CycleInv, StaleStatusWriters, StatusWritesInTime, OpenRun, StartRostering, At

\* The steps of a lifecycle without stale status writers.
LEMMA FreshStatusSteps ==
    ASSUME Ops \cap StaleStatusWriters = {}
    PROVE  Spec => [][StatusInv /\ IInv /\ StatusStep]_lifecycleVars
<1>1. CycleInv => StatusWritesInTime
  BY NoStaleWrites
<1>2. IInv /\ CycleInv /\ [Next]_lifecycleVars => CycleInv'
  BY NextKeepsCycleInv
<1>3. IInv /\ StatusInv /\ StatusWritesInTime /\ [Next]_lifecycleVars => StatusInv' /\ StatusStep
  BY NextMakesStatusStep
<1> QED BY <1>1, <1>2, <1>3, InitCycleInv, InitStatusInv, IInvAlways, PTL DEF Spec

\* Take the stale status writers away and nothing but Reactivate takes a Run out
\* of CANCELLED.
THEOREM CancelledOnlyByReactivate ==
    ASSUME Ops \cap StaleStatusWriters = {}
    PROVE  Spec => OnlyReactivateLeavesCancelled
<1>1. StatusStep => (run.status = "CANCELLED" /\ run'.status # "CANCELLED" =>
                         run'.cancelledFromStatus = NoStatus)
  BY DEF StatusStep, ComesBack, Cycle!Open, Cycle!StartRostering, Cycle!Publish, Cycle!Become,
     Cycle!Cancel, Cycle!Retire, Cycle!EndCycle, Cycle!Start, Cycle!Mark, Cycle!Complete
<1> QED BY <1>1, FreshStatusSteps, PTL DEF OnlyReactivateLeavesCancelled

\* Take the stale status writers away and a Run in progress only moves on along
\* RUN_TRANSITIONS.
THEOREM StartedRunsMoveOn ==
    ASSUME Ops \cap StaleStatusWriters = {}
    PROVE  Spec => StartedRunsKeepTheirStatus
<1>1. StatusStep => (run.status = "IN_PROGRESS" =>
          run'.status \in {"IN_PROGRESS"} \cup
              {s \in RunStatuses : CanTransitionRun("IN_PROGRESS", s)})
  BY DEF StatusStep, ComesBack, Cycle!Open, Cycle!StartRostering, Cycle!Publish, Cycle!Become,
     Cycle!Cancel, Cycle!Retire, Cycle!EndCycle, Cycle!NotStarted, Cycle!Start, Cycle!Mark,
     Cycle!Complete, CanTransitionRun, RunTransitions, RunStatuses
<1> QED BY <1>1, FreshStatusSteps, PTL DEF StartedRunsKeepTheirStatus

\* Take archiveRun away as well and the code as it is implements RunCycle.
THEOREM LockedLifecycleFollowsCycle ==
    ASSUME Ops \cap (StaleStatusWriters \cup {"archiveRun"}) = {}
    PROVE  Spec => FollowsCycle
<1>1. CycleInv => StatusWritesInTime /\ ArchivesInTime
  BY NoStaleWrites DEF CycleInv, ArchivesInTime, ArchiveRun, At
<1>2. IInv /\ CycleInv /\ [Next]_lifecycleVars => CycleInv'
  BY NextKeepsCycleInv
<1>3. TimelyInv /\ StatusWritesInTime /\ ArchivesInTime /\ [Next]_lifecycleVars =>
          TimelyInv' /\ [Cycle!Next]_(Cycle!cycleVars)
  BY NextFollowsCycle, StutterFollowsCycle
<1> QED BY <1>1, <1>2, <1>3, InitCycleInv, InitFollowsCycle, IInvAlways, PTL
        DEF Spec, FollowsCycle, Cycle!Spec
=============================================================================
