---------------------- MODULE RunAnnouncements_proofs ----------------------
(***************************************************************************)
(* TLAPS proofs about RunAnnouncements.  Every step of the outbox is a     *)
(* step of RunLifecycle or leaves the Run alone, so IInv carries over; the *)
(* announcements then need an invariant that ties the revisions of the     *)
(* rows to the Run's cancellation cycle.                                   *)
(***************************************************************************)
EXTENDS RunAnnouncements, RunLifecycle_proofs

\* Rows exist only for cycles that began, a reactivation row only for a cycle
\* that ended, and then the cancellation of that cycle is settled.
CycleRows ==
    \A r \in 1..MaxCancels :
        /\ ann[<<"RUN_CANCELLED", r>>] # "ABSENT" => r <= run.cancelRevision
        /\ ann[<<"RUN_REACTIVATED", r>>] # "ABSENT" =>
               /\ r <= run.cancelRevision
               /\ r = run.cancelRevision => run.cancelledFromStatus = NoStatus
               /\ ann[<<"RUN_CANCELLED", r>>] # "PENDING"

AnnInv == IInv /\ AnnTypeOK /\ CycleRows

\* The keys of a cancellation cycle are source keys.
LEMMA CycleKeys ==
    ASSUME NEW r \in 1..MaxCancels
    PROVE  <<"RUN_CANCELLED", r>> \in Keys /\ <<"RUN_REACTIVATED", r>> \in Keys
  BY DEF Keys, CycleTypes

\* Rows of different types or revisions are different rows.
LEMMA KeysDiffer ==
    ASSUME NEW a, NEW b, NEW c, NEW d, <<a, b>> = <<c, d>>
    PROVE  a = c /\ b = d
  OBVIOUS

\* What the three writes of the table do to each row.
LEMMA InsertEffect ==
    ASSUME NEW table \in [Keys -> DeliveryStatuses], NEW ks
    PROVE  /\ InsertIgnoreDuplicate(table, ks) \in [Keys -> DeliveryStatuses]
           /\ \A k \in Keys : InsertIgnoreDuplicate(table, ks)[k] =
                 IF k \in ks /\ table[k] = "ABSENT" THEN "PENDING" ELSE table[k]
  BY DEF InsertIgnoreDuplicate, DeliveryStatuses

LEMMA SkipEffect ==
    ASSUME NEW table \in [Keys -> DeliveryStatuses], NEW k
    PROVE  /\ SkipPending(table, k) \in [Keys -> DeliveryStatuses]
           /\ \A j \in Keys : SkipPending(table, k)[j] =
                 IF j = k /\ table[j] = "PENDING" THEN "SKIPPED" ELSE table[j]
  BY DEF SkipPending, DeliveryStatuses, Terminal

\* A report changes at most one PENDING row, to a settled one.
LEMMA ReportEffect ==
    ASSUME AnnTypeOK, NEW k \in Keys, NEW result \in Terminal, UpdateStatusIfPending(k, result)
    PROVE  /\ AnnTypeOK'
           /\ \A j \in Keys : ann'[j] = ann[j] \/ (ann[j] = "PENDING" /\ ann'[j] \in Terminal)
  BY DEF AnnTypeOK, UpdateStatusIfPending, DeliveryStatuses

\* Every step of the outbox is a lifecycle step or leaves the Run alone.
LEMMA AnnNextIsLifecycle == [AnnNext]_announcementVars => [Next]_lifecycleVars
<1>1. ASSUME NEW p \in Requests, EditAnnounces(p) PROVE EditStep(p)
  BY <1>1 DEF EditAnnounces, EditStep
<1>2. ASSUME NEW p \in Requests, AnnouncingStep(p) PROVE Next
  BY <1>1, <1>2 DEF AnnouncingStep, CancelAnnounces, ReactivateAnnounces, HelpAnnounces, Next
<1>3. ASSUME NEW p \in Requests, QuietStep(p) PROVE Next
  BY <1>3 DEF QuietStep, Next
<1>4. ASSUME NEW k \in Keys, BotReports(k) PROVE UNCHANGED lifecycleVars
  BY <1>4 DEF BotReports
<1>5. ASSUME UNCHANGED announcementVars PROVE UNCHANGED lifecycleVars
  BY <1>5 DEF announcementVars, lifecycleVars
<1> QED BY <1>2, <1>3, <1>4, <1>5 DEF AnnNext, Next

\* A step that does not end or begin a cycle and adds no cycle rows keeps the
\* invariant of the rows.
LEMMA RowsKept ==
    ASSUME AnnInv, run'.cancelRevision = run.cancelRevision,
           run'.cancelledFromStatus = run.cancelledFromStatus,
           \A k \in Keys : k[1] \in CycleTypes =>
               ann'[k] = ann[k] \/ (ann[k] = "PENDING" /\ ann'[k] \in Terminal)
    PROVE  CycleRows'
<1> SUFFICES ASSUME NEW r \in 1..MaxCancels
             PROVE  /\ ann'[<<"RUN_CANCELLED", r>>] # "ABSENT" => r <= run.cancelRevision
                    /\ ann'[<<"RUN_REACTIVATED", r>>] # "ABSENT" =>
                           /\ r <= run.cancelRevision
                           /\ r = run.cancelRevision => run.cancelledFromStatus = NoStatus
                           /\ ann'[<<"RUN_CANCELLED", r>>] # "PENDING"
  BY DEF CycleRows
<1> DEFINE c == <<"RUN_CANCELLED", r>>
           d == <<"RUN_REACTIVATED", r>>
<1>1. c \in Keys /\ d \in Keys /\ c[1] \in CycleTypes /\ d[1] \in CycleTypes
  BY CycleKeys DEF CycleTypes
<1>2. /\ ann'[c] = ann[c] \/ (ann[c] = "PENDING" /\ ann'[c] \in Terminal)
      /\ ann'[d] = ann[d] \/ (ann[d] = "PENDING" /\ ann'[d] \in Terminal)
  BY <1>1
<1>3. /\ ann[c] # "ABSENT" => r <= run.cancelRevision
      /\ ann[d] # "ABSENT" => /\ r <= run.cancelRevision
                              /\ r = run.cancelRevision => run.cancelledFromStatus = NoStatus
                              /\ ann[c] # "PENDING"
  BY DEF AnnInv, CycleRows
<1> QED BY <1>2, <1>3 DEF Terminal

\* Cancel opens the next cycle: its row is new and waits.
LEMMA CancelKeepsRows ==
    ASSUME AnnInv, NEW p \in Requests, CancelAnnounces(p)
    PROVE  /\ AnnTypeOK' /\ CycleRows'
           /\ \A r \in 1..MaxCancels : r = run.cancelRevision + 1 =>
                  /\ ann[<<"RUN_CANCELLED", r>>] = "ABSENT"
                  /\ ann'[<<"RUN_CANCELLED", r>>] = "PENDING"
           /\ \A k \in Keys : ann[k] \in Terminal => ann'[k] = ann[k]
<1> DEFINE n == run.cancelRevision
           skipped == SkipPending(ann, <<"RUN_REACTIVATED", n>>)
<1>1. /\ n \in Nat /\ req[p].kept.revision = n
      /\ run'.cancelRevision = n + 1
  BY CancelTakesNextRevision DEF AnnInv, IInv, TypeOK, RunRows, LockedReadsHold, CancelAnnounces,
     CancelCommits, Commit, At
<1>2. /\ skipped \in [Keys -> DeliveryStatuses]
      /\ \A j \in Keys : skipped[j] = IF j = <<"RUN_REACTIVATED", n>> /\ ann[j] = "PENDING"
                                      THEN "SKIPPED" ELSE ann[j]
  BY SkipEffect DEF AnnInv, AnnTypeOK
<1>3. ann' = InsertIgnoreDuplicate(skipped, {<<"RUN_CANCELLED", n + 1>>})
  BY <1>1 DEF CancelAnnounces
<1> HIDE DEF skipped
<1>4. /\ ann' \in [Keys -> DeliveryStatuses]
      /\ \A k \in Keys : ann'[k] = IF k = <<"RUN_CANCELLED", n + 1>> /\ skipped[k] = "ABSENT"
                                   THEN "PENDING" ELSE skipped[k]
  BY <1>2, <1>3, InsertEffect
<1>5. ASSUME NEW r \in 1..MaxCancels
      PROVE  /\ ann'[<<"RUN_CANCELLED", r>>] # "ABSENT" => r <= n + 1
             /\ ann'[<<"RUN_REACTIVATED", r>>] # "ABSENT" =>
                    r <= n /\ ann'[<<"RUN_CANCELLED", r>>] # "PENDING"
             /\ r = n + 1 => /\ ann[<<"RUN_CANCELLED", r>>] = "ABSENT"
                             /\ ann'[<<"RUN_CANCELLED", r>>] = "PENDING"
  <2> DEFINE c == <<"RUN_CANCELLED", r>>
             d == <<"RUN_REACTIVATED", r>>
  <2>1. c \in Keys /\ d \in Keys /\ c # <<"RUN_REACTIVATED", n>> /\ d # <<"RUN_CANCELLED", n + 1>>
    BY CycleKeys
  <2>2. /\ skipped[c] = ann[c]
        /\ skipped[d] # "ABSENT" => ann[d] # "ABSENT"
    BY <1>2, <2>1
  <2>3. /\ ann'[d] = skipped[d]
        /\ ann'[c] = IF r = n + 1 /\ ann[c] = "ABSENT" THEN "PENDING" ELSE ann[c]
    BY <1>4, <2>1, <2>2
  <2>4. /\ ann[c] # "ABSENT" => r <= n
        /\ ann[d] # "ABSENT" => r <= n /\ ann[c] # "PENDING"
    BY DEF AnnInv, CycleRows
  <2> QED BY <1>1, <2>2, <2>3, <2>4
<1>6. CycleRows'
  <2> SUFFICES ASSUME NEW r \in 1..MaxCancels
               PROVE  /\ ann'[<<"RUN_CANCELLED", r>>] # "ABSENT" => r <= run'.cancelRevision
                      /\ ann'[<<"RUN_REACTIVATED", r>>] # "ABSENT" =>
                             /\ r <= run'.cancelRevision
                             /\ r = run'.cancelRevision => run'.cancelledFromStatus = NoStatus
                             /\ ann'[<<"RUN_CANCELLED", r>>] # "PENDING"
    BY DEF CycleRows
  <2>1. r \in Nat /\ (r <= n => r # n + 1 /\ r <= n + 1)
    BY <1>1, LifecycleAssumption
  <2> QED BY <1>1, <1>5, <2>1
<1>7. \A k \in Keys : ann[k] \in Terminal => ann'[k] = ann[k]
  BY <1>2, <1>4 DEF Terminal
<1> QED BY <1>1, <1>4, <1>5, <1>6, <1>7 DEF AnnTypeOK

\* Reactivate ends the current cycle: the cancellation is settled, and the row
\* of the return is new and waits.
LEMMA ReactivateKeepsRows ==
    ASSUME AnnInv, NEW p \in Requests, ReactivateAnnounces(p)
    PROVE  /\ AnnTypeOK' /\ CycleRows'
           /\ \A r \in 1..MaxCancels : r = run.cancelRevision =>
                  /\ ann[<<"RUN_REACTIVATED", r>>] = "ABSENT"
                  /\ ann'[<<"RUN_REACTIVATED", r>>] = "PENDING"
                  /\ ann'[<<"RUN_CANCELLED", r>>] # "PENDING"
           /\ \A r \in 1..MaxCancels : r # run.cancelRevision =>
                  ann'[<<"RUN_CANCELLED", r>>] = ann[<<"RUN_CANCELLED", r>>]
           /\ \A k \in Keys : ann[k] \in Terminal => ann'[k] = ann[k]
<1> DEFINE n == run.cancelRevision
           skipped == SkipPending(ann, <<"RUN_CANCELLED", n>>)
<1>1. /\ n \in Nat /\ req[p].kept.revision = n /\ run.cancelledFromStatus # NoStatus
      /\ run'.cancelRevision = n /\ run'.cancelledFromStatus = NoStatus
  BY DEF AnnInv, IInv, TypeOK, RunRows, LockedReadsHold, ReactivateAnnounces, ReactivateCommits, At
<1>2. /\ skipped \in [Keys -> DeliveryStatuses]
      /\ \A j \in Keys : skipped[j] = IF j = <<"RUN_CANCELLED", n>> /\ ann[j] = "PENDING"
                                      THEN "SKIPPED" ELSE ann[j]
  BY SkipEffect DEF AnnInv, AnnTypeOK
<1>3. ann' = InsertIgnoreDuplicate(skipped, {<<"RUN_REACTIVATED", n>>})
  BY <1>1 DEF ReactivateAnnounces
<1> HIDE DEF skipped
<1>4. /\ ann' \in [Keys -> DeliveryStatuses]
      /\ \A k \in Keys : ann'[k] = IF k = <<"RUN_REACTIVATED", n>> /\ skipped[k] = "ABSENT"
                                   THEN "PENDING" ELSE skipped[k]
  BY <1>2, <1>3, InsertEffect
<1>5. ASSUME NEW r \in 1..MaxCancels
      PROVE  /\ ann'[<<"RUN_CANCELLED", r>>] # "ABSENT" => r <= n
             /\ ann'[<<"RUN_REACTIVATED", r>>] # "ABSENT" =>
                    r <= n /\ ann'[<<"RUN_CANCELLED", r>>] # "PENDING"
             /\ r = n => /\ ann[<<"RUN_REACTIVATED", r>>] = "ABSENT"
                         /\ ann'[<<"RUN_REACTIVATED", r>>] = "PENDING"
                         /\ ann'[<<"RUN_CANCELLED", r>>] # "PENDING"
             /\ r # n => ann'[<<"RUN_CANCELLED", r>>] = ann[<<"RUN_CANCELLED", r>>]
  <2> DEFINE c == <<"RUN_CANCELLED", r>>
             d == <<"RUN_REACTIVATED", r>>
  <2>1. c \in Keys /\ d \in Keys /\ d # <<"RUN_CANCELLED", n>> /\ c # <<"RUN_REACTIVATED", n>>
    BY CycleKeys
  <2>2. /\ skipped[d] = ann[d]
        /\ skipped[c] = IF r = n /\ ann[c] = "PENDING" THEN "SKIPPED" ELSE ann[c]
    BY <1>2, <2>1
  <2>3. /\ ann'[c] = skipped[c]
        /\ ann'[d] = IF r = n /\ ann[d] = "ABSENT" THEN "PENDING" ELSE ann[d]
    BY <1>4, <2>1, <2>2
  <2>4. /\ ann[c] # "ABSENT" => r <= n
        /\ ann[d] # "ABSENT" => r <= n /\ r # n /\ ann[c] # "PENDING"
    BY <1>1 DEF AnnInv, CycleRows
  <2>5. r \in Nat
    BY LifecycleAssumption
  <2> QED BY <1>1, <2>2, <2>3, <2>4, <2>5
<1>6. CycleRows'
  BY <1>1, <1>5 DEF CycleRows
<1>7. \A k \in Keys : ann[k] \in Terminal => ann'[k] = ann[k]
  BY <1>2, <1>4 DEF Terminal
<1> QED BY <1>1, <1>4, <1>5, <1>6, <1>7 DEF AnnTypeOK

\* Edits and help requests add rows of their own types only.
LEMMA EditsAddEditRows ==
    ASSUME AnnTypeOK, NEW p \in Requests, EditAnnounces(p) \/ HelpAnnounces(p)
    PROVE  /\ AnnTypeOK' /\ UNCHANGED run
           /\ \A k \in Keys : /\ k[1] \in CycleTypes => ann'[k] = ann[k]
                              /\ ann[k] \in Terminal => ann'[k] = ann[k]
<1>1. PICK ks : /\ ann' = InsertIgnoreDuplicate(ann, ks)
                /\ \A k \in ks : k[1] \in EditTypes
  <2>1. CASE EditAnnounces(p)
    <3>1. PICK ks \in SUBSET EditKeysOf(p) : ann' = InsertIgnoreDuplicate(ann, ks)
      BY <2>1 DEF EditAnnounces
    <3>2. \A k \in ks : k[1] \in EditTypes
      BY DEF EditKeysOf, EditTypesOf, EditTypes
    <3> QED BY <3>1, <3>2
  <2>2. CASE HelpAnnounces(p)
    BY <2>2 DEF HelpAnnounces, EditTypes
  <2> QED BY <2>1, <2>2
<1>2. /\ ann' \in [Keys -> DeliveryStatuses]
      /\ \A k \in Keys : ann'[k] = IF k \in ks /\ ann[k] = "ABSENT" THEN "PENDING" ELSE ann[k]
  BY <1>1, InsertEffect DEF AnnTypeOK
<1>3. \A t \in CycleTypes : t \notin EditTypes
  BY DEF CycleTypes, EditTypes
<1>4. UNCHANGED run
  BY DEF EditAnnounces, UpdatePreStart, HelpAnnounces, RequestHelp
<1> QED BY <1>1, <1>2, <1>3, <1>4 DEF AnnTypeOK, Terminal

\* The steps beside the announcing ones, the schedule's retirement and the bot.
OtherStep ==
    \/ \E p \in Requests : \/ LoadStep(p) \/ ReadStep(p) \/ WriteStep(p) \/ Fail(p)
                           \/ ClearArchiveArtifacts(p)
    \/ MarkAttendance \/ ReplaceParticipant \/ PlayerStep
    \/ UNCHANGED lifecycleVars

\* They leave the cancellation columns of the Run alone.
LEMMA OtherStepsKeepTheCycle ==
    ASSUME IInv, OtherStep
    PROVE  /\ run'.cancelRevision = run.cancelRevision
           /\ run'.cancelledFromStatus = run.cancelledFromStatus
<1>1. run \in RunRows
  BY DEF IInv, TypeOK
<1>2. ASSUME NEW p \in Requests, LoadStep(p) \/ ReadStep(p) PROVE UNCHANGED run
  BY <1>2, LoadsAndReadsChangeNoRow
<1>3. ASSUME NEW p \in Requests, WriteStep(p)
      PROVE  /\ run'.cancelRevision = run.cancelRevision
             /\ run'.cancelledFromStatus = run.cancelledFromStatus
  BY <1>1, <1>3 DEF WriteStep, OpenRun, SetSignupWindow, SaveDraft, AddParticipant, DraftWrite,
     StartRostering, PublishCommits, UpdateRoster, StartCommits, CompleteCommits, ArchiveRun,
     RestoreRun, RunRows
<1>4. ASSUME NEW p \in Requests, Fail(p) \/ ClearArchiveArtifacts(p) PROVE UNCHANGED run
  BY <1>4 DEF Fail, ClearArchiveArtifacts
<1>5. ASSUME MarkAttendance \/ ReplaceParticipant \/ PlayerStep PROVE UNCHANGED run
  BY <1>5 DEF MarkAttendance, ReplaceParticipant, PlayerStep, PlayerSignsUp, PlayerLeaves,
     ClearDraftSelections
<1> QED BY <1>2, <1>3, <1>4, <1>5 DEF OtherStep, lifecycleVars

\* What a step of the outbox can be.
LEMMA AnnNextCases ==
    ASSUME [AnnNext]_announcementVars
    PROVE  \/ \E p \in Requests : CancelAnnounces(p)
           \/ \E p \in Requests : ReactivateAnnounces(p)
           \/ \E p \in Requests : EditAnnounces(p) \/ HelpAnnounces(p)
           \/ \E k \in Keys : BotReports(k)
           \/ UNCHANGED ann /\ \E p \in Requests : RetireCommits(p)
           \/ UNCHANGED ann /\ OtherStep
<1>1. ASSUME UNCHANGED announcementVars PROVE UNCHANGED ann /\ OtherStep
  BY <1>1 DEF announcementVars, OtherStep, lifecycleVars
<1>2. ASSUME NEW p \in Requests, QuietStep(p)
      PROVE  UNCHANGED ann /\ (RetireCommits(p) \/ OtherStep)
  BY <1>2 DEF QuietStep, OtherStep
<1> QED BY <1>1, <1>2 DEF AnnNext, AnnouncingStep, OtherStep

\* The schedule's retirement opens a cycle without rows.
LEMMA RetireKeepsRows ==
    ASSUME AnnInv, UNCHANGED ann, NEW p \in Requests, RetireCommits(p)
    PROVE  CycleRows'
<1>1. /\ run.cancelRevision \in Nat /\ run'.cancelRevision = run.cancelRevision + 1
  BY CancelTakesNextRevision DEF AnnInv, IInv, TypeOK, RunRows
<1> SUFFICES ASSUME NEW r \in 1..MaxCancels, r <= run.cancelRevision
             PROVE  r <= run'.cancelRevision /\ r # run'.cancelRevision
  BY DEF AnnInv, CycleRows
<1>2. r \in Nat
  BY LifecycleAssumption
<1> QED BY <1>1, <1>2

\* The invariant of the outbox is inductive.
LEMMA AnnNextKeepsAnnInv == AnnInv /\ [AnnNext]_announcementVars => AnnInv'
<1> SUFFICES ASSUME AnnInv, [AnnNext]_announcementVars PROVE AnnTypeOK' /\ CycleRows'
  BY AnnNextIsLifecycle, NextKeepsIInv DEF AnnInv
<1>1. CASE \E p \in Requests : CancelAnnounces(p)
  BY <1>1, CancelKeepsRows
<1>2. CASE \E p \in Requests : ReactivateAnnounces(p)
  BY <1>2, ReactivateKeepsRows
<1>3. CASE \E p \in Requests : EditAnnounces(p) \/ HelpAnnounces(p)
  BY <1>3, EditsAddEditRows, RowsKept DEF AnnInv
<1>4. CASE \E k \in Keys : BotReports(k)
  <2>1. PICK k \in Keys, result \in Terminal : UpdateStatusIfPending(k, result)
    BY <1>4 DEF BotReports
  <2>2. UNCHANGED run
    BY <1>4 DEF BotReports, lifecycleVars
  <2> QED BY <2>1, <2>2, ReportEffect, RowsKept DEF AnnInv
<1>5. CASE UNCHANGED ann /\ \E p \in Requests : RetireCommits(p)
  BY <1>5, RetireKeepsRows DEF AnnInv, AnnTypeOK
<1>6. CASE UNCHANGED ann /\ OtherStep
  BY <1>6, OtherStepsKeepTheCycle, RowsKept DEF AnnInv, AnnTypeOK
<1> QED BY <1>1, <1>2, <1>3, <1>4, <1>5, <1>6, AnnNextCases

\* At the beginning there are no rows.
LEMMA InitAnnInv == AnnInit => AnnInv
<1> SUFFICES ASSUME AnnInit PROVE AnnTypeOK /\ CycleRows
  BY InitIInv DEF AnnInit, AnnInv
<1>1. AnnTypeOK
  BY DEF AnnInit, AnnTypeOK, DeliveryStatuses
<1>2. CycleRows
  BY CycleKeys DEF AnnInit, CycleRows
<1> QED BY <1>1, <1>2

-----------------------------------------------------------------------------
\* The invariant holds in every reachable state.
THEOREM AnnInvAlways == AnnSpec => []AnnInv
  BY InitAnnInv, AnnNextKeepsAnnInv, PTL DEF AnnSpec

\* "Cancelled" and "reactivated" of one cycle never wait together, with any
\* number of concurrent requests and whatever the bot reports.
THEOREM OneCycleMessageAlways == AnnSpec => []OneCycleMessagePending
<1>1. AnnInv => OneCycleMessagePending
  BY DEF AnnInv, CycleRows, OneCycleMessagePending
<1> QED BY <1>1, AnnInvAlways, PTL

\* A settled announcement is never touched again.
THEOREM SettledStaysSettled == AnnSpec => SettledIsFinal
<1>1. AnnInv /\ [AnnNext]_announcementVars =>
          [\A k \in Keys : ann[k] \in Terminal => ann'[k] = ann[k]]_announcementVars
  <2> SUFFICES ASSUME AnnInv, [AnnNext]_announcementVars,
                      NEW j \in Keys, ann[j] \in Terminal
               PROVE  ann'[j] = ann[j]
    OBVIOUS
  <2>1. CASE \E k \in Keys : BotReports(k)
    <3>1. PICK k \in Keys, result \in Terminal : UpdateStatusIfPending(k, result)
      BY <2>1 DEF BotReports
    <3>2. ann[j] # "PENDING"
      BY DEF Terminal
    <3> QED BY <3>1, <3>2, ReportEffect DEF AnnInv
  <2>2. CASE \E p \in Requests : EditAnnounces(p) \/ HelpAnnounces(p)
    BY <2>2, EditsAddEditRows DEF AnnInv
  <2> QED BY <2>1, <2>2, AnnNextCases, CancelKeepsRows, ReactivateKeepsRows
<1> QED BY <1>1, AnnInvAlways, PTL DEF AnnSpec, SettledIsFinal

\* The two kinds of step that begin or end a cycle in a Run with a transaction
\* that is about to cancel: the schedule's retirement is not one of them.
LEMMA OneCancelAtATime ==
    ASSUME IInv, NEW p \in Requests, NEW q \in Requests,
           At(p, "cancelRun", "locked"), RetireCommits(q)
    PROVE  FALSE
<1>1. lock = p /\ lock = q
  BY DEF IInv, LockDiscipline, RetireCommits, Commit, At
<1> QED BY <1>1 DEF RetireCommits, Commit, At

\* No Cancel and no Reactivate commits without its own, new announcement.
THEOREM CyclesAlwaysAnnounced == AnnSpec => CyclesAreAnnounced
<1> DEFINE Announced ==
        /\ \A r \in 1..MaxCancels :
              run'.cancelRevision = r /\ run.cancelRevision < r
              /\ (\E p \in Requests : At(p, "cancelRun", "locked")) =>
                  ann[<<"RUN_CANCELLED", r>>] = "ABSENT" /\ ann'[<<"RUN_CANCELLED", r>>] = "PENDING"
        /\ \A r \in 1..MaxCancels :
              run.cancelRevision = r /\ run.cancelledFromStatus # NoStatus
              /\ run'.cancelledFromStatus = NoStatus =>
                  ann[<<"RUN_REACTIVATED", r>>] = "ABSENT" /\ ann'[<<"RUN_REACTIVATED", r>>] = "PENDING"
<1>1. ASSUME AnnInv, [AnnNext]_announcementVars PROVE Announced
  <2>1. IInv /\ run.cancelRevision \in Nat
    BY <1>1 DEF AnnInv, IInv, TypeOK, RunRows
  <2>2. CASE \E p \in Requests : CancelAnnounces(p)
    <3>1. run'.cancelRevision = run.cancelRevision + 1 /\ run'.cancelledFromStatus # NoStatus
      BY <2>1, <2>2, CancelTakesNextRevision DEF CancelAnnounces
    <3> QED BY <1>1, <2>2, <3>1, CancelKeepsRows
  <2>3. CASE \E p \in Requests : ReactivateAnnounces(p)
    <3>1. run'.cancelRevision = run.cancelRevision
      BY <2>1, <2>3, ReactivateFindsNoStart DEF ReactivateAnnounces
    <3>2. \A r \in 1..MaxCancels : r = run.cancelRevision =>
              ann[<<"RUN_REACTIVATED", r>>] = "ABSENT" /\ ann'[<<"RUN_REACTIVATED", r>>] = "PENDING"
      BY <1>1, <2>3, ReactivateKeepsRows
    <3>3. ~(run'.cancelRevision > run.cancelRevision)
      BY <2>1, <3>1
    <3> QED BY <2>1, <3>1, <3>2, <3>3
  <2>4. CASE \E p \in Requests : RetireCommits(p)
    <3>1. run'.cancelledFromStatus # NoStatus
      BY <2>1, <2>4, CancelTakesNextRevision
    <3> QED BY <2>1, <2>4, <3>1, OneCancelAtATime
  <2>5. ASSUME run'.cancelRevision = run.cancelRevision,
               run'.cancelledFromStatus = run.cancelledFromStatus
        PROVE  Announced
    BY <2>1, <2>5
  <2>6. CASE \E p \in Requests : EditAnnounces(p) \/ HelpAnnounces(p)
    BY <1>1, <2>5, <2>6, EditsAddEditRows DEF AnnInv
  <2>7. CASE \E k \in Keys : BotReports(k)
    BY <2>5, <2>7 DEF BotReports, lifecycleVars
  <2>8. CASE OtherStep
    BY <2>1, <2>5, <2>8, OtherStepsKeepTheCycle
  <2> QED BY <1>1, <2>2, <2>3, <2>4, <2>6, <2>7, <2>8, AnnNextCases
<1>2. AnnInv /\ [AnnNext]_announcementVars => [Announced]_announcementVars
  BY <1>1
<1> QED BY <1>2, AnnInvAlways, PTL DEF AnnSpec, CyclesAreAnnounced

\* Without the stale status writers, the cancellation that waits to be announced
\* is the one the Run is in.
THEOREM PendingCancelAlwaysCurrent == AnnSpec => []PendingCancelIsCurrent
<1> DEFINE Quiet == Ops \cap StaleStatusWriters = {}
           PInv == Quiet => CycleInv /\ PendingCancelIsCurrent
<1>1. AnnInit => PInv
  <2> SUFFICES ASSUME AnnInit PROVE CycleInv /\ PendingCancelIsCurrent
    OBVIOUS
  <2>1. CycleInv
    BY InitCycleInv DEF AnnInit
  <2>2. PendingCancelIsCurrent
    BY CycleKeys DEF AnnInit, PendingCancelIsCurrent
  <2> QED BY <2>1, <2>2
<1>2. AnnInv /\ PInv /\ [AnnNext]_announcementVars => PInv'
  <2> SUFFICES ASSUME AnnInv, Quiet, CycleInv, PendingCancelIsCurrent, [AnnNext]_announcementVars
               PROVE  CycleInv' /\ PendingCancelIsCurrent'
    OBVIOUS
  <2>1. CycleInv'
    BY AnnNextIsLifecycle, NextKeepsCycleInv DEF AnnInv
  <2>2. IInv /\ run.cancelRevision \in Nat
    BY DEF AnnInv, IInv, TypeOK, RunRows
  <2> SUFFICES ASSUME NEW r \in 1..MaxCancels, ann'[<<"RUN_CANCELLED", r>>] = "PENDING"
               PROVE  r = run'.cancelRevision /\ run'.cancelledFromStatus # NoStatus
    BY <2>1 DEF PendingCancelIsCurrent
  <2> DEFINE c == <<"RUN_CANCELLED", r>>
  <2>3. c \in Keys /\ c[1] \in CycleTypes
    BY CycleKeys DEF CycleTypes
  <2>4. ann[c] = "PENDING" => r = run.cancelRevision /\ run.cancelledFromStatus # NoStatus
    BY DEF PendingCancelIsCurrent
  <2>5. CASE \E p \in Requests : CancelAnnounces(p) \/ (UNCHANGED ann /\ RetireCommits(p))
    <3>1. PICK p \in Requests : CancelAnnounces(p) \/ (UNCHANGED ann /\ RetireCommits(p))
      BY <2>5
    <3>2. /\ run'.cancelRevision = run.cancelRevision + 1 /\ run'.cancelledFromStatus # NoStatus
          /\ run.cancelledFromStatus = NoStatus
      BY <2>2, <3>1, CancelTakesNextRevision DEF CancelAnnounces, CancelCommits, RetireCommits,
         Commit, At, CycleInv
    <3>3. ann[c] # "PENDING"
      BY <2>4, <3>2
    <3>4. CASE CancelAnnounces(p)
      <4>1. ann' = InsertIgnoreDuplicate(SkipPending(ann, <<"RUN_REACTIVATED", run.cancelRevision>>),
                                         {<<"RUN_CANCELLED", run.cancelRevision + 1>>})
        BY <2>2, <3>4 DEF CancelAnnounces, CancelCommits, Commit, At, IInv, LockedReadsHold
      <4>2. c = <<"RUN_CANCELLED", run.cancelRevision + 1>>
        BY <2>3, <3>3, <4>1, InsertEffect, SkipEffect DEF AnnInv, AnnTypeOK
      <4> QED BY <3>2, <4>2
    <3> QED BY <3>1, <3>3, <3>4
  <2>6. CASE \E p \in Requests : ReactivateAnnounces(p)
    BY <2>4, <2>6, ReactivateKeepsRows
  <2>7. CASE \E p \in Requests : EditAnnounces(p) \/ HelpAnnounces(p)
    BY <2>3, <2>4, <2>7, EditsAddEditRows DEF AnnInv
  <2>8. CASE \E k \in Keys : BotReports(k)
    <3>1. PICK k \in Keys, result \in Terminal : UpdateStatusIfPending(k, result)
      BY <2>8 DEF BotReports
    <3>2. ann[c] = "PENDING"
      BY <2>3, <3>1, ReportEffect DEF AnnInv, Terminal
    <3> QED BY <2>4, <2>8, <3>2 DEF BotReports, lifecycleVars
  <2>9. CASE UNCHANGED ann /\ OtherStep
    BY <2>2, <2>4, <2>9, OtherStepsKeepTheCycle
  <2> QED BY <2>5, <2>6, <2>7, <2>8, <2>9, AnnNextCases
<1>3. PInv => PendingCancelIsCurrent
  BY DEF PendingCancelIsCurrent
<1> QED BY <1>1, <1>2, <1>3, AnnInvAlways, PTL DEF AnnSpec
=============================================================================
