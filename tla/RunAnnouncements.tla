-------------------------- MODULE RunAnnouncements --------------------------
(***************************************************************************)
(* The durable channel announcements of one Run (RunDiscordAnnouncement):  *)
(* an outbox that the lifecycle transactions write in the same commit as   *)
(* the Run row and that the Discord bot empties.  This module adds the     *)
(* table to RunLifecycle and leaves the bot abstract: it may report any    *)
(* outcome for a row at any time (DiscordSync says how it gets there).     *)
(*                                                                         *)
(* A row is named by its source key: a type and a revision, so a repeated  *)
(* insert of the same key does nothing.                                    *)
(***************************************************************************)
EXTENDS RunLifecycle, FiniteSets

CONSTANT MaxEdits   \* bound on the announced edits and help requests, per type

ASSUME AnnouncementAssumption == MaxEdits \in Nat

VARIABLE ann   \* delivery status of every source key

announcementVars == <<run, roster, evidence, lock, req, ann>>

CycleTypes == {"RUN_CANCELLED", "RUN_REACTIVATED"}   \* revision = cancelRevision
EditTypes == {"RUN_RESCHEDULED", "RUN_SCOPE_CHANGED", "LATE_FILL_HELP"}
Keys == (CycleTypes \X (1..MaxCancels)) \cup (EditTypes \X (1..MaxEdits))

Terminal == {"SENT", "SKIPPED", "FAILED_PERMANENT"}
DeliveryStatuses == {"ABSENT", "PENDING"} \cup Terminal

\* insertAnnouncementIgnoreDuplicateTx, for every key of one transaction.
InsertIgnoreDuplicate(table, keys) ==
    [k \in Keys |-> IF k \in keys /\ table[k] = "ABSENT" THEN "PENDING" ELSE table[k]]

\* Faulty variant: the undelivered message of the other cycle is left alone.
FaultySkipPending(table, k) == table
\* UPDATE ... SET status = SKIPPED WHERE sourceKey = k AND status = PENDING
SkipPending(table, k) ==
    IF k \in Keys /\ table[k] = "PENDING" THEN [table EXCEPT ![k] = "SKIPPED"] ELSE table

AnnInit == Init /\ ann = [k \in Keys |-> "ABSENT"]

-----------------------------------------------------------------------------
(* The commits that announce. *)

\* Faulty variant: the source key has the revision before the increment.
FaultyCancelAnnounces(p) ==
    /\ CancelCommits(p)
    /\ LET revision == req[p].kept.revision
       IN ann' = InsertIgnoreDuplicate(SkipPending(ann, <<"RUN_REACTIVATED", revision>>),
                                       {<<"RUN_CANCELLED", revision>>})
\* Cancel: retire the undelivered reactivation of the cycle before, announce
\* this cancellation.
CancelAnnounces(p) ==
    /\ CancelCommits(p)
    /\ LET revision == req[p].kept.revision
       IN ann' = InsertIgnoreDuplicate(SkipPending(ann, <<"RUN_REACTIVATED", revision>>),
                                       {<<"RUN_CANCELLED", revision + 1>>})

\* Reactivate: suppress the undelivered cancellation, announce the return.
ReactivateAnnounces(p) ==
    /\ ReactivateCommits(p)
    /\ LET revision == req[p].kept.revision
       IN ann' = InsertIgnoreDuplicate(SkipPending(ann, <<"RUN_CANCELLED", revision>>),
                                       {<<"RUN_REACTIVATED", revision>>})

\* The next revision of an edit counter (scheduleRevision, contentRevision) or
\* the next help request.
NextRevision(type) == 1 + Cardinality({r \in 1..MaxEdits : ann[<<type, r>>] # "ABSENT"})

\* Edit Run: RUN_RESCHEDULED when the start moved, RUN_SCOPE_CHANGED when the
\* raid content changed and the Run was not a DRAFT when it was loaded.
EditTypesOf(p) == {"RUN_RESCHEDULED"} \cup
                  (IF req[p].kept.status # "DRAFT" THEN {"RUN_SCOPE_CHANGED"} ELSE {})

\* The revision is the one loaded plus one.  The edit version compared under the
\* lock covers the form's fields and not the revisions: an edit that others made
\* and took back in between goes unnoticed, so an older key may come again.
EditKeysOf(p) == {k \in EditTypesOf(p) \X (1..MaxEdits) : k[2] <= NextRevision(k[1])}

EditAnnounces(p) ==
    \E keys \in SUBSET EditKeysOf(p), effect \in RosterEffects, moved \in BOOLEAN :
        /\ \A k, l \in keys : k[1] = l[1] => k = l
        /\ keys # {} => effect = "MARK_CHANGED"
        /\ UpdatePreStart(p, effect, moved)
        /\ ann' = InsertIgnoreDuplicate(ann, keys)

\* A help request is always a new row.
HelpAnnounces(p) ==
    /\ NextRevision("LATE_FILL_HELP") <= MaxEdits
    /\ RequestHelp(p)
    /\ ann' = InsertIgnoreDuplicate(ann, {<<"LATE_FILL_HELP", NextRevision("LATE_FILL_HELP")>>})

AnnouncingStep(p) == \/ CancelAnnounces(p) \/ ReactivateAnnounces(p)
                     \/ EditAnnounces(p) \/ HelpAnnounces(p)

\* Steps of a request that leave the announcements alone.  The schedule's own
\* retirement is one of them.
QuietStep(p) == /\ \/ LoadStep(p) \/ ReadStep(p) \/ WriteStep(p) \/ Fail(p)
                   \/ RetireCommits(p)
                /\ UNCHANGED ann

\* Faulty variant: the report does not look at the row it updates.
FaultyUpdateStatusIfPending(k, result) == ann' = [ann EXCEPT ![k] = result]
\* updateStatusIfPending: compare-and-set, a late report changes nothing.
UpdateStatusIfPending(k, result) ==
    ann' = IF ann[k] = "PENDING" THEN [ann EXCEPT ![k] = result] ELSE ann

\* The bot reports an outcome for a row it once listed.
BotReports(k) ==
    /\ ann[k] # "ABSENT"
    /\ \E result \in Terminal : UpdateStatusIfPending(k, result)
    /\ UNCHANGED lifecycleVars

AnnNext ==
    \/ \E p \in Requests : \/ AnnouncingStep(p) \/ QuietStep(p)
                           \/ ClearArchiveArtifacts(p) /\ UNCHANGED ann
    \/ (MarkAttendance \/ ReplaceParticipant \/ PlayerStep) /\ UNCHANGED ann
    \/ \E k \in Keys : BotReports(k)

AnnSpec == AnnInit /\ [][AnnNext]_announcementVars

-----------------------------------------------------------------------------
(* Properties. *)

\* Every source key has a delivery status.
AnnTypeOK == ann \in [Keys -> DeliveryStatuses]

\* As long as no stale status write can undo a Cancel, a cancellation that is
\* still to be announced is the current one: its revision is the Run's
\* cancelRevision and nobody reactivated the Run since.  Cancel-Reactivate
\* cycles never leave an old "Run cancelled" behind for the bot to post.
PendingCancelIsCurrent ==
    Ops \cap StaleStatusWriters = {} => \A r \in 1..MaxCancels : ann[<<"RUN_CANCELLED", r>>] = "PENDING" =>
        r = run.cancelRevision /\ run.cancelledFromStatus # NoStatus

\* The announcements of one cancellation cycle are never both waiting: the bot
\* cannot find "cancelled" and "reactivated" of the same revision to post.
OneCycleMessagePending ==
    \A r \in 1..MaxCancels :
        ~(ann[<<"RUN_CANCELLED", r>>] = "PENDING" /\ ann[<<"RUN_REACTIVATED", r>>] = "PENDING")

\* No Cancel and no Reactivate commits without its announcement: the key is
\* new (the duplicate check can never swallow it) and it waits for the bot.
\* The schedule's retirement of an unused Run announces nothing on purpose.
CyclesAreAnnounced ==
    [][/\ \A r \in 1..MaxCancels :
             run'.cancelRevision = r /\ run.cancelRevision < r
             /\ (\E p \in Requests : At(p, "cancelRun", "locked")) =>
                 ann[<<"RUN_CANCELLED", r>>] = "ABSENT" /\ ann'[<<"RUN_CANCELLED", r>>] = "PENDING"
       /\ \A r \in 1..MaxCancels :
             run.cancelRevision = r /\ run.cancelledFromStatus # NoStatus
             /\ run'.cancelledFromStatus = NoStatus =>
                 ann[<<"RUN_REACTIVATED", r>>] = "ABSENT" /\ ann'[<<"RUN_REACTIVATED", r>>] = "PENDING"
      ]_announcementVars

\* A settled announcement stays settled, whatever the bot reports later and
\* whichever cycle follows ("a stale bot SENT report must not revive SKIPPED").
SettledIsFinal ==
    [][\A k \in Keys : ann[k] \in Terminal => ann'[k] = ann[k]]_announcementVars

=============================================================================
