----------------------------- MODULE DiscordSync -----------------------------
(***************************************************************************)
(* The Discord bot's sync pass for one Run (discord-bot/sync-loop.ts) over *)
(* the website's bot API (discord-sync.service.ts): it posts the pending   *)
(* announcements, retires the channel of an archived Run and provisions    *)
(* the channel of an open one, while managers change the Run.              *)
(*                                                                         *)
(* The bot works from a list it fetched at the start of the pass and asks  *)
(* again before each irreversible act, but Discord and the database have   *)
(* no common transaction: every API or Discord call is a step of its own.  *)
(* Players' signups and attendance changes touch nothing that is read here *)
(* and are left out of the composition.                                    *)
(***************************************************************************)
EXTENDS RunAnnouncements

CONSTANTS MaxChannels,   \* bound on Discord channels created for the Run
          MaxPeriods,    \* bound on the active periods of the Run
          MaxFaults      \* bound on crashes and failed or lost calls

ASSUME SyncAssumption == /\ MaxChannels \in Nat
                         /\ MaxPeriods \in Nat \ {0}
                         /\ MaxFaults \in Nat

VARIABLES post,      \* RunDiscordPost: channel identity and archive artifacts
          discord,   \* the Run's channels in Discord: live ones, number created
          posts,     \* messages posted per announcement
          memory,    \* postedAnnouncementIds of the bot process
          bot,       \* the sync pass
          period,    \* the active period of the Run: 1 + its restores
          faults     \* faults so far; lost: Discord's answer never arrived

websiteVars == <<announcementVars, period>>
botVars == <<post, discord, posts, memory, bot>>
syncVars == <<websiteVars, botVars, faults>>

NoKey == <<"NONE", 0>>
NoChannel == 0
Channels == 1..MaxChannels

\* A pass: its phase, the announcement lane, the listed announcements that are
\* left, the one in hand, and what the work list and the reconciliation said of
\* the channel (fresh: created in this pass, not recorded yet).
BotPhases == {"idle", "listed", "reconcile", "lane", "send", "report", "retire", "transcribe",
              "record", "confirmDelete", "delete", "gone", "provision", "recordChannel",
              "signupPost"}
BotRows == [pc : BotPhases, lane : {"early", "late"}, todo : SUBSET Keys, key : Keys \cup {NoKey},
            channel : Channels \cup {NoChannel}, fresh : Channels \cup {NoChannel},
            resolved : BOOLEAN, retire : BOOLEAN, artifactsNeeded : BOOLEAN,
            transcript : 0..MaxPeriods, signup : BOOLEAN, create : BOOLEAN]
IdleBot == [pc |-> "idle", lane |-> "early", todo |-> {}, key |-> NoKey,
            channel |-> NoChannel, fresh |-> NoChannel, resolved |-> FALSE,
            retire |-> FALSE, artifactsNeeded |-> FALSE, transcript |-> 0,
            signup |-> FALSE, create |-> FALSE]

SyncInit == /\ AnnInit
            /\ post = [runChannelId |-> NoChannel, signupMessage |-> FALSE,
                       signupPostedAt |-> FALSE, artifacts |-> 0]
            /\ discord = [live |-> {}, created |-> 0]
            /\ posts = [k \in Keys |-> 0]
            /\ memory = {}
            /\ bot = IdleBot
            /\ period = 1
            /\ faults = [failed |-> 0, lost |-> 0]

-----------------------------------------------------------------------------
(* Managers: the lifecycle requests beside the bot. *)

\* A restore opens a new active period: what is written in the channel from
\* now on is not in a transcript taken before.
Period == IF run.archivedAt /\ ~run'.archivedAt THEN period + 1 ELSE period

RequestStep(p) ==
    /\ \/ (QuietStep(p) \/ AnnouncingStep(p)) /\ UNCHANGED post
       \* the artifacts of the archived channel are cleared
       \/ ClearArchiveArtifacts(p) /\ post' = [post EXCEPT !.artifacts = 0] /\ UNCHANGED ann
    \* loadPingableRun also asks for a channel
    /\ req[p] = Idle /\ req'[p].op = "lateFillHelp" => post.runChannelId # NoChannel
    /\ Period <= MaxPeriods
    /\ period' = Period
    /\ UNCHANGED <<discord, posts, memory, bot, faults>>

-----------------------------------------------------------------------------
(* listSyncWork and channel reconciliation. *)

Go(phase) == [bot EXCEPT !.pc = phase]
\* Frames of the bot's steps: nothing outside the pass, or only one variable.
PassOnly == UNCHANGED <<websiteVars, post, discord, posts, memory, faults>>
ReportOnly == UNCHANGED <<lifecycleVars, period, post, discord, posts, faults>>
PostOnly == UNCHANGED <<websiteVars, discord, posts, memory, faults>>

\* listPending, one of the queries that run before the Runs are loaded.
ListPending ==
    /\ bot.pc = "idle"
    /\ bot' = [Go("listed") EXCEPT !.todo = {k \in Keys : ann[k] = "PENDING"}]
    /\ PassOnly

\* A channel is only created in a week bucket other than ARCHIVE, the bucket of
\* every archived Run (the calendar weeks are left out).
EligibleForFirstProvisioning ==
    IsSignupWindowOpen(run.status, run.signupsOpen) /\ ~run.archivedAt
EligibleForContinuityRecovery ==
    /\ ~run.archivedAt
    /\ run.status \in SignupWindowStatuses
    /\ post.runChannelId = NoChannel
    /\ post.signupPostedAt

\* An existing signup message is listed when its signature changed.
SignupListed(changed) ==
    /\ run.status # "DRAFT"
    /\ \/ post.signupMessage /\ changed
       \/ /\ ~post.signupMessage
          /\ EligibleForFirstProvisioning \/ EligibleForContinuityRecovery

\* Only archivedAt authorizes retirement, and pending rows must finish first.
ShouldRetireChannelNow ==
    post.runChannelId # NoChannel /\ run.archivedAt /\ bot.todo = {}

ListRuns ==
    /\ bot.pc = "listed"
    /\ \E changed \in BOOLEAN :
           bot' = [Go("reconcile") EXCEPT
                      !.channel = post.runChannelId,
                      !.retire = ShouldRetireChannelNow,
                      !.artifactsNeeded = ShouldRetireChannelNow /\ post.artifacts = 0,
                      !.signup = SignupListed(changed),
                      !.create = EligibleForFirstProvisioning \/ EligibleForContinuityRecovery]
    /\ PassOnly

\* clearDeletedChannelIdentity: compare-and-set on the channel id.
ChannelGone == post' = IF post.runChannelId = bot.channel
                       THEN [post EXCEPT !.runChannelId = NoChannel, !.signupMessage = FALSE]
                       ELSE post

\* reconcileChannels: a channel that is gone in Discord is recorded once, and
\* the pass has no resolved channel for the Run.
ReconcileChannels ==
    /\ bot.pc = "reconcile"
    /\ IF bot.channel # NoChannel /\ bot.channel \notin discord.live
       THEN ChannelGone ELSE UNCHANGED post
    /\ bot' = [Go("lane") EXCEPT !.resolved = bot.channel \in discord.live]
    /\ PostOnly

-----------------------------------------------------------------------------
(* The announcement lanes: RUN_REACTIVATED waits until after provisioning. *)

InLane(k) == (bot.lane = "late") <=> (k[1] = "RUN_REACTIVATED")
\* Faulty variant: the item in hand is not forgotten.
FaultyDrop(k) == [bot EXCEPT !.pc = "lane", !.todo = @ \ {k}]
\* The lane is done with an item, whatever became of it.
Drop(k) == [bot EXCEPT !.pc = "lane", !.todo = @ \ {k}, !.key = NoKey]

\* getRunAnnouncementDeliveryAuthority
DeliveryAuthority(k) ==
    /\ ann[k] = "PENDING"
    /\ k[1] = "RUN_CANCELLED" => run.status = "CANCELLED" /\ k[2] = run.cancelRevision
    /\ k[1] = "RUN_REACTIVATED" => run.status # "CANCELLED" /\ k[2] = run.cancelRevision
    /\ k[1] = "RUN_SCOPE_CHANGED" => run.status # "CANCELLED"
    /\ k[1] = "LATE_FILL_HELP" => ~run.archivedAt /\ run.status \in SignupWindowStatuses

\* Faulty variant: without a channel every announcement waits.
FaultyAnnounceWithoutChannel(k) ==
    /\ bot.pc = "lane" /\ k \in bot.todo /\ InLane(k)
    /\ bot.channel = NoChannel
    /\ bot' = Drop(k)
    /\ PassOnly
\* syncRunAnnouncement without a channel: SKIPPED, except a reactivation.
AnnounceWithoutChannel(k) ==
    /\ bot.pc = "lane" /\ k \in bot.todo /\ InLane(k)
    /\ bot.channel = NoChannel
    /\ IF k[1] = "RUN_REACTIVATED" THEN UNCHANGED ann ELSE UpdateStatusIfPending(k, "SKIPPED")
    /\ bot' = Drop(k)
    /\ ReportOnly /\ UNCHANGED memory

ConfirmDelivery(k) ==
    /\ bot.pc = "lane" /\ k \in bot.todo /\ InLane(k)
    /\ bot.channel # NoChannel
    /\ bot' = IF DeliveryAuthority(k) THEN [Go("send") EXCEPT !.key = k] ELSE Drop(k)
    /\ PassOnly

\* Help messages carry an enforced nonce: Discord does not post them twice.
Posted(k) == posts' = [posts EXCEPT ![k] = IF k[1] = "LATE_FILL_HELP" THEN 1 ELSE @ + 1]

\* Faulty variant: the process does not remember what it posted.
FaultyRemember(k) == UNCHANGED memory
\* postedAnnouncementIds.add
Remember(k) == memory' = memory \cup {k}

SendAnnouncement ==
    /\ bot.pc = "send"
    /\ bot.key \notin memory
    /\ bot.channel \in discord.live
    /\ Posted(bot.key)
    /\ Remember(bot.key)
    /\ bot' = Go("report")
    /\ UNCHANGED <<websiteVars, post, discord, faults>>

\* Unknown Channel, or a help request without a configured ping role.
CannotSend ==
    /\ bot.pc = "send"
    /\ bot.key \notin memory
    /\ \/ bot.channel \notin discord.live /\ UpdateStatusIfPending(bot.key, "FAILED_PERMANENT")
       \/ bot.key[1] = "LATE_FILL_HELP" /\ UpdateStatusIfPending(bot.key, "SKIPPED")
    /\ bot' = Drop(bot.key)
    /\ ReportOnly /\ UNCHANGED memory

\* The SENT report; also all that a retry does for a message it remembers.
ReportSent ==
    /\ bot.pc = "report" \/ (bot.pc = "send" /\ bot.key \in memory)
    /\ UpdateStatusIfPending(bot.key, "SENT")
    /\ memory' = memory \ {bot.key}
    /\ bot' = Drop(bot.key)
    /\ ReportOnly

LaneDone ==
    /\ bot.pc = "lane"
    /\ \A k \in bot.todo : ~InLane(k)
    /\ bot' = IF bot.lane = "late" THEN IdleBot
              ELSE Go(IF bot.retire THEN "retire" ELSE "provision")
    /\ PassOnly

-----------------------------------------------------------------------------
(* syncArchiveArtifacts and deleteArchivedRunChannel. *)

\* confirmChannelRetirement, first check.
ConfirmRetirement ==
    /\ bot.pc = "retire"
    /\ bot' = Go(IF ~run.archivedAt THEN "provision"
                 ELSE IF bot.artifactsNeeded THEN "transcribe" ELSE "confirmDelete")
    /\ PassOnly

\* The transcript is read and posted to the archive log channel.
Transcribe ==
    /\ bot.pc = "transcribe"
    /\ IF bot.channel \in discord.live
       THEN bot' = [Go("record") EXCEPT !.transcript = period] /\ UNCHANGED post
       ELSE bot' = Go("provision") /\ ChannelGone
    /\ PostOnly

\* recordArchiveArtifacts: an unconditional upsert.
RecordArtifacts ==
    /\ bot.pc = "record"
    /\ post' = [post EXCEPT !.artifacts = bot.transcript]
    /\ bot' = [Go("confirmDelete") EXCEPT !.transcript = 0]
    /\ PostOnly

\* Faulty variant: the channel of a cancelled Run is kept for good.
FaultyMayDelete == run.archivedAt /\ run.status = "COMPLETED"
\* shouldRetireRunChannel, asked again immediately before the delete.
MayDelete == run.archivedAt

ConfirmDelete ==
    /\ bot.pc = "confirmDelete"
    /\ bot' = Go(IF MayDelete THEN "delete" ELSE "provision")
    /\ PassOnly

DeleteChannel ==
    /\ bot.pc = "delete"
    /\ discord' = [discord EXCEPT !.live = @ \ {bot.channel}]
    /\ bot' = Go("gone")
    /\ UNCHANGED <<websiteVars, post, posts, memory, faults>>

\* recordRetiredChannelGone
RecordChannelGone ==
    /\ bot.pc = "gone"
    /\ ChannelGone
    /\ bot' = Go("provision")
    /\ PostOnly

-----------------------------------------------------------------------------
(* resolveRunChannel and syncSignupPost. *)

ToLateLane == [Go("lane") EXCEPT !.lane = "late"]

\* Nothing listed; or the channel resolved in this pass is used; or the stored
\* channel is gone and may not be replaced.
ResolveRunChannel ==
    /\ bot.pc = "provision"
    /\ ~bot.signup \/ bot.resolved \/ ~bot.create \/ discord.created = MaxChannels
    /\ bot' = IF bot.signup /\ bot.resolved THEN Go("signupPost") ELSE ToLateLane
    /\ IF bot.signup /\ ~bot.resolved /\ ~bot.create THEN ChannelGone ELSE UNCHANGED post
    /\ PostOnly

\* No usable channel: a new one is created and then recorded.
CreateChannel ==
    /\ bot.pc = "provision"
    /\ bot.signup /\ ~bot.resolved /\ bot.create
    /\ discord.created < MaxChannels
    /\ discord' = [live |-> discord.live \cup {discord.created + 1}, created |-> discord.created + 1]
    /\ bot' = [Go("recordChannel") EXCEPT !.fresh = discord.created + 1]
    /\ UNCHANGED <<websiteVars, post, posts, memory, faults>>

\* Faulty variant: the id is only stored with the signup message.
FaultyRecordRunChannel == UNCHANGED post
\* recordRunChannel: the id is stored before any message is posted.
RecordRunChannel == post' = [post EXCEPT !.runChannelId = bot.fresh]

RecordChannel ==
    /\ bot.pc = "recordChannel"
    /\ RecordRunChannel
    /\ bot' = [Go("signupPost") EXCEPT !.channel = bot.fresh, !.fresh = NoChannel, !.resolved = TRUE]
    /\ PostOnly

\* The signup message is edited or sent and recorded; recordSignupPost stores
\* the channel id again.
SignupPost ==
    /\ bot.pc = "signupPost"
    /\ post' = IF bot.channel \in discord.live
               THEN [post EXCEPT !.runChannelId = bot.channel, !.signupMessage = TRUE,
                                 !.signupPostedAt = TRUE]
               ELSE post
    /\ bot' = ToLateLane
    /\ PostOnly

-----------------------------------------------------------------------------
(* Faults.  Every lane catches its errors: the pass goes on without the item.*)

Faulty(kind) == /\ faults.failed + faults.lost < MaxFaults
                /\ faults' = [faults EXCEPT ![kind] = @ + 1]
                /\ UNCHANGED websiteVars

\* Faulty variant: the id is remembered before the send.
FaultySendFails ==
    /\ bot.pc = "send" /\ bot.key \notin memory /\ bot.channel \in discord.live
    /\ Faulty("failed")
    /\ Remember(bot.key)
    /\ bot' = Drop(bot.key)
    /\ UNCHANGED <<post, discord, posts>>
\* The send or the report of its outcome fails and nothing was posted, or the
\* send succeeds and the answer is lost.
SendFails ==
    /\ bot.pc = "send"
    /\ \/ Faulty("failed") /\ UNCHANGED posts
       \/ /\ bot.key \notin memory /\ bot.channel \in discord.live
          /\ Faulty("lost") /\ Posted(bot.key)
    /\ bot' = Drop(bot.key)
    /\ UNCHANGED <<post, discord, memory>>

\* The SENT report fails: the posted message is remembered for the next pass.
\* Or the authority check or the report of a missing channel fails.
ReportFails ==
    /\ \/ bot.pc = "report" /\ bot' = Drop(bot.key)
       \/ bot.pc = "lane" /\ \E k \in bot.todo : InLane(k) /\ bot' = Drop(k)
    /\ Faulty("failed")
    /\ UNCHANGED <<post, discord, posts, memory>>

\* Faulty variant: the deletion does not wait for a failed record.
FaultyRetirementFails ==
    /\ bot.pc \in {"retire", "transcribe", "record", "confirmDelete", "delete", "gone"}
    /\ Faulty("failed")
    /\ bot' = Go(IF bot.pc = "record" THEN "confirmDelete" ELSE "provision")
    /\ UNCHANGED <<post, discord, posts, memory>>
\* A call of the retirement fails, or it is put off for the log link scan.
RetirementFails ==
    /\ bot.pc \in {"retire", "transcribe", "record", "confirmDelete", "delete", "gone"}
    /\ Faulty("failed")
    /\ bot' = Go("provision")
    /\ UNCHANGED <<post, discord, posts, memory>>

\* The channel is not created or its message is not posted; or it was created
\* and its id never reached the website.
ProvisioningFails ==
    /\ \/ bot.pc \in {"provision", "signupPost"} /\ bot.signup /\ Faulty("failed")
       \/ bot.pc = "recordChannel" /\ Faulty("lost")
    /\ bot' = [ToLateLane EXCEPT !.fresh = NoChannel]
    /\ UNCHANGED <<post, discord, posts, memory>>

\* The bot process restarts in the middle of a pass: its memory is gone.
BotCrashes ==
    /\ bot # IdleBot \/ memory # {}
    /\ Faulty("lost")
    /\ bot' = IdleBot
    /\ memory' = {}
    /\ UNCHANGED <<post, discord, posts>>

\* Somebody deletes the Run's channels in Discord.
ChannelDeletedOutside ==
    /\ discord.live # {}
    /\ Faulty("failed")
    /\ discord' = [discord EXCEPT !.live = {}]
    /\ UNCHANGED <<post, posts, memory, bot>>

-----------------------------------------------------------------------------
AnnouncementLane ==
    \/ \E k \in Keys : AnnounceWithoutChannel(k) \/ ConfirmDelivery(k)
    \/ SendAnnouncement \/ CannotSend \/ ReportSent \/ LaneDone

RetirementLane == \/ ConfirmRetirement \/ Transcribe \/ RecordArtifacts
                  \/ ConfirmDelete \/ DeleteChannel \/ RecordChannelGone

SignupLane == ResolveRunChannel \/ CreateChannel \/ RecordChannel \/ SignupPost

BotStep == \/ ListPending \/ ListRuns \/ ReconcileChannels
           \/ AnnouncementLane \/ RetirementLane \/ SignupLane

Fault == \/ SendFails \/ ReportFails \/ RetirementFails \/ ProvisioningFails
         \/ BotCrashes \/ ChannelDeletedOutside

SyncNext == (\E p \in Requests : RequestStep(p)) \/ BotStep \/ Fault

SyncSpec == SyncInit /\ [][SyncNext]_syncVars

\* The bot keeps working: startSyncLoop triggers a pass on an interval, a pass
\* that failed is retried on the next tick, and every lane goes on after an error.
FairSyncSpec == SyncSpec /\ WF_syncVars(BotStep)

-----------------------------------------------------------------------------
(* Properties. *)

\* Every variable of the pass and of the stored Discord state keeps its type,
\* and the pass holds an announcement exactly while it sends and reports it.
SyncTypeOK ==
    /\ AnnTypeOK
    /\ post \in [runChannelId : Channels \cup {NoChannel}, signupMessage : BOOLEAN,
                 signupPostedAt : BOOLEAN, artifacts : 0..MaxPeriods]
    /\ discord \in [live : SUBSET Channels, created : 0..MaxChannels]
    /\ posts \in [Keys -> Nat]
    /\ memory \subseteq Keys
    /\ bot \in BotRows
    /\ bot.key # NoKey <=> bot.pc \in {"send", "report"}
    /\ period \in 1..MaxPeriods
    /\ faults \in [failed : Nat, lost : Nat]

\* A row says SENT only when its message is in Discord: neither a failed send
\* nor a crash between send and report turns into a SENT that nobody saw.
SentWasPosted == \A k \in Keys : ann[k] = "SENT" => posts[k] >= 1

\* A message is posted twice only when Discord's answer was lost or the bot
\* process died after the send.  A failed SENT report alone never repeats the
\* message: the retry only reports (postedAnnouncementIds).
DuplicatesNeedALostAnswer == \A k \in Keys : posts[k] <= 1 + faults.lost

\* Every live channel of the Run is the stored one or the one being recorded:
\* a crash, a failed signup message or a recovery after a deletion leaves no
\* second channel behind, except when a created channel's id was lost itself.
ChannelsAreTracked ==
    Cardinality(discord.live \ {post.runChannelId, bot.fresh}) <= faults.lost

\* In the first active period the bot is never about to delete a channel whose
\* transcript is not stored, whatever failed or crashed on the way.
TranscriptBeforeDelete == bot.pc = "delete" /\ period = 1 => post.artifacts = 1

\* Every announced cancellation and every announced reschedule is settled in
\* the end, with or without a channel, through failed calls and restarts.
AnnouncementsSettle ==
    \A k \in Keys : k[1] \in {"RUN_CANCELLED", "RUN_RESCHEDULED"} =>
        (ann[k] = "PENDING" ~> ann[k] \in Terminal)

SomethingPending == \E k \in Keys : ann[k] = "PENDING"

\* The channel of an archived Run without pending announcements is retired,
\* unless the Run is restored or something new has to be announced first.
ArchivedChannelIsRetired ==
    run.archivedAt /\ ~SomethingPending
        ~> post.runChannelId = NoChannel \/ ~run.archivedAt \/ SomethingPending

\* What DEVELOPER.md says of archiving: the next passes post what is pending,
\* write the transcript and delete the channel.
ArchivingDeletesTheChannel ==
    run.archivedAt ~> post.runChannelId = NoChannel \/ ~run.archivedAt

\* What run-discord-post.repository.ts says of a restore: the artifacts are
\* cleared so that a later re-archive posts them again.  A pass that lists the
\* channel for retirement as already transcribed has the transcript of the
\* period that ended with this archive.
RearchiveWritesANewTranscript ==
    [][bot.pc = "listed" /\ bot'.pc = "reconcile" /\ bot'.retire =>
          bot'.artifactsNeeded \/ post.artifacts = period]_syncVars
=============================================================================
