------------------------- MODULE DiscordSync_proofs -------------------------
(***************************************************************************)
(* TLAPS proofs about DiscordSync.  The bot's pass implements the abstract *)
(* bot of RunAnnouncements: a step of the composition is a step of the     *)
(* outbox or leaves it alone.  What the outbox promises therefore holds    *)
(* beside the real bot, too.                                               *)
(***************************************************************************)
EXTENDS DiscordSync, RunAnnouncements_proofs, FiniteSetTheorems

\* The bot's own variables: SyncTypeOK without the rows.
BotTypeOK ==
    /\ post \in [runChannelId : Channels \cup {NoChannel}, signupMessage : BOOLEAN,
                 signupPostedAt : BOOLEAN, artifacts : 0..MaxPeriods]
    /\ discord \in [live : SUBSET Channels, created : 0..MaxChannels]
    /\ memory \subseteq Keys
    /\ bot \in BotRows
    /\ bot.key # NoKey <=> bot.pc \in {"send", "report"}
    /\ period \in 1..MaxPeriods

\* The pass holds a source key while it sends and reports.
LEMMA KeyInHand ==
    ASSUME BotTypeOK, bot.pc \in {"send", "report"}
    PROVE  bot.key \in Keys
  BY DEF BotTypeOK, BotRows

LEMMA NoKeyIsNoKey == NoKey \notin Keys
  BY DEF NoKey, Keys, CycleTypes, EditTypes

-----------------------------------------------------------------------------
(* Types. *)

LEMMA InitBotTypeOK == SyncInit => BotTypeOK
  BY SyncAssumption DEF SyncInit, BotTypeOK, IdleBot, BotRows, BotPhases, NoChannel, Channels

\* A step of a request keeps the bot's types.
LEMMA RequestKeepsBotTypes ==
    ASSUME BotTypeOK, NEW p \in Requests, RequestStep(p)
    PROVE  BotTypeOK'
<1>1. post' \in [runChannelId : Channels \cup {NoChannel}, signupMessage : BOOLEAN,
                 signupPostedAt : BOOLEAN, artifacts : 0..MaxPeriods]
  BY SyncAssumption DEF RequestStep, BotTypeOK
<1>2. period' \in 1..MaxPeriods
  BY SyncAssumption DEF RequestStep, Period, BotTypeOK
<1> QED BY <1>1, <1>2 DEF RequestStep, BotTypeOK

\* Recording that a channel is gone keeps the type of RunDiscordPost.
LEMMA ChannelGoneType ==
    ASSUME BotTypeOK, ChannelGone
    PROVE  post' \in [runChannelId : Channels \cup {NoChannel}, signupMessage : BOOLEAN,
                      signupPostedAt : BOOLEAN, artifacts : 0..MaxPeriods]
  BY DEF BotTypeOK, ChannelGone

\* Moving on without an item, and returning to a phase without one.
LEMMA DropType ==
    ASSUME BotTypeOK, NEW k \in Keys, bot' = Drop(k)
    PROVE  bot' \in BotRows /\ bot'.key = NoKey /\ bot'.pc = "lane"
  BY DEF BotTypeOK, Drop, BotRows, BotPhases

LEMMA GoType ==
    ASSUME BotTypeOK, NEW phase \in BotPhases \ {"send", "report"},
           bot.pc \notin {"send", "report"}, bot' = Go(phase)
    PROVE  bot' \in BotRows /\ bot'.key = NoKey /\ bot'.pc = phase
  BY DEF BotTypeOK, Go, BotRows

\* The rows of a pass over any sets of truth values and of transcripts.
PassRows(B, T) ==
    [pc : BotPhases, lane : {"early", "late"}, todo : SUBSET Keys, key : Keys \cup {NoKey},
     channel : Channels \cup {NoChannel}, fresh : Channels \cup {NoChannel},
     resolved : B, retire : B, artifactsNeeded : B, transcript : T, signup : B, create : B]

LEMMA BotRowsArePassRows == BotRows = PassRows(BOOLEAN, 0..MaxPeriods)
  BY DEF BotRows, PassRows

\* The row of a pass that has its work list.
LEMMA ListedRow ==
    ASSUME NEW B, NEW T, bot \in PassRows(B, T), NEW channel \in Channels \cup {NoChannel},
           NEW retire \in B, NEW needed \in B, NEW signup \in B, NEW create \in B,
           bot' = [Go("reconcile") EXCEPT !.channel = channel, !.retire = retire,
                      !.artifactsNeeded = needed, !.signup = signup, !.create = create]
    PROVE  bot' \in PassRows(B, T) /\ bot'.key = bot.key /\ bot'.pc = "reconcile"
  BY DEF Go, PassRows, BotPhases

\* The row of a pass that knows whether its channel exists.
LEMMA ReconciledRow ==
    ASSUME NEW B, NEW T, bot \in PassRows(B, T), NEW resolved \in B,
           bot' = [Go("lane") EXCEPT !.resolved = resolved]
    PROVE  bot' \in PassRows(B, T) /\ bot'.key = bot.key /\ bot'.pc = "lane"
  BY DEF Go, PassRows, BotPhases

\* The pass keeps a transcript.
LEMMA TranscriptRow ==
    ASSUME NEW B, NEW T, bot \in PassRows(B, T), NEW phase \in BotPhases, NEW t \in T,
           bot' = [Go(phase) EXCEPT !.transcript = t]
    PROVE  bot' \in PassRows(B, T) /\ bot'.key = bot.key /\ bot'.pc = phase
  BY DEF Go, PassRows

\* One step of the pass, by the phase it is in.
LEMMA ListKeepsBotTypes ==
    ASSUME BotTypeOK, ListPending \/ ListRuns \/ ReconcileChannels
    PROVE  BotTypeOK'
<1>1. CASE ListPending
  BY <1>1 DEF ListPending, PassOnly, websiteVars, Go, BotTypeOK, BotRows, BotPhases
<1>2. CASE ListRuns
  <2>1. post.runChannelId \in Channels \cup {NoChannel}
    BY DEF BotTypeOK
  <2>2. /\ ShouldRetireChannelNow \in BOOLEAN
        /\ (ShouldRetireChannelNow /\ post.artifacts = 0) \in BOOLEAN
        /\ \A changed \in BOOLEAN : SignupListed(changed) \in BOOLEAN
        /\ (EligibleForFirstProvisioning \/ EligibleForContinuityRecovery) \in BOOLEAN
    BY DEF ShouldRetireChannelNow, SignupListed, EligibleForFirstProvisioning
  <2>3. bot' \in BotRows /\ bot'.key = NoKey /\ bot'.pc = "reconcile"
    <3>1. bot \in PassRows(BOOLEAN, 0..MaxPeriods)
      BY BotRowsArePassRows DEF BotTypeOK
    <3>2. PICK retire \in BOOLEAN, needed \in BOOLEAN, signup \in BOOLEAN, create \in BOOLEAN :
              bot' = [Go("reconcile") EXCEPT !.channel = post.runChannelId, !.retire = retire,
                         !.artifactsNeeded = needed, !.signup = signup, !.create = create]
      BY <1>2, <2>2, Zenon DEF ListRuns
    <3>3. bot' \in PassRows(BOOLEAN, 0..MaxPeriods) /\ bot'.key = bot.key /\ bot'.pc = "reconcile"
      BY <2>1, <3>1, <3>2, ListedRow, Zenon
    <3>4. bot.key = NoKey
      BY <1>2 DEF ListRuns, BotTypeOK
    <3> QED BY <3>3, <3>4, BotRowsArePassRows
  <2> QED BY <1>2, <2>3 DEF ListRuns, PassOnly, websiteVars, BotTypeOK
<1>3. CASE ReconcileChannels
  <2>1. bot' \in BotRows /\ bot'.key = NoKey /\ bot'.pc = "lane"
    <3>1. (bot.channel \in discord.live) \in BOOLEAN
      OBVIOUS
    <3> QED BY <1>3, <3>1, ReconciledRow, BotRowsArePassRows DEF ReconcileChannels, BotTypeOK
  <2>2. post' \in [runChannelId : Channels \cup {NoChannel}, signupMessage : BOOLEAN,
                   signupPostedAt : BOOLEAN, artifacts : 0..MaxPeriods]
    BY <1>3, ChannelGoneType DEF ReconcileChannels, BotTypeOK
  <2> QED BY <1>3, <2>1, <2>2 DEF ReconcileChannels, PostOnly, websiteVars, BotTypeOK
<1> QED BY <1>1, <1>2, <1>3

LEMMA AnnouncementsKeepBotTypes ==
    ASSUME BotTypeOK, AnnouncementLane
    PROVE  BotTypeOK'
<1>1. ASSUME NEW k \in Keys, AnnounceWithoutChannel(k) PROVE BotTypeOK'
  BY <1>1, DropType DEF AnnounceWithoutChannel, ReportOnly, BotTypeOK
<1>2. ASSUME NEW k \in Keys, ConfirmDelivery(k) PROVE BotTypeOK'
  <2>1. CASE bot' = Drop(k)
    BY <1>2, <2>1, DropType DEF ConfirmDelivery, PassOnly, websiteVars, BotTypeOK
  <2>2. CASE bot' = [Go("send") EXCEPT !.key = k]
    <3>1. bot' \in BotRows /\ bot'.key = k /\ bot'.pc = "send"
      BY <2>2 DEF Go, BotTypeOK, BotRows, BotPhases
    <3> QED BY <1>2, <3>1, NoKeyIsNoKey DEF ConfirmDelivery, PassOnly, websiteVars, BotTypeOK
  <2> QED BY <1>2, <2>1, <2>2 DEF ConfirmDelivery
<1>3. CASE SendAnnouncement
  <2>1. bot.key \in Keys
    BY <1>3, KeyInHand DEF SendAnnouncement
  <2>2. bot' \in BotRows /\ bot'.key = bot.key /\ bot'.pc = "report"
    BY <1>3 DEF SendAnnouncement, Go, BotTypeOK, BotRows, BotPhases
  <2> QED BY <1>3, <2>1, <2>2, NoKeyIsNoKey DEF SendAnnouncement, Remember, websiteVars, BotTypeOK
<1>4. CASE CannotSend \/ ReportSent
  <2>1. bot.key \in Keys
    BY <1>4, KeyInHand DEF CannotSend, ReportSent
  <2> QED BY <1>4, <2>1, DropType DEF CannotSend, ReportSent, ReportOnly, BotTypeOK
<1>5. CASE LaneDone
  <2>1. bot' \in BotRows /\ bot'.key = NoKey /\ bot'.pc \notin {"send", "report"}
    <3>1. CASE bot' = IdleBot
      BY <3>1, SyncAssumption DEF IdleBot, BotRows, BotPhases, NoChannel
    <3>2. PICK phase \in {"retire", "provision"} : bot' = IdleBot \/ bot' = Go(phase)
      BY <1>5 DEF LaneDone
    <3> QED BY <1>5, <3>1, <3>2, GoType DEF LaneDone, BotPhases
  <2> QED BY <1>5, <2>1 DEF LaneDone, PassOnly, websiteVars, BotTypeOK
<1> QED BY <1>1, <1>2, <1>3, <1>4, <1>5 DEF AnnouncementLane

LEMMA RetirementKeepsBotTypes ==
    ASSUME BotTypeOK, RetirementLane
    PROVE  BotTypeOK'
<1>1. CASE ConfirmRetirement
  <2>1. bot' \in BotRows /\ bot'.key = NoKey /\ bot'.pc \notin {"send", "report"}
    <3>1. PICK phase \in {"provision", "transcribe", "confirmDelete"} : bot' = Go(phase)
      BY <1>1 DEF ConfirmRetirement
    <3> QED BY <1>1, <3>1, GoType DEF ConfirmRetirement, BotPhases
  <2> QED BY <1>1, <2>1 DEF ConfirmRetirement, PassOnly, websiteVars, BotTypeOK
<1>2. CASE Transcribe
  <2>1. bot' \in BotRows /\ bot'.key = NoKey /\ bot'.pc \notin {"send", "report"}
    <3>1. period \in 0..MaxPeriods
      BY DEF BotTypeOK
    <3>2. CASE bot' = [Go("record") EXCEPT !.transcript = period]
      <4>1. bot \in PassRows(BOOLEAN, 0..MaxPeriods) /\ "record" \in BotPhases
        BY BotRowsArePassRows DEF BotTypeOK, BotPhases
      <4>2. bot' \in PassRows(BOOLEAN, 0..MaxPeriods) /\ bot'.key = bot.key /\ bot'.pc = "record"
        BY <3>1, <3>2, <4>1, TranscriptRow, Zenon
      <4>3. bot.key = NoKey
        BY <1>2 DEF Transcribe, BotTypeOK
      <4> QED BY <4>2, <4>3, BotRowsArePassRows
    <3>3. CASE bot' = Go("provision")
      BY <1>2, <3>3, GoType DEF Transcribe, BotPhases
    <3> QED BY <1>2, <3>2, <3>3 DEF Transcribe
  <2> QED BY <1>2, <2>1, ChannelGoneType DEF Transcribe, PostOnly, websiteVars, BotTypeOK
<1>3. CASE RecordArtifacts
  <2>1. bot' \in BotRows /\ bot'.key = NoKey /\ bot'.pc \notin {"send", "report"}
    <3>1. 0 \in 0..MaxPeriods
      BY SyncAssumption
    <3>2. bot \in PassRows(BOOLEAN, 0..MaxPeriods) /\ "confirmDelete" \in BotPhases
      BY BotRowsArePassRows DEF BotTypeOK, BotPhases
    <3>3. bot' = [Go("confirmDelete") EXCEPT !.transcript = 0]
      BY <1>3 DEF RecordArtifacts
    <3>4. bot' \in PassRows(BOOLEAN, 0..MaxPeriods) /\ bot'.key = bot.key
          /\ bot'.pc = "confirmDelete"
      BY <3>1, <3>2, <3>3, TranscriptRow, Zenon
    <3>5. bot.key = NoKey
      BY <1>3 DEF RecordArtifacts, BotTypeOK
    <3> QED BY <3>4, <3>5, BotRowsArePassRows
  <2>2. bot.transcript \in 0..MaxPeriods
    BY DEF BotTypeOK, BotRows
  <2> QED BY <1>3, <2>1, <2>2 DEF RecordArtifacts, PostOnly, websiteVars, BotTypeOK
<1>4. CASE ConfirmDelete
  <2>1. bot' \in BotRows /\ bot'.key = NoKey /\ bot'.pc \notin {"send", "report"}
    BY <1>4 DEF ConfirmDelete, Go, BotTypeOK, BotRows, BotPhases
  <2> QED BY <1>4, <2>1 DEF ConfirmDelete, PassOnly, websiteVars, BotTypeOK
<1>5. CASE DeleteChannel
  <2>1. bot' \in BotRows /\ bot'.key = NoKey /\ bot'.pc \notin {"send", "report"}
    BY <1>5 DEF DeleteChannel, Go, BotTypeOK, BotRows, BotPhases
  <2> QED BY <1>5, <2>1 DEF DeleteChannel, websiteVars, BotTypeOK
<1>6. CASE RecordChannelGone
  <2>1. bot' \in BotRows /\ bot'.key = NoKey /\ bot'.pc \notin {"send", "report"}
    BY <1>6 DEF RecordChannelGone, Go, BotTypeOK, BotRows, BotPhases
  <2> QED BY <1>6, <2>1, ChannelGoneType DEF RecordChannelGone, PostOnly, websiteVars, BotTypeOK
<1> QED BY <1>1, <1>2, <1>3, <1>4, <1>5, <1>6 DEF RetirementLane

LEMMA SignupLaneKeepsBotTypes ==
    ASSUME BotTypeOK, SignupLane
    PROVE  BotTypeOK'
<1>1. CASE ResolveRunChannel
  <2>1. bot' \in BotRows /\ bot'.key = NoKey /\ bot'.pc \notin {"send", "report"}
    BY <1>1 DEF ResolveRunChannel, ToLateLane, Go, BotTypeOK, BotRows, BotPhases
  <2> QED BY <1>1, <2>1, ChannelGoneType DEF ResolveRunChannel, PostOnly, websiteVars, BotTypeOK
<1>2. CASE CreateChannel
  <2>1. discord.created + 1 \in Channels
    BY <1>2, SyncAssumption DEF CreateChannel, BotTypeOK, Channels
  <2>2. bot' \in BotRows /\ bot'.key = NoKey /\ bot'.pc \notin {"send", "report"}
    BY <1>2, <2>1 DEF CreateChannel, Go, BotTypeOK, BotRows, BotPhases
  <2>3. discord' \in [live : SUBSET Channels, created : 0..MaxChannels]
    BY <1>2, <2>1, SyncAssumption DEF CreateChannel, BotTypeOK, Channels
  <2> QED BY <1>2, <2>2, <2>3 DEF CreateChannel, websiteVars, BotTypeOK
<1>3. CASE RecordChannel
  <2>1. bot' \in BotRows /\ bot'.key = NoKey /\ bot'.pc \notin {"send", "report"}
    BY <1>3 DEF RecordChannel, Go, BotTypeOK, BotRows, BotPhases
  <2>2. bot.fresh \in Channels \cup {NoChannel}
    BY DEF BotTypeOK, BotRows
  <2> QED BY <1>3, <2>1, <2>2 DEF RecordChannel, RecordRunChannel, PostOnly, websiteVars, BotTypeOK
<1>4. CASE SignupPost
  <2>1. bot' \in BotRows /\ bot'.key = NoKey /\ bot'.pc \notin {"send", "report"}
    BY <1>4 DEF SignupPost, ToLateLane, Go, BotTypeOK, BotRows, BotPhases
  <2>2. bot.channel \in Channels \cup {NoChannel}
    BY DEF BotTypeOK, BotRows
  <2> QED BY <1>4, <2>1, <2>2 DEF SignupPost, PostOnly, websiteVars, BotTypeOK
<1> QED BY <1>1, <1>2, <1>3, <1>4 DEF SignupLane

LEMMA FaultsKeepBotTypes ==
    ASSUME BotTypeOK, Fault
    PROVE  BotTypeOK'
<1>1. CASE SendFails \/ ReportFails
  <2>1. PICK k \in Keys : bot' = Drop(k)
    BY <1>1, KeyInHand DEF SendFails, ReportFails, BotTypeOK, BotRows
  <2> QED BY <1>1, <2>1, DropType DEF SendFails, ReportFails, Faulty, websiteVars, BotTypeOK
<1>2. CASE RetirementFails
  <2>1. bot' \in BotRows /\ bot'.key = NoKey /\ bot'.pc \notin {"send", "report"}
    BY <1>2 DEF RetirementFails, Go, BotTypeOK, BotRows, BotPhases
  <2> QED BY <1>2, <2>1 DEF RetirementFails, Faulty, websiteVars, BotTypeOK
<1>3. CASE ProvisioningFails
  <2>1. bot' \in BotRows /\ bot'.key = NoKey /\ bot'.pc \notin {"send", "report"}
    BY <1>3 DEF ProvisioningFails, ToLateLane, Go, BotTypeOK, BotRows, BotPhases
  <2> QED BY <1>3, <2>1 DEF ProvisioningFails, Faulty, websiteVars, BotTypeOK
<1>4. CASE BotCrashes
  <2>1. bot' \in BotRows /\ bot'.key = NoKey /\ bot'.pc \notin {"send", "report"}
    BY <1>4, SyncAssumption DEF BotCrashes, IdleBot, BotRows, BotPhases, NoChannel
  <2> QED BY <1>4, <2>1 DEF BotCrashes, Faulty, websiteVars, BotTypeOK
<1>5. CASE ChannelDeletedOutside
  BY <1>5 DEF ChannelDeletedOutside, Faulty, websiteVars, BotTypeOK
<1> QED BY <1>1, <1>2, <1>3, <1>4, <1>5 DEF Fault

LEMMA NextKeepsBotTypes == BotTypeOK /\ [SyncNext]_syncVars => BotTypeOK'
<1>1. ASSUME BotTypeOK, UNCHANGED syncVars PROVE BotTypeOK'
  BY <1>1 DEF syncVars, websiteVars, botVars, BotTypeOK
<1> QED BY <1>1, RequestKeepsBotTypes, ListKeepsBotTypes, AnnouncementsKeepBotTypes,
           RetirementKeepsBotTypes, SignupLaneKeepsBotTypes, FaultsKeepBotTypes
        DEF SyncNext, BotStep

-----------------------------------------------------------------------------
(* The pass implements the abstract bot of RunAnnouncements. *)

\* What a step of the pass, or a fault, may do to the website: nothing, or
\* report an outcome for one announcement.
LEMMA BotTouchesOneRow ==
    ASSUME BotTypeOK, BotStep \/ Fault
    PROVE  \/ UNCHANGED announcementVars
           \/ /\ UNCHANGED lifecycleVars
              /\ \E k \in Keys, result \in Terminal : UpdateStatusIfPending(k, result)
<1>1. CASE \E k \in Keys : AnnounceWithoutChannel(k)
  BY <1>1 DEF AnnounceWithoutChannel, ReportOnly, lifecycleVars, announcementVars, Terminal
<1>2. CASE CannotSend \/ ReportSent
  BY <1>2, KeyInHand DEF CannotSend, ReportSent, ReportOnly, Terminal
<1>3. CASE \E k \in Keys : ConfirmDelivery(k)
  BY <1>3 DEF ConfirmDelivery, PassOnly, websiteVars
<1>4. CASE ListPending \/ ListRuns \/ ReconcileChannels \/ SendAnnouncement \/ LaneDone
  BY <1>4 DEF ListPending, ListRuns, ReconcileChannels, SendAnnouncement, LaneDone,
              PassOnly, PostOnly, websiteVars
<1>5. CASE RetirementLane
  BY <1>5 DEF RetirementLane, ConfirmRetirement, Transcribe, RecordArtifacts, ConfirmDelete,
              DeleteChannel, RecordChannelGone, PassOnly, PostOnly, websiteVars
<1>6. CASE SignupLane
  BY <1>6 DEF SignupLane, ResolveRunChannel, CreateChannel, RecordChannel, SignupPost,
              PostOnly, websiteVars
<1>7. CASE Fault
  BY <1>7 DEF Fault, SendFails, ReportFails, RetirementFails, ProvisioningFails, BotCrashes,
              ChannelDeletedOutside, Faulty, websiteVars
<1> QED BY <1>1, <1>2, <1>3, <1>4, <1>5, <1>6, <1>7 DEF BotStep, AnnouncementLane

\* Every step of the composition is a step of the outbox or leaves it alone.
LEMMA SyncStepIsAnnStep ==
    ASSUME BotTypeOK, [SyncNext]_syncVars
    PROVE  [AnnNext]_announcementVars
<1>1. CASE UNCHANGED syncVars
  BY <1>1 DEF syncVars, websiteVars
<1>2. CASE \E p \in Requests : RequestStep(p)
  <2>1. PICK p \in Requests : RequestStep(p)
    BY <1>2
  <2>2. AnnouncingStep(p) \/ QuietStep(p) \/ (ClearArchiveArtifacts(p) /\ UNCHANGED ann)
    BY <2>1 DEF RequestStep
  <2> QED BY <2>2 DEF AnnNext
<1>3. CASE BotStep \/ Fault
  <2>1. ASSUME UNCHANGED lifecycleVars, NEW k \in Keys, NEW result \in Terminal,
               UpdateStatusIfPending(k, result)
        PROVE  [AnnNext]_announcementVars
    <3>1. CASE ann[k] = "ABSENT"
      BY <2>1, <3>1 DEF UpdateStatusIfPending, lifecycleVars, announcementVars
    <3>2. CASE ann[k] # "ABSENT"
      BY <2>1, <3>2 DEF BotReports, AnnNext
    <3> QED BY <3>1, <3>2
  <2> QED BY <1>3, <2>1, BotTouchesOneRow
<1> QED BY <1>1, <1>2, <1>3 DEF SyncNext

\* The pass and the stored Discord state keep their types in every behaviour.
THEOREM BotTypesAlways == SyncSpec => []BotTypeOK
<1>1. BotTypeOK /\ [SyncNext]_syncVars => BotTypeOK'
  BY NextKeepsBotTypes
<1> QED BY <1>1, InitBotTypeOK, PTL DEF SyncSpec

\* The composition with the real bot implements the outbox with the abstract
\* one: whatever order the pass, its faults and the managers' requests come in,
\* the rows only change the way RunAnnouncements allows.
THEOREM BotImplementsOutbox == SyncSpec => AnnSpec
<1>1. SyncInit => AnnInit
  BY DEF SyncInit
<1>2. BotTypeOK /\ [SyncNext]_syncVars => [AnnNext]_announcementVars
  BY SyncStepIsAnnStep
<1> QED BY <1>1, <1>2, BotTypesAlways, PTL DEF SyncSpec, AnnSpec

\* Beside the real bot, too: "cancelled" and "reactivated" of one cycle never
\* wait together, and a settled announcement stays settled.
THEOREM SyncKeepsOutboxPromises ==
    SyncSpec => []OneCycleMessagePending /\ SettledIsFinal /\ CyclesAreAnnounced
                /\ []PendingCancelIsCurrent
  BY BotImplementsOutbox, OneCycleMessageAlways, SettledStaysSettled, CyclesAlwaysAnnounced,
     PendingCancelAlwaysCurrent, PTL

-----------------------------------------------------------------------------
(* What is in Discord, and how often. *)

\* A row, the bot's memory and the messages in Discord agree: a message is
\* there when the row says SENT or the bot remembers it, and a row that would
\* be sent again has no message that is not explained by a lost answer.
RowIsSent(k) ==
    /\ ann[k] = "SENT" \/ k \in memory => posts[k] >= 1
    /\ ann[k] = "ABSENT" => posts[k] = 0
    /\ posts[k] <= 1 + faults.lost
    /\ ann[k] = "PENDING" /\ k \notin memory => posts[k] <= faults.lost

\* The announcement in hand: it was sent when it is reported, and sending it
\* now is its first message but for lost answers.
KeyIsSent ==
    /\ bot.pc = "report" => bot.key \in memory
    /\ bot.pc = "send" => /\ ann[bot.key] # "ABSENT"
                          /\ bot.key \notin memory => posts[bot.key] <= faults.lost

CountsOK == /\ AnnTypeOK
            /\ posts \in [Keys -> Nat]
            /\ faults \in [failed : Nat, lost : Nat]

SendInv == /\ BotTypeOK
           /\ CountsOK
           /\ \A k \in Keys : RowIsSent(k)
           /\ KeyIsSent

\* What a request does to a row: it adds it or skips it.
LEMMA RequestRows ==
    ASSUME AnnTypeOK, NEW p \in Requests, RequestStep(p)
    PROVE  /\ AnnTypeOK'
           /\ \A k \in Keys : \/ ann'[k] = ann[k]
                              \/ ann[k] = "ABSENT" /\ ann'[k] = "PENDING"
                              \/ ann[k] = "PENDING" /\ ann'[k] = "SKIPPED"
<1>1. CASE UNCHANGED ann
  BY <1>1 DEF AnnTypeOK
<1>2. ASSUME NEW ks, ann' = InsertIgnoreDuplicate(ann, ks)
      PROVE  /\ AnnTypeOK'
             /\ \A k \in Keys : ann'[k] = ann[k] \/ (ann[k] = "ABSENT" /\ ann'[k] = "PENDING")
  BY <1>2, InsertEffect DEF AnnTypeOK
<1>3. ASSUME NEW j, NEW ks, ann' = InsertIgnoreDuplicate(SkipPending(ann, j), ks)
      PROVE  /\ AnnTypeOK'
             /\ \A k \in Keys : \/ ann'[k] = ann[k]
                                \/ ann[k] = "ABSENT" /\ ann'[k] = "PENDING"
                                \/ ann[k] = "PENDING" /\ ann'[k] = "SKIPPED"
  <2> DEFINE skipped == SkipPending(ann, j)
  <2>1. /\ skipped \in [Keys -> DeliveryStatuses]
        /\ \A k \in Keys : skipped[k] =
               IF k = j /\ ann[k] = "PENDING" THEN "SKIPPED" ELSE ann[k]
    BY SkipEffect DEF AnnTypeOK
  <2> HIDE DEF skipped
  <2>2. /\ ann' \in [Keys -> DeliveryStatuses]
        /\ \A k \in Keys : ann'[k] =
               IF k \in ks /\ skipped[k] = "ABSENT" THEN "PENDING" ELSE skipped[k]
    BY <1>3, <2>1, InsertEffect DEF skipped
  <2> QED BY <2>1, <2>2 DEF AnnTypeOK
<1>4. CASE CancelAnnounces(p) \/ ReactivateAnnounces(p)
  BY <1>3, <1>4 DEF CancelAnnounces, ReactivateAnnounces
<1>5. CASE EditAnnounces(p) \/ HelpAnnounces(p)
  BY <1>2, <1>5 DEF EditAnnounces, HelpAnnounces
<1> QED BY <1>1, <1>4, <1>5 DEF RequestStep, AnnouncingStep, QuietStep

\* A request leaves the messages, the memory and the pass alone.
LEMMA RequestKeepsSendInv ==
    ASSUME SendInv, NEW p \in Requests, RequestStep(p)
    PROVE  SendInv'
<1>1. /\ AnnTypeOK'
      /\ \A k \in Keys : \/ ann'[k] = ann[k]
                         \/ ann[k] = "ABSENT" /\ ann'[k] = "PENDING"
                         \/ ann[k] = "PENDING" /\ ann'[k] = "SKIPPED"
  BY RequestRows DEF SendInv, CountsOK
<1>2. UNCHANGED <<posts, memory, bot, faults>>
  BY DEF RequestStep
<1>3. BotTypeOK'
  BY RequestKeepsBotTypes DEF SendInv
<1>4. CountsOK'
  BY <1>1, <1>2 DEF SendInv, CountsOK
<1>5. ASSUME NEW k \in Keys PROVE RowIsSent(k)'
  <2>1. posts[k] \in Nat /\ faults.lost \in Nat
    BY DEF SendInv, CountsOK
  <2> QED BY <1>1, <1>2, <2>1 DEF SendInv, RowIsSent
<1>6. KeyIsSent'
  <2>1. bot.pc = "send" => bot.key \in Keys
    BY KeyInHand DEF SendInv
  <2> QED BY <1>1, <1>2, <2>1 DEF SendInv, KeyIsSent
<1> QED BY <1>3, <1>4, <1>5, <1>6 DEF SendInv

\* A step that sends and reports nothing, and leaves at most a fault behind.
LEMMA SilentKeepsSendInv ==
    ASSUME SendInv, BotTypeOK', UNCHANGED <<ann, posts, memory>>,
           faults' \in [failed : Nat, lost : Nat], faults'.lost >= faults.lost,
           bot'.pc \notin {"send", "report"} \/ UNCHANGED bot
    PROVE  SendInv'
<1>1. CountsOK'
  BY DEF SendInv, CountsOK, AnnTypeOK
<1>2. faults.lost \in Nat /\ faults'.lost \in Nat
  BY DEF SendInv, CountsOK
<1>3. ASSUME NEW k \in Keys PROVE RowIsSent(k)'
  <2>1. posts[k] \in Nat
    BY DEF SendInv, CountsOK
  <2> QED BY <1>2, <2>1 DEF SendInv, RowIsSent
<1>4. KeyIsSent'
  <2>1. bot.pc = "send" => bot.key \in Keys
    BY KeyInHand DEF SendInv
  <2>2. bot.pc = "send" => posts[bot.key] \in Nat
    BY <2>1 DEF SendInv, CountsOK
  <2> QED BY <1>2, <2>2 DEF SendInv, KeyIsSent
<1> QED BY <1>1, <1>3, <1>4 DEF SendInv

\* One more message, or the first help message.
LEMMA PostedEffect ==
    ASSUME posts \in [Keys -> Nat], NEW k \in Keys, Posted(k)
    PROVE  /\ posts' \in [Keys -> Nat]
           /\ posts'[k] >= 1 /\ posts'[k] <= 1 + posts[k]
           /\ \A j \in Keys : j # k => posts'[j] = posts[j]
  BY DEF Posted

\* The steps of the pass outside the sending, reporting ones leave the phases
\* "send" and "report" alone.
LEMMA OtherPhases ==
    ASSUME BotTypeOK,
           \/ ListPending \/ ListRuns \/ ReconcileChannels \/ LaneDone
           \/ RetirementLane \/ SignupLane \/ RetirementFails \/ ProvisioningFails
    PROVE  bot'.pc \notin {"send", "report"}
<1>1. DOMAIN bot = DOMAIN IdleBot
  BY DEF BotTypeOK, BotRows, IdleBot
<1>2. "pc" \in DOMAIN bot
  BY <1>1 DEF IdleBot
<1>3. ASSUME NEW phase PROVE Go(phase).pc = phase
  BY <1>2 DEF Go
<1>4. CASE ListPending \/ ListRuns \/ ReconcileChannels
  BY <1>2, <1>4 DEF ListPending, ListRuns, ReconcileChannels, Go
<1>5. CASE LaneDone
  BY <1>3, <1>5 DEF LaneDone, IdleBot
<1>6. CASE RetirementLane
  BY <1>2, <1>6 DEF RetirementLane, ConfirmRetirement, Transcribe, RecordArtifacts, ConfirmDelete,
                    DeleteChannel, RecordChannelGone, Go
<1>7. CASE SignupLane
  <2>1. CASE ResolveRunChannel
    BY <1>2, <2>1 DEF ResolveRunChannel, ToLateLane, Go
  <2>2. CASE CreateChannel
    BY <1>2, <2>2 DEF CreateChannel, Go
  <2>3. CASE RecordChannel
    BY <1>2, <2>3 DEF RecordChannel, Go
  <2>4. CASE SignupPost
    BY <1>2, <2>4 DEF SignupPost, ToLateLane, Go
  <2> QED BY <1>7, <2>1, <2>2, <2>3, <2>4 DEF SignupLane
<1>8. CASE RetirementFails \/ ProvisioningFails
  BY <1>2, <1>8 DEF RetirementFails, ProvisioningFails, ToLateLane, Go
<1> QED BY <1>4, <1>5, <1>6, <1>7, <1>8

\* A step of the pass that neither sends nor reports.
LEMMA PassKeepsSendInv ==
    ASSUME SendInv, BotTypeOK',
           \/ ListPending \/ ListRuns \/ ReconcileChannels \/ LaneDone
           \/ RetirementLane \/ SignupLane
    PROVE  SendInv'
<1>1. bot'.pc \notin {"send", "report"}
  BY OtherPhases DEF SendInv
<1>2. UNCHANGED <<ann, posts, memory, faults>>
  BY DEF ListPending, ListRuns, ReconcileChannels, LaneDone, RetirementLane, ConfirmRetirement,
         Transcribe, RecordArtifacts, ConfirmDelete, DeleteChannel, RecordChannelGone, SignupLane,
         ResolveRunChannel, CreateChannel, RecordChannel, SignupPost, PassOnly, PostOnly,
         websiteVars, announcementVars
<1>3. faults' \in [failed : Nat, lost : Nat] /\ faults'.lost >= faults.lost
  BY <1>2 DEF SendInv, CountsOK
<1> QED BY <1>1, <1>2, <1>3, SilentKeepsSendInv

\* A fault is counted.
LEMMA FaultIsCounted ==
    ASSUME faults \in [failed : Nat, lost : Nat], NEW kind \in {"failed", "lost"}, Faulty(kind)
    PROVE  /\ faults' \in [failed : Nat, lost : Nat]
           /\ faults'.lost = IF kind = "lost" THEN faults.lost + 1 ELSE faults.lost
           /\ UNCHANGED ann
  BY DEF Faulty, websiteVars, announcementVars

\* A report other than SENT, for an announcement the pass is then done with.
LEMMA RefusalKeepsSendInv ==
    ASSUME SendInv, BotTypeOK', NEW k \in Keys, NEW result \in Terminal \ {"SENT"},
           UpdateStatusIfPending(k, result), UNCHANGED <<posts, memory, faults>>,
           bot'.pc \notin {"send", "report"}
    PROVE  SendInv'
<1>1. /\ AnnTypeOK'
      /\ \A j \in Keys : ann'[j] = ann[j] \/ (ann[j] = "PENDING" /\ ann'[j] = result)
  BY DEF SendInv, CountsOK, AnnTypeOK, UpdateStatusIfPending, DeliveryStatuses
<1>2. CountsOK'
  BY <1>1 DEF SendInv, CountsOK
<1>3. ASSUME NEW j \in Keys PROVE RowIsSent(j)'
  <2>1. result \notin {"SENT", "PENDING", "ABSENT"}
    BY DEF Terminal
  <2> QED BY <1>1, <2>1 DEF SendInv, RowIsSent
<1>4. KeyIsSent'
  BY DEF KeyIsSent
<1> QED BY <1>2, <1>3, <1>4 DEF SendInv

\* The pass sends: the row's first message but for lost answers.
LEMMA SendKeepsSendInv ==
    ASSUME SendInv, BotTypeOK', SendAnnouncement
    PROVE  SendInv'
<1> DEFINE key == bot.key
<1>1. key \in Keys /\ key \notin memory /\ ann[key] # "ABSENT" /\ posts[key] <= faults.lost
  BY KeyInHand DEF SendInv, SendAnnouncement, KeyIsSent
<1>2. /\ posts' \in [Keys -> Nat]
      /\ posts'[key] >= 1 /\ posts'[key] <= 1 + posts[key]
      /\ \A j \in Keys : j # key => posts'[j] = posts[j]
  BY <1>1, PostedEffect DEF SendInv, CountsOK, SendAnnouncement
<1>3. memory' = memory \cup {key} /\ UNCHANGED <<ann, faults>>
  BY DEF SendAnnouncement, Remember, websiteVars, announcementVars
<1>4. bot'.pc = "report" /\ bot'.key = key
  BY DEF SendAnnouncement, Go, SendInv, BotTypeOK, BotRows
<1>5. CountsOK'
  BY <1>2, <1>3 DEF SendInv, CountsOK, AnnTypeOK
<1>6. ASSUME NEW j \in Keys PROVE RowIsSent(j)'
  <2>1. posts[j] \in Nat /\ posts[key] \in Nat /\ posts'[j] \in Nat /\ faults.lost \in Nat
    BY <1>1, <1>2 DEF SendInv, CountsOK
  <2>2. CASE j = key
    BY <1>1, <1>2, <1>3, <2>1, <2>2 DEF RowIsSent
  <2>3. CASE j # key
    BY <1>2, <1>3, <2>1, <2>3 DEF SendInv, RowIsSent
  <2> QED BY <2>2, <2>3
<1>7. KeyIsSent'
  BY <1>3, <1>4 DEF KeyIsSent
<1> QED BY <1>5, <1>6, <1>7 DEF SendInv

\* The pass reports SENT for what it remembers, and forgets it.
LEMMA ReportKeepsSendInv ==
    ASSUME SendInv, BotTypeOK', ReportSent
    PROVE  SendInv'
<1> DEFINE key == bot.key
<1>1. key \in Keys /\ key \in memory
  BY KeyInHand DEF SendInv, ReportSent, KeyIsSent
<1>2. bot'.pc = "lane"
  BY <1>1, DropType DEF SendInv, ReportSent
<1>3. memory' = memory \ {key} /\ UNCHANGED <<posts, faults>>
  BY DEF ReportSent, ReportOnly
<1>4. /\ AnnTypeOK'
      /\ ann'[key] = IF ann[key] = "PENDING" THEN "SENT" ELSE ann[key]
      /\ \A j \in Keys : j # key => ann'[j] = ann[j]
  BY <1>1 DEF SendInv, CountsOK, AnnTypeOK, ReportSent, UpdateStatusIfPending, DeliveryStatuses,
              Terminal
<1>5. CountsOK'
  BY <1>3, <1>4 DEF SendInv, CountsOK
<1>6. ASSUME NEW j \in Keys PROVE RowIsSent(j)'
  <2>1. CASE j = key
    BY <1>1, <1>3, <1>4, <2>1 DEF SendInv, RowIsSent
  <2>2. CASE j # key
    BY <1>3, <1>4, <2>2 DEF SendInv, RowIsSent
  <2> QED BY <2>1, <2>2
<1>7. KeyIsSent'
  BY <1>2 DEF KeyIsSent
<1> QED BY <1>5, <1>6, <1>7 DEF SendInv

\* The announcement lanes.
LEMMA AnnouncementsKeepSendInv ==
    ASSUME SendInv, BotTypeOK', AnnouncementLane
    PROVE  SendInv'
<1>1. ASSUME NEW k \in Keys, AnnounceWithoutChannel(k) PROVE SendInv'
  <2>1. bot'.pc = "lane" /\ UNCHANGED <<posts, memory, faults>>
    BY <1>1, DropType DEF SendInv, AnnounceWithoutChannel, ReportOnly
  <2>2. CASE UNCHANGED ann
    <3>1. faults' \in [failed : Nat, lost : Nat] /\ faults'.lost >= faults.lost
      BY <2>1 DEF SendInv, CountsOK
    <3> QED BY <2>1, <2>2, <3>1, SilentKeepsSendInv
  <2>3. CASE UpdateStatusIfPending(k, "SKIPPED")
    <3>1. "SKIPPED" \in Terminal \ {"SENT"}
      BY DEF Terminal
    <3> QED BY <2>1, <2>3, <3>1, RefusalKeepsSendInv
  <2> QED BY <1>1, <2>2, <2>3 DEF AnnounceWithoutChannel
<1>2. ASSUME NEW k \in Keys, ConfirmDelivery(k) PROVE SendInv'
  <2>1. UNCHANGED <<ann, posts, memory, faults>>
    BY <1>2 DEF ConfirmDelivery, PassOnly, websiteVars, announcementVars
  <2>2. CASE bot' = Drop(k)
    <3>1. faults' \in [failed : Nat, lost : Nat] /\ faults'.lost >= faults.lost
      BY <2>1 DEF SendInv, CountsOK
    <3>2. bot'.pc = "lane"
      BY <2>2, DropType DEF SendInv
    <3> QED BY <2>1, <3>1, <3>2, SilentKeepsSendInv
  <2>3. CASE DeliveryAuthority(k) /\ bot' = [Go("send") EXCEPT !.key = k]
    <3>1. bot'.pc = "send" /\ bot'.key = k
      BY <2>3 DEF Go, SendInv, BotTypeOK, BotRows
    <3>2. ann[k] = "PENDING"
      BY <2>3 DEF DeliveryAuthority
    <3>3. CountsOK' /\ \A j \in Keys : RowIsSent(j)'
      BY <2>1 DEF SendInv, CountsOK, AnnTypeOK, RowIsSent
    <3>4. KeyIsSent'
      BY <2>1, <3>1, <3>2 DEF SendInv, RowIsSent, KeyIsSent
    <3> QED BY <3>3, <3>4 DEF SendInv
  <2> QED BY <1>2, <2>2, <2>3 DEF ConfirmDelivery
<1>3. CASE CannotSend
  <2>1. bot.key \in Keys
    BY <1>3, KeyInHand DEF SendInv, CannotSend
  <2>2. bot'.pc = "lane" /\ UNCHANGED <<posts, memory, faults>>
    BY <1>3, <2>1, DropType DEF SendInv, CannotSend, ReportOnly
  <2>3. PICK result \in Terminal \ {"SENT"} : UpdateStatusIfPending(bot.key, result)
    BY <1>3 DEF CannotSend, Terminal
  <2> QED BY <2>1, <2>2, <2>3, RefusalKeepsSendInv
<1> QED BY <1>1, <1>2, <1>3, SendKeepsSendInv, ReportKeepsSendInv, PassKeepsSendInv
        DEF AnnouncementLane

\* Faults: a lost answer pays for the message it may repeat.
LEMMA FaultsKeepSendInv ==
    ASSUME SendInv, BotTypeOK', Fault
    PROVE  SendInv'
<1>0. faults \in [failed : Nat, lost : Nat] /\ faults.lost \in Nat
  BY DEF SendInv, CountsOK
<1>1. ASSUME UNCHANGED <<posts, memory>>, NEW kind \in {"failed", "lost"}, Faulty(kind),
             bot'.pc \notin {"send", "report"} \/ UNCHANGED bot
      PROVE  SendInv'
  <2>1. faults' \in [failed : Nat, lost : Nat] /\ faults'.lost >= faults.lost /\ UNCHANGED ann
    BY <1>0, <1>1, FaultIsCounted
  <2> QED BY <1>1, <2>1, SilentKeepsSendInv
<1>2. CASE SendFails
  <2>1. bot.key \in Keys /\ bot.pc = "send"
    BY <1>2, KeyInHand DEF SendInv, SendFails
  <2>2. bot'.pc = "lane" /\ UNCHANGED memory
    BY <1>2, <2>1, DropType DEF SendInv, SendFails
  <2>3. CASE Faulty("failed") /\ UNCHANGED posts
    BY <1>1, <2>2, <2>3
  <2>4. CASE bot.key \notin memory /\ Faulty("lost") /\ Posted(bot.key)
    <3> DEFINE key == bot.key
    <3>1. ann[key] # "ABSENT" /\ posts[key] <= faults.lost
      BY <2>1, <2>4 DEF SendInv, KeyIsSent
    <3>2. /\ posts' \in [Keys -> Nat]
          /\ posts'[key] >= 1 /\ posts'[key] <= 1 + posts[key]
          /\ \A j \in Keys : j # key => posts'[j] = posts[j]
      BY <2>1, <2>4, PostedEffect DEF SendInv, CountsOK
    <3>3. faults' \in [failed : Nat, lost : Nat] /\ faults'.lost = faults.lost + 1 /\ UNCHANGED ann
      BY <1>0, <2>4, FaultIsCounted
    <3>4. CountsOK'
      BY <3>2, <3>3 DEF SendInv, CountsOK, AnnTypeOK
    <3>5. ASSUME NEW j \in Keys PROVE RowIsSent(j)'
      <4>1. posts[j] \in Nat /\ posts[key] \in Nat /\ posts'[j] \in Nat
        BY <2>1, <3>2 DEF SendInv, CountsOK
      <4>2. CASE j = key
        BY <1>0, <3>1, <3>2, <3>3, <4>1, <4>2 DEF RowIsSent
      <4>3. CASE j # key
        BY <1>0, <2>2, <3>2, <3>3, <4>1, <4>3 DEF SendInv, RowIsSent
      <4> QED BY <4>2, <4>3
    <3>6. KeyIsSent'
      BY <2>2 DEF KeyIsSent
    <3> QED BY <3>4, <3>5, <3>6 DEF SendInv
  <2> QED BY <1>2, <2>3, <2>4 DEF SendFails
<1>3. CASE ReportFails
  <2>1. PICK k \in Keys : bot' = Drop(k)
    BY <1>3, KeyInHand DEF ReportFails, SendInv, BotTypeOK, BotRows
  <2>2. bot'.pc = "lane"
    BY <2>1, DropType DEF SendInv
  <2> QED BY <1>1, <1>3, <2>2 DEF ReportFails
<1>4. CASE RetirementFails \/ ProvisioningFails
  <2>1. bot'.pc \notin {"send", "report"}
    BY <1>4, OtherPhases DEF SendInv
  <2> QED BY <1>1, <1>4, <2>1 DEF RetirementFails, ProvisioningFails
<1>5. CASE BotCrashes
  <2>1. faults' \in [failed : Nat, lost : Nat] /\ faults'.lost = faults.lost + 1 /\ UNCHANGED ann
    BY <1>0, <1>5, FaultIsCounted DEF BotCrashes
  <2>2. bot'.pc = "idle" /\ memory' = {} /\ UNCHANGED posts
    BY <1>5 DEF BotCrashes, IdleBot
  <2>3. CountsOK'
    BY <2>1, <2>2 DEF SendInv, CountsOK, AnnTypeOK
  <2>4. ASSUME NEW k \in Keys PROVE RowIsSent(k)'
    <3>1. posts[k] \in Nat
      BY DEF SendInv, CountsOK
    <3> QED BY <1>0, <2>1, <2>2, <3>1 DEF SendInv, RowIsSent
  <2>5. KeyIsSent'
    BY <2>2 DEF KeyIsSent
  <2> QED BY <2>3, <2>4, <2>5 DEF SendInv
<1>6. CASE ChannelDeletedOutside
  BY <1>1, <1>6 DEF ChannelDeletedOutside
<1> QED BY <1>2, <1>3, <1>4, <1>5, <1>6 DEF Fault

LEMMA NextKeepsSendInv == SendInv /\ [SyncNext]_syncVars => SendInv'
<1> SUFFICES ASSUME SendInv, [SyncNext]_syncVars PROVE SendInv'
  OBVIOUS
<1>1. BotTypeOK'
  BY NextKeepsBotTypes DEF SendInv
<1>2. CASE UNCHANGED syncVars
  <2>1. UNCHANGED <<ann, posts, memory, bot, faults>>
    BY <1>2 DEF syncVars, websiteVars, botVars, announcementVars
  <2>2. faults' \in [failed : Nat, lost : Nat] /\ faults'.lost >= faults.lost
    BY <2>1 DEF SendInv, CountsOK
  <2> QED BY <1>1, <2>1, <2>2, SilentKeepsSendInv
<1> QED BY <1>1, <1>2, RequestKeepsSendInv, PassKeepsSendInv, AnnouncementsKeepSendInv,
           FaultsKeepSendInv
        DEF SyncNext, BotStep

LEMMA InitSendInv == SyncInit => SendInv
<1> SUFFICES ASSUME SyncInit PROVE SendInv
  OBVIOUS
<1>1. BotTypeOK
  BY InitBotTypeOK
<1>2. bot.pc = "idle"
  BY DEF SyncInit, IdleBot
<1>3. CountsOK
  BY DEF SyncInit, AnnInit, CountsOK, AnnTypeOK, DeliveryStatuses
<1>4. \A k \in Keys : RowIsSent(k)
  BY DEF SyncInit, AnnInit, RowIsSent
<1> QED BY <1>1, <1>2, <1>3, <1>4 DEF SendInv, KeyIsSent

-----------------------------------------------------------------------------
\* Rows, memory and messages agree in every behaviour.
THEOREM SendInvAlways == SyncSpec => []SendInv
  BY InitSendInv, NextKeepsSendInv, PTL DEF SyncSpec

\* The type invariant of the composition, with any number of requests, rows,
\* channels and faults.
THEOREM SyncTypeCorrect == SyncSpec => []SyncTypeOK
<1>1. SendInv => SyncTypeOK
  BY DEF SendInv, CountsOK, BotTypeOK, SyncTypeOK
<1> QED BY <1>1, SendInvAlways, PTL

\* SENT never covers a message that nobody saw, whatever fails or crashes.
THEOREM SentAlwaysPosted == SyncSpec => []SentWasPosted
<1>1. SendInv => SentWasPosted
  BY DEF SendInv, RowIsSent, SentWasPosted
<1> QED BY <1>1, SendInvAlways, PTL

\* Without a lost answer or a crash no announcement is posted twice, and every
\* one of them accounts for at most one repetition.
THEOREM DuplicatesAreExplained == SyncSpec => []DuplicatesNeedALostAnswer
<1>1. SendInv => DuplicatesNeedALostAnswer
  BY DEF SendInv, RowIsSent, DuplicatesNeedALostAnswer
<1> QED BY <1>1, SendInvAlways, PTL

-----------------------------------------------------------------------------
(* The Run's channels. *)

\* The work list was built: the pass knows its channel.
AfterListing == BotPhases \ {"idle", "listed"}
AfterReconciling == AfterListing \ {"reconcile"}

\* Nobody but the pass stores a channel: what is stored is the channel the pass
\* works with, or nothing any more.  A pass without a resolved channel works
\* with one that is gone, so that replacing it loses track of nothing.
ChannelInv ==
    /\ discord.live \subseteq 1..discord.created
    /\ post.runChannelId <= discord.created /\ bot.channel <= discord.created
    /\ bot.pc = "recordChannel" => bot.fresh = discord.created /\ ~bot.resolved
    /\ bot.pc # "recordChannel" => bot.fresh = NoChannel
    /\ bot.pc \in AfterListing => post.runChannelId \in {bot.channel, NoChannel}
    /\ bot.pc \in AfterReconciling /\ ~bot.resolved => bot.channel \notin discord.live
    /\ bot.pc = "gone" => bot.channel \notin discord.live
    /\ ChannelsAreTracked

\* With one manager request at a time, nothing clears the artifacts of the first
\* archive before the Run is restored: the request that clears them after its
\* commit found the Run restored (which opens another period) or not archived.
OneRequestAtATime == \A p, q \in Requests : p = q

FirstPeriodInv ==
    /\ \A p \in Requests : req[p].pc = "clearing" => ~run.archivedAt
    /\ \A p \in Requests : At(p, "reactivateRun", "locked") => ~run.archivedAt
    /\ \A p \in Requests : At(p, "restoreRun", "loaded") => run.archivedAt
    /\ bot.retire => run.archivedAt
    /\ bot.pc \in {"retire", "transcribe", "record", "confirmDelete", "delete"} => bot.retire
    /\ bot.retire /\ ~bot.artifactsNeeded => post.artifacts = 1
    /\ bot.pc = "record" => bot.transcript = 1
    /\ bot.pc \in {"confirmDelete", "delete"} => post.artifacts = 1

TranscriptInv == /\ post.artifacts <= period /\ bot.transcript <= period
                 /\ OneRequestAtATime /\ period = 1 => FirstPeriodInv

\* What is live and neither stored nor about to be stored.
Untracked == discord.live \ {post.runChannelId, bot.fresh}

\* The pass's row in its next phase.
LEMMA GoFields ==
    ASSUME BotTypeOK, NEW phase
    PROVE  /\ Go(phase).pc = phase /\ Go(phase).channel = bot.channel
           /\ Go(phase).fresh = bot.fresh /\ Go(phase).resolved = bot.resolved
           /\ Go(phase).retire = bot.retire /\ Go(phase).artifactsNeeded = bot.artifactsNeeded
           /\ Go(phase).transcript = bot.transcript
           /\ DOMAIN Go(phase) = DOMAIN bot
           /\ {"pc", "lane", "key", "channel", "fresh", "resolved", "retire", "artifactsNeeded",
               "transcript", "signup", "create"} \subseteq DOMAIN bot
  BY DEF BotTypeOK, BotRows, Go

LEMMA DropFields ==
    ASSUME BotTypeOK, NEW k
    PROVE  /\ Drop(k).pc = "lane" /\ Drop(k).channel = bot.channel
           /\ Drop(k).fresh = bot.fresh /\ Drop(k).resolved = bot.resolved
           /\ Drop(k).retire = bot.retire /\ Drop(k).artifactsNeeded = bot.artifactsNeeded
           /\ Drop(k).transcript = bot.transcript
  BY DEF BotTypeOK, BotRows, Drop

\* What the pass keeps of the work list.
LEMMA ListedFields ==
    ASSUME BotTypeOK, ListRuns
    PROVE  /\ bot'.pc = "reconcile" /\ bot'.channel = post.runChannelId
           /\ bot'.fresh = bot.fresh /\ bot'.transcript = bot.transcript
           /\ bot'.retire => run.archivedAt
           /\ bot'.retire /\ ~bot'.artifactsNeeded => post.artifacts # 0
<1> DEFINE retires == ShouldRetireChannelNow
           needed == retires /\ post.artifacts = 0
           creates == EligibleForFirstProvisioning \/ EligibleForContinuityRecovery
<1>1. /\ retires \in BOOLEAN /\ needed \in BOOLEAN /\ creates \in BOOLEAN
      /\ \A changed \in BOOLEAN : SignupListed(changed) \in BOOLEAN
  BY DEF ShouldRetireChannelNow, SignupListed, EligibleForFirstProvisioning
<1>2. PICK retire \in BOOLEAN, need \in BOOLEAN, signup \in BOOLEAN, create \in BOOLEAN :
          /\ retire = retires /\ need = needed
          /\ bot' = [Go("reconcile") EXCEPT !.channel = post.runChannelId, !.retire = retire,
                        !.artifactsNeeded = need, !.signup = signup, !.create = create]
  BY <1>1, Zenon DEF ListRuns
<1>3. /\ bot'.pc = "reconcile" /\ bot'.channel = post.runChannelId
      /\ bot'.fresh = bot.fresh /\ bot'.transcript = bot.transcript
      /\ bot'.retire = retire /\ bot'.artifactsNeeded = need
  BY <1>2, GoFields
<1>4. retires => run.archivedAt
  BY Zenon DEF ShouldRetireChannelNow
<1> QED BY <1>2, <1>3, <1>4

LEMMA TypesOfTheBot == SyncTypeOK => BotTypeOK /\ faults.lost \in Nat
  BY DEF SyncTypeOK, BotTypeOK

LEMMA UntrackedIsFinite ==
    ASSUME BotTypeOK
    PROVE  IsFiniteSet(Untracked) /\ Cardinality(Untracked) \in Nat
<1>1. IsFiniteSet(Channels)
  BY SyncAssumption, FS_Interval DEF Channels
<1>2. Untracked \in SUBSET Channels
  BY DEF BotTypeOK, Untracked
<1> QED BY <1>1, <1>2, FS_Subset, FS_CardinalityType

\* Nothing is lost track of, or one channel by a lost answer.
LEMMA StillTracked ==
    ASSUME SyncTypeOK, SyncTypeOK', ChannelsAreTracked,
           \/ Untracked' \subseteq Untracked /\ faults'.lost >= faults.lost
           \/ /\ \E c \in {bot.fresh} : Untracked' \subseteq Untracked \cup {c}
              /\ faults'.lost = faults.lost + 1
    PROVE  ChannelsAreTracked'
<1>1. IsFiniteSet(Untracked) /\ Cardinality(Untracked) \in Nat
  BY UntrackedIsFinite, TypesOfTheBot
<1>2. Cardinality(Untracked) <= faults.lost
  BY DEF ChannelsAreTracked, Untracked
<1>3. faults.lost \in Nat /\ faults'.lost \in Nat
  BY DEF SyncTypeOK
<1>4. Cardinality(Untracked') <= faults'.lost
  <2>1. CASE Untracked' \subseteq Untracked /\ faults'.lost >= faults.lost
    <3>1. IsFiniteSet(Untracked') /\ Cardinality(Untracked') <= Cardinality(Untracked)
      BY <1>1, <2>1, FS_Subset
    <3>2. Cardinality(Untracked') \in Nat
      BY <3>1, FS_CardinalityType
    <3> QED BY <1>1, <1>2, <1>3, <2>1, <3>1, <3>2
  <2>2. CASE Untracked' \subseteq Untracked \cup {bot.fresh} /\ faults'.lost = faults.lost + 1
    <3>1. /\ IsFiniteSet(Untracked \cup {bot.fresh})
          /\ Cardinality(Untracked \cup {bot.fresh}) \in Nat
          /\ Cardinality(Untracked \cup {bot.fresh}) <= Cardinality(Untracked) + 1
      BY <1>1, FS_AddElement, FS_CardinalityType
    <3>2. IsFiniteSet(Untracked') /\ Cardinality(Untracked') <= Cardinality(Untracked \cup {bot.fresh})
      BY <2>2, <3>1, FS_Subset
    <3>3. Cardinality(Untracked') \in Nat
      BY <3>2, FS_CardinalityType
    <3> QED BY <1>1, <1>2, <1>3, <2>2, <3>1, <3>2, <3>3
  <2> QED BY <2>1, <2>2
<1> QED BY <1>4 DEF ChannelsAreTracked, Untracked

LEMMA InitChannelInv == SyncInit => ChannelInv
<1> SUFFICES ASSUME SyncInit PROVE ChannelInv
  OBVIOUS
<1>1. Untracked = {} /\ faults.lost = 0
  BY DEF SyncInit, Untracked
<1>2. ChannelsAreTracked
  BY <1>1, FS_EmptySet DEF ChannelsAreTracked, Untracked
<1> QED BY <1>2 DEF SyncInit, ChannelInv, IdleBot, NoChannel, AfterListing, AfterReconciling, BotPhases

\* The pass moves on: its channel stays, and what is stored stays or is
\* cleared because that channel is gone.
LEMMA PassMovesOn ==
    ASSUME SyncTypeOK, SyncTypeOK', ChannelInv,
           bot.pc \in AfterReconciling \ {"recordChannel"},
           UNCHANGED discord, faults'.lost >= faults.lost,
           \/ post'.runChannelId = post.runChannelId
           \/ ChannelGone /\ bot.channel \notin discord.live,
           \/ bot' = IdleBot
           \/ /\ bot'.pc \in AfterReconciling \ {"recordChannel", "gone"}
              /\ bot'.channel = bot.channel /\ bot'.fresh = bot.fresh
              /\ bot'.resolved = bot.resolved
    PROVE  ChannelInv'
<1>1. discord.created \in Nat /\ post.runChannelId \in Nat
  BY TypesOfTheBot DEF BotTypeOK, Channels, NoChannel
<1>2. bot.fresh = NoChannel /\ bot'.fresh = NoChannel /\ bot'.pc # "recordChannel"
  BY DEF ChannelInv, IdleBot
<1>3. /\ post'.runChannelId \in {post.runChannelId, NoChannel}
      /\ post'.runChannelId # post.runChannelId => post.runChannelId \notin discord.live
  <2>1. \A row : "runChannelId" \in DOMAIN post =>
           [post EXCEPT !.runChannelId = NoChannel, !.signupMessage = row].runChannelId = NoChannel
    OBVIOUS
  <2>2. "runChannelId" \in DOMAIN post
    BY TypesOfTheBot DEF BotTypeOK
  <2> QED BY <2>1, <2>2 DEF ChannelGone
<1>4. Untracked' \subseteq Untracked
  BY <1>2, <1>3 DEF Untracked
<1>5. ChannelsAreTracked'
  BY <1>4, StillTracked DEF ChannelInv
<1>6. post'.runChannelId <= discord'.created
  BY <1>1, <1>3 DEF ChannelInv, NoChannel
<1>7. CASE bot' = IdleBot
  BY <1>1, <1>2, <1>5, <1>6, <1>7
     DEF ChannelInv, IdleBot, NoChannel, AfterListing, AfterReconciling
<1>8. CASE /\ bot'.pc \in AfterReconciling \ {"recordChannel", "gone"}
           /\ bot'.channel = bot.channel /\ bot'.fresh = bot.fresh
           /\ bot'.resolved = bot.resolved
  BY <1>2, <1>3, <1>5, <1>6, <1>8 DEF ChannelInv, AfterListing, AfterReconciling
<1> QED BY <1>7, <1>8

LEMMA ListKeepsChannelInv ==
    ASSUME SyncTypeOK, SyncTypeOK', ChannelInv, ListPending \/ ListRuns \/ ReconcileChannels
    PROVE  ChannelInv'
<1> USE TypesOfTheBot
<1>1. bot.fresh = NoChannel
  <2>1. bot.pc \in {"idle", "listed", "reconcile"}
    BY Zenon DEF ListPending, ListRuns, ReconcileChannels
  <2> QED BY <2>1 DEF ChannelInv
<1>2. CASE ListPending
  <2>1. bot'.pc = "listed" /\ bot'.channel = bot.channel /\ bot'.fresh = bot.fresh
    BY <1>2 DEF ListPending, Go, BotTypeOK, BotRows
  <2>2. UNCHANGED <<post, discord, faults>>
    BY <1>2 DEF ListPending, PassOnly
  <2>3. ChannelsAreTracked'
    BY <2>1, <2>2 DEF ChannelInv, ChannelsAreTracked
  <2> QED BY <1>1, <2>1, <2>2, <2>3 DEF ChannelInv, AfterListing, AfterReconciling
<1>3. CASE ListRuns
  <2>1. bot'.pc = "reconcile" /\ bot'.channel = post.runChannelId /\ bot'.fresh = bot.fresh
    BY <1>3, ListedFields
  <2>2. UNCHANGED <<post, discord, faults>>
    <3>1. PassOnly
      BY <1>3, Zenon DEF ListRuns
    <3> QED BY <3>1 DEF PassOnly
  <2>3. ChannelsAreTracked'
    BY <2>1, <2>2 DEF ChannelInv, ChannelsAreTracked
  <2> QED BY <1>1, <2>1, <2>2, <2>3 DEF ChannelInv, AfterListing, AfterReconciling
<1>4. CASE ReconcileChannels
  <2>1. /\ bot'.pc = "lane" /\ bot'.channel = bot.channel /\ bot'.fresh = bot.fresh
        /\ ~bot'.resolved => bot.channel \notin discord.live
    BY <1>4, GoFields DEF ReconcileChannels
  <2>2. UNCHANGED <<discord, faults>>
    BY <1>4 DEF ReconcileChannels, PostOnly
  <2>3. \/ post' = post
        \/ post'.runChannelId = NoChannel /\ post.runChannelId \notin discord.live
    BY <1>4 DEF ReconcileChannels, ChannelGone, BotTypeOK
  <2>4. Untracked' \subseteq Untracked /\ faults'.lost >= faults.lost
    BY <1>1, <2>1, <2>2, <2>3 DEF Untracked, BotTypeOK
  <2>5. ChannelsAreTracked'
    BY <2>4, StillTracked DEF ChannelInv
  <2>6. bot.pc \in AfterListing /\ discord.created \in Nat
    BY <1>4 DEF ReconcileChannels, AfterListing, BotPhases, BotTypeOK
  <2> QED BY <1>1, <2>1, <2>2, <2>3, <2>5, <2>6 DEF ChannelInv, AfterListing, AfterReconciling, NoChannel
<1> QED BY <1>2, <1>3, <1>4

LEMMA AnnouncementsKeepChannelInv ==
    ASSUME SyncTypeOK, SyncTypeOK', ChannelInv, AnnouncementLane
    PROVE  ChannelInv'
<1> USE TypesOfTheBot
<1>1. ASSUME bot.pc \in {"lane", "send", "report"}, UNCHANGED <<post, discord, faults>>,
             \/ bot' = IdleBot
             \/ \E k : bot' = Drop(k)
             \/ \E phase \in {"send", "report", "retire", "provision"} :
                    bot' = Go(phase) \/ \E k : bot' = [Go(phase) EXCEPT !.key = k]
      PROVE  ChannelInv'
  <2>1. \/ bot' = IdleBot
        \/ /\ bot'.pc \in AfterReconciling \ {"recordChannel", "gone"}
           /\ bot'.channel = bot.channel /\ bot'.fresh = bot.fresh /\ bot'.resolved = bot.resolved
    BY <1>1, GoFields, DropFields DEF AfterReconciling, AfterListing, BotPhases
  <2>2. bot.pc \in AfterReconciling \ {"recordChannel"}
    BY <1>1 DEF AfterReconciling, AfterListing, BotPhases
  <2>3. post'.runChannelId = post.runChannelId /\ UNCHANGED discord /\ faults'.lost >= faults.lost
    BY <1>1
  <2> QED BY <2>1, <2>2, <2>3, PassMovesOn
<1>2. ASSUME NEW k \in Keys, AnnounceWithoutChannel(k) \/ ConfirmDelivery(k) PROVE ChannelInv'
  BY <1>1, <1>2 DEF AnnounceWithoutChannel, ConfirmDelivery, ReportOnly, PassOnly
<1>3. CASE SendAnnouncement \/ CannotSend \/ ReportSent
  BY <1>1, <1>3 DEF SendAnnouncement, CannotSend, ReportSent, ReportOnly
<1>4. CASE LaneDone
  BY <1>1, <1>4 DEF LaneDone, PassOnly
<1> QED BY <1>2, <1>3, <1>4 DEF AnnouncementLane

LEMMA RetirementKeepsChannelInv ==
    ASSUME SyncTypeOK, SyncTypeOK', ChannelInv, RetirementLane
    PROVE  ChannelInv'
<1> USE TypesOfTheBot
<1>1. ASSUME bot.pc \in {"retire", "transcribe", "record", "confirmDelete", "gone"},
             UNCHANGED <<discord, faults>>,
             \/ post'.runChannelId = post.runChannelId
             \/ ChannelGone /\ bot.channel \notin discord.live,
             \E phase \in {"provision", "transcribe", "record", "confirmDelete", "delete"} :
                 bot' = Go(phase) \/ \E t : bot' = [Go(phase) EXCEPT !.transcript = t]
      PROVE  ChannelInv'
  <2>1. /\ bot'.pc \in AfterReconciling \ {"recordChannel", "gone"}
        /\ bot'.channel = bot.channel /\ bot'.fresh = bot.fresh /\ bot'.resolved = bot.resolved
    BY <1>1, GoFields DEF AfterReconciling, AfterListing, BotPhases
  <2>2. bot.pc \in AfterReconciling \ {"recordChannel"}
    BY <1>1 DEF AfterReconciling, AfterListing, BotPhases
  <2>3. faults'.lost >= faults.lost
    BY <1>1
  <2> QED BY <1>1, <2>1, <2>2, <2>3, PassMovesOn
<1>2. CASE ConfirmRetirement \/ ConfirmDelete
  BY <1>1, <1>2 DEF ConfirmRetirement, ConfirmDelete, PassOnly
<1>3. CASE Transcribe
  BY <1>1, <1>3 DEF Transcribe, PostOnly
<1>4. CASE RecordArtifacts
  <2>1. post'.runChannelId = post.runChannelId
    BY <1>4 DEF RecordArtifacts, BotTypeOK
  <2> QED BY <1>1, <1>4, <2>1 DEF RecordArtifacts, PostOnly
<1>5. CASE DeleteChannel
  <2>1. /\ bot'.pc = "gone" /\ bot'.channel = bot.channel /\ bot'.fresh = bot.fresh
        /\ bot'.resolved = bot.resolved
    BY <1>5, GoFields DEF DeleteChannel
  <2>2. /\ discord'.live = discord.live \ {bot.channel} /\ discord'.created = discord.created
        /\ UNCHANGED <<post, faults>>
    BY <1>5 DEF DeleteChannel, BotTypeOK
  <2>3. Untracked' \subseteq Untracked /\ faults'.lost >= faults.lost
    BY <2>1, <2>2 DEF Untracked
  <2>4. ChannelsAreTracked'
    BY <2>3, StillTracked DEF ChannelInv
  <2>5. bot.pc = "delete" /\ bot.pc \in AfterListing /\ bot.pc \in AfterReconciling
    BY <1>5 DEF DeleteChannel, AfterListing, AfterReconciling, BotPhases
  <2> QED BY <2>1, <2>2, <2>4, <2>5 DEF ChannelInv
<1>6. CASE RecordChannelGone
  <2>1. bot.channel \notin discord.live
    BY <1>6 DEF RecordChannelGone, ChannelInv
  <2> QED BY <1>1, <1>6, <2>1 DEF RecordChannelGone, PostOnly
<1> QED BY <1>2, <1>3, <1>4, <1>5, <1>6 DEF RetirementLane

\* The late lane's row.
LEMMA ToLateLaneFields ==
    ASSUME BotTypeOK
    PROVE  /\ ToLateLane.pc = "lane" /\ ToLateLane.channel = bot.channel
           /\ ToLateLane.fresh = bot.fresh /\ ToLateLane.resolved = bot.resolved
           /\ ToLateLane.retire = bot.retire /\ ToLateLane.artifactsNeeded = bot.artifactsNeeded
           /\ ToLateLane.transcript = bot.transcript
           /\ DOMAIN ToLateLane = DOMAIN bot
  BY GoFields DEF ToLateLane

LEMMA SignupLaneKeepsChannelInv ==
    ASSUME SyncTypeOK, SyncTypeOK', ChannelInv, SignupLane
    PROVE  ChannelInv'
<1> USE TypesOfTheBot
<1>1. CASE ResolveRunChannel
  <2>1. /\ bot'.pc \in AfterReconciling \ {"recordChannel", "gone"}
        /\ bot'.channel = bot.channel /\ bot'.fresh = bot.fresh /\ bot'.resolved = bot.resolved
    BY <1>1, GoFields, ToLateLaneFields
       DEF ResolveRunChannel, AfterReconciling, AfterListing, BotPhases
  <2>2. bot.pc \in AfterReconciling \ {"recordChannel"}
    BY <1>1 DEF ResolveRunChannel, AfterReconciling, AfterListing, BotPhases
  <2>3. \/ post'.runChannelId = post.runChannelId
        \/ ChannelGone /\ bot.channel \notin discord.live
    BY <1>1, <2>2 DEF ResolveRunChannel, ChannelInv
  <2>4. UNCHANGED discord /\ faults'.lost >= faults.lost
    BY <1>1 DEF ResolveRunChannel, PostOnly
  <2> QED BY <2>1, <2>2, <2>3, <2>4, PassMovesOn
<1>2. CASE CreateChannel
  <2> DEFINE new == discord.created + 1
  <2>1. /\ bot'.pc = "recordChannel" /\ bot'.channel = bot.channel /\ bot'.fresh = new
        /\ bot'.resolved = bot.resolved /\ ~bot.resolved
    BY <1>2, GoFields DEF CreateChannel
  <2>2. /\ discord'.live = discord.live \cup {new} /\ discord'.created = new
        /\ UNCHANGED <<post, faults>> /\ discord.created \in Nat
        /\ post.runChannelId \in Nat /\ bot.channel \in Nat
    BY <1>2 DEF CreateChannel, BotTypeOK, BotRows, Channels, NoChannel
  <2>3. bot.pc = "provision" /\ bot.pc \in AfterListing /\ bot.pc \in AfterReconciling
    BY <1>2 DEF CreateChannel, AfterListing, AfterReconciling, BotPhases
  <2>4. bot.fresh = NoChannel /\ NoChannel \notin discord.live
    BY <2>3 DEF ChannelInv, BotTypeOK, Channels, NoChannel
  <2>5. Untracked' \subseteq Untracked /\ faults'.lost >= faults.lost
    BY <2>1, <2>2, <2>4 DEF Untracked
  <2>6. ChannelsAreTracked'
    BY <2>5, StillTracked DEF ChannelInv
  <2>7. discord'.live \subseteq 1..discord'.created /\ bot.channel # new
    BY <2>2 DEF ChannelInv
  <2> QED BY <2>1, <2>2, <2>3, <2>6, <2>7 DEF ChannelInv
<1>3. CASE RecordChannel
  <2>1. /\ bot'.pc = "signupPost" /\ bot'.channel = bot.fresh /\ bot'.fresh = NoChannel
        /\ bot'.resolved
    BY <1>3, GoFields DEF RecordChannel
  <2>2. post'.runChannelId = bot.fresh /\ UNCHANGED <<discord, faults>>
    BY <1>3 DEF RecordChannel, RecordRunChannel, PostOnly, BotTypeOK
  <2>3. /\ bot.pc = "recordChannel" /\ bot.pc \in AfterListing /\ bot.pc \in AfterReconciling
        /\ bot.fresh = discord.created /\ discord.created \in Nat
    BY <1>3 DEF RecordChannel, ChannelInv, AfterListing, AfterReconciling, BotPhases, BotTypeOK
  <2>4. post.runChannelId \notin discord.live
    BY <2>3 DEF ChannelInv, BotTypeOK, Channels, NoChannel
  <2>5. Untracked' \subseteq Untracked /\ faults'.lost >= faults.lost
    BY <2>1, <2>2, <2>4 DEF Untracked
  <2>6. ChannelsAreTracked'
    BY <2>5, StillTracked DEF ChannelInv
  <2> QED BY <2>1, <2>2, <2>3, <2>6 DEF ChannelInv
<1>4. CASE SignupPost
  <2>1. /\ bot'.pc = "lane" /\ bot'.channel = bot.channel /\ bot'.fresh = bot.fresh
        /\ bot'.resolved = bot.resolved
    BY <1>4, ToLateLaneFields DEF SignupPost
  <2>2. UNCHANGED <<discord, faults>> /\ post'.runChannelId \in {bot.channel, post.runChannelId}
    BY <1>4 DEF SignupPost, PostOnly, BotTypeOK
  <2>3. /\ bot.pc = "signupPost" /\ bot.pc \in AfterListing /\ bot.pc \in AfterReconciling
        /\ bot.fresh = NoChannel /\ NoChannel \notin discord.live
    BY <1>4 DEF SignupPost, ChannelInv, AfterListing, AfterReconciling, BotPhases, BotTypeOK,
                Channels, NoChannel
  <2>4. Untracked' \subseteq Untracked /\ faults'.lost >= faults.lost
    BY <2>1, <2>2, <2>3 DEF Untracked, ChannelInv
  <2>5. ChannelsAreTracked'
    BY <2>4, StillTracked DEF ChannelInv
  <2> QED BY <2>1, <2>2, <2>3, <2>5 DEF ChannelInv
<1> QED BY <1>1, <1>2, <1>3, <1>4 DEF SignupLane

LEMMA FaultsKeepChannelInv ==
    ASSUME SyncTypeOK, SyncTypeOK', ChannelInv, Fault
    PROVE  ChannelInv'
<1> USE TypesOfTheBot
<1>1. faults'.lost >= faults.lost
  BY DEF Fault, SendFails, ReportFails, RetirementFails, ProvisioningFails, BotCrashes,
         ChannelDeletedOutside, Faulty, SyncTypeOK
<1>2. ASSUME bot.pc \in AfterReconciling \ {"recordChannel"}, UNCHANGED <<post, discord>>,
             \/ \E k : bot' = Drop(k)
             \/ bot' = Go("provision")
             \/ bot.fresh = NoChannel /\ bot' = [ToLateLane EXCEPT !.fresh = NoChannel]
      PROVE  ChannelInv'
  <2>1. /\ bot'.pc \in AfterReconciling \ {"recordChannel", "gone"}
        /\ bot'.channel = bot.channel /\ bot'.fresh = bot.fresh /\ bot'.resolved = bot.resolved
    BY <1>2, GoFields, DropFields, ToLateLaneFields DEF AfterReconciling, AfterListing, BotPhases
  <2> QED BY <1>1, <1>2, <2>1, PassMovesOn
<1>3. CASE SendFails \/ ReportFails
  BY <1>2, <1>3 DEF SendFails, ReportFails, AfterReconciling, AfterListing, BotPhases
<1>4. CASE RetirementFails
  BY <1>2, <1>4 DEF RetirementFails, AfterReconciling, AfterListing, BotPhases
<1>5. CASE ProvisioningFails
  <2>1. CASE bot.pc \in {"provision", "signupPost"}
    <3>1. bot.fresh = NoChannel
      BY <2>1 DEF ChannelInv
    <3> QED BY <1>2, <1>5, <2>1, <3>1
            DEF ProvisioningFails, AfterReconciling, AfterListing, BotPhases
  <2>2. CASE bot.pc = "recordChannel" /\ Faulty("lost")
    <3>1. /\ bot'.pc = "lane" /\ bot'.channel = bot.channel /\ bot'.fresh = NoChannel
          /\ bot'.resolved = bot.resolved
      BY <1>5, GoFields, ToLateLaneFields DEF ProvisioningFails
    <3>2. UNCHANGED <<post, discord>> /\ faults'.lost = faults.lost + 1
      BY <1>5, <2>2 DEF ProvisioningFails, Faulty, SyncTypeOK
    <3>3. Untracked' \subseteq Untracked \cup {bot.fresh}
      BY <3>1, <3>2 DEF Untracked
    <3>4. ChannelsAreTracked'
      BY <3>2, <3>3, StillTracked DEF ChannelInv
    <3>5. bot.pc \in AfterListing /\ bot.pc \in AfterReconciling
      BY <2>2 DEF AfterListing, AfterReconciling, BotPhases
    <3> QED BY <2>2, <3>1, <3>2, <3>4, <3>5 DEF ChannelInv
  <2> QED BY <1>5, <2>1, <2>2 DEF ProvisioningFails
<1>6. CASE BotCrashes
  <2>1. UNCHANGED <<post, discord>> /\ bot' = IdleBot /\ faults'.lost = faults.lost + 1
    BY <1>6 DEF BotCrashes, Faulty, SyncTypeOK
  <2>2. Untracked' \subseteq Untracked \cup {bot.fresh}
    BY <2>1 DEF Untracked
  <2>3. ChannelsAreTracked'
    BY <2>1, <2>2, StillTracked DEF ChannelInv
  <2>4. discord.created \in Nat
    BY DEF BotTypeOK
  <2> QED BY <2>1, <2>3, <2>4 DEF ChannelInv, IdleBot, NoChannel, AfterListing, AfterReconciling
<1>7. CASE ChannelDeletedOutside
  <2>1. /\ UNCHANGED <<post, bot>> /\ discord'.live = {} /\ discord'.created = discord.created
    BY <1>7 DEF ChannelDeletedOutside, BotTypeOK
  <2>2. Untracked' \subseteq Untracked
    BY <2>1 DEF Untracked
  <2>3. ChannelsAreTracked'
    BY <1>1, <2>2, StillTracked DEF ChannelInv
  <2> QED BY <2>1, <2>3 DEF ChannelInv
<1> QED BY <1>3, <1>4, <1>5, <1>6, <1>7 DEF Fault

\* Managers change no channel.
LEMMA RequestKeepsChannelInv ==
    ASSUME SyncTypeOK, ChannelInv, NEW p \in Requests, RequestStep(p)
    PROVE  ChannelInv'
<1>1. UNCHANGED <<discord, bot, faults>> /\ post'.runChannelId = post.runChannelId
  BY TypesOfTheBot DEF RequestStep, BotTypeOK
<1> QED BY <1>1 DEF ChannelInv, ChannelsAreTracked

\* Every live channel of the Run is the stored one or the one being recorded,
\* or the id of a channel was lost: for any number of channels and faults.
THEOREM ChannelsAlwaysTracked == SyncSpec => []ChannelsAreTracked
<1>1. SyncTypeOK /\ SyncTypeOK' /\ ChannelInv /\ [SyncNext]_syncVars => ChannelInv'
  <2>1. ASSUME ChannelInv, UNCHANGED syncVars PROVE ChannelInv'
    BY <2>1 DEF syncVars, botVars, ChannelInv, ChannelsAreTracked
  <2> QED BY <2>1, RequestKeepsChannelInv, ListKeepsChannelInv, AnnouncementsKeepChannelInv,
             RetirementKeepsChannelInv, SignupLaneKeepsChannelInv, FaultsKeepChannelInv
          DEF SyncNext, BotStep
<1>2. ChannelInv => ChannelsAreTracked
  BY DEF ChannelInv
<1> QED BY <1>1, <1>2, InitChannelInv, SyncTypeCorrect, PTL DEF SyncSpec

-----------------------------------------------------------------------------
(* The transcript of the first archive. *)

\* Where a request may stand after a step of its own.
LEMMA RequestEffect ==
    ASSUME TypeOK, FirstPeriodInv, NEW p \in Requests, RequestStep(p)
    PROVE  /\ req'[p].pc = "clearing" => ~run'.archivedAt
           /\ req'[p].op = "reactivateRun" /\ req'[p].pc = "locked" => ~run'.archivedAt
           /\ req'[p].op = "restoreRun" /\ req'[p].pc = "loaded" => run'.archivedAt
<1> USE DEF At
<1>1. req \in [Requests -> ReqRows]
  BY DEF TypeOK
<1>2. Idle.pc = "idle"
  BY DEF Idle
<1>3. ASSUME NEW r, req' = [r EXCEPT ![p] = Idle], DOMAIN r = Requests PROVE req'[p] = Idle
  BY <1>3
<1>4. DOMAIN Outdate(req) = Requests /\ DOMAIN req = Requests
  BY <1>1 DEF Outdate
<1>5. CASE LoadStep(p)
  <2>1. ASSUME NEW op, NEW kept, Load(p, op, kept), op = "restoreRun" => run.archivedAt
        PROVE  req'[p].op = op /\ req'[p].pc = "loaded" /\ UNCHANGED run
               /\ (op = "restoreRun" => run.archivedAt)
    BY <1>1, <2>1 DEF Load
  <2>2. CASE LoadRestoreRun(p)
    BY <2>1, <2>2 DEF LoadRestoreRun
  <2>3. CASE LoadOpenRun(p) \/ LoadCancelRun(p) \/ LoadReactivateRun(p) \/ LoadRetireRun(p)
             \/ LoadUpdateRun(p) \/ LoadSaveDraft(p) \/ LoadAddParticipant(p)
    BY <2>1, <2>3 DEF LoadOpenRun, LoadCancelRun, LoadReactivateRun, LoadRetireRun,
                      LoadUpdateRun, LoadSaveDraft, LoadAddParticipant
  <2>4. CASE LoadPublishRoster(p) \/ LoadUpdateRoster(p) \/ LoadStartRun(p)
             \/ LoadCompleteRun(p) \/ LoadArchiveRun(p) \/ LoadLateFillHelp(p)
    BY <2>1, <2>4 DEF LoadPublishRoster, LoadUpdateRoster, LoadStartRun, LoadCompleteRun,
                      LoadArchiveRun, LoadLateFillHelp
  <2>5. ASSUME NEW op \in Ops, LoadSetSignupWindow(p, op)
        PROVE  req'[p].op = op /\ op # "restoreRun" /\ req'[p].pc = "loaded"
    BY <2>1, <2>5 DEF LoadSetSignupWindow
  <2> QED BY <1>5, <2>2, <2>3, <2>4, <2>5 DEF LoadStep
<1>6. CASE ReadStep(p)
  <2>1. ASSUME NEW op, NEW kept, LockAndRead(p, op, kept)
        PROVE  req'[p].op = op /\ req'[p].pc = "locked" /\ UNCHANGED run
    BY <1>1, <2>1 DEF LockAndRead, ReqRows
  <2>2. CASE ReactivateReads(p)
    BY <2>1, <2>2 DEF ReactivateReads, CanReactivateRun
  <2>3. CASE CancelReads(p) \/ RetireReads(p) \/ PublishReads(p) \/ StartReads(p) \/ CompleteReads(p)
    BY <2>1, <2>3 DEF CancelReads, RetireReads, PublishReads, StartReads, CompleteReads
  <2> QED BY <1>6, <2>2, <2>3 DEF ReadStep
<1>7. CASE WriteStep(p)
  <2>1. CASE RestoreRun(p)
    <3>1. ~run'.archivedAt
      BY <2>1 DEF RestoreRun, TypeOK, RunRows
    <3>2. req'[p].pc = "clearing"
      BY <1>1, <2>1 DEF RestoreRun, ReqRows
    <3> QED BY <3>1, <3>2
  <2>2. CASE SaveDraft(p) \/ AddParticipant(p)
    <3>1. PICK op \in {"saveDraft", "addParticipant"}, selects \in BOOLEAN : DraftWrite(p, op, selects)
      BY <2>2 DEF SaveDraft, AddParticipant
    <3>2. req'[p] = Idle \/ req'[p] = [req[p] EXCEPT !.pc = "saved", !.kept = NothingKept, !.fresh = TRUE]
      BY <1>4, <3>1 DEF DraftWrite
    <3>3. req'[p] = Idle \/ req'[p].pc = "saved"
      BY <1>1, <3>2 DEF ReqRows
    <3> QED BY <1>2, <3>3
  <2>3. CASE OpenRun(p) \/ SetSignupWindow(p) \/ StartRostering(p) \/ ArchiveRun(p)
    BY <1>2, <1>3, <1>4, <2>3 DEF OpenRun, SetSignupWindow, StartRostering, ArchiveRun, Finish
  <2>4. CASE PublishCommits(p) \/ UpdateRoster(p)
    BY <1>2, <1>3, <1>4, <2>4 DEF PublishCommits, UpdateRoster
  <2>5. CASE StartCommits(p) \/ CompleteCommits(p)
    BY <1>2, <1>3, <1>4, <2>5 DEF StartCommits, CompleteCommits, Commit, Finish
  <2> QED BY <1>7, <2>1, <2>2, <2>3, <2>4, <2>5 DEF WriteStep
<1>8. CASE Fail(p) \/ RetireCommits(p) \/ CancelCommits(p) \/ RequestHelp(p)
           \/ ClearArchiveArtifacts(p)
  BY <1>2, <1>3, <1>4, <1>8
     DEF Fail, RetireCommits, CancelCommits, RequestHelp, ClearArchiveArtifacts, Commit, Finish
<1>9. ASSUME NEW effect, NEW moved, UpdatePreStart(p, effect, moved) PROVE req'[p] = Idle
  <2> DEFINE r == IF moved \/ (roster.publishedAt /\ effect = "REFRESH_EMBED")
                  THEN Outdate(req) ELSE req
  <2>1. DOMAIN r = Requests
    BY <1>4
  <2>2. req' = [r EXCEPT ![p] = Idle]
    BY <1>9 DEF UpdatePreStart
  <2> HIDE DEF r
  <2> QED BY <1>3, <2>1, <2>2
<1>10. CASE ReactivateCommits(p)
  <2>1. ~run.archivedAt
    BY <1>10 DEF ReactivateCommits, FirstPeriodInv
  <2>2. ~run'.archivedAt
    BY <1>10, <2>1 DEF ReactivateCommits, TypeOK, RunRows
  <2>3. req'[p].pc = "clearing"
    BY <1>1, <1>10 DEF ReactivateCommits, ReqRows
  <2> QED BY <2>2, <2>3
<1> QED BY <1>2, <1>5, <1>6, <1>7, <1>8, <1>9, <1>10
        DEF RequestStep, QuietStep, AnnouncingStep, CancelAnnounces, ReactivateAnnounces,
            EditAnnounces, HelpAnnounces

\* A request that clears the artifacts finds no retirement in the first period.
LEMMA RequestKeepsTranscriptInv ==
    ASSUME TypeOK, SyncTypeOK, TranscriptInv, NEW p \in Requests, RequestStep(p)
    PROVE  TranscriptInv'
<1>1. UNCHANGED bot /\ period' = Period /\ (post' = post \/ ClearArchiveArtifacts(p))
  BY DEF RequestStep
<1>2. period \in Nat \ {0} /\ period' \in Nat \ {0} /\ period' >= period
  BY <1>1 DEF SyncTypeOK, Period
<1>3. post'.artifacts \in {post.artifacts, 0} /\ post.artifacts \in Nat /\ bot.transcript \in Nat
  BY DEF RequestStep, SyncTypeOK, BotRows
<1>4. ASSUME OneRequestAtATime, period' = 1 PROVE FirstPeriodInv'
  <2>1. FirstPeriodInv /\ period' = period
    BY <1>2, <1>4 DEF TranscriptInv
  <2>2. \A q \in Requests : q = p
    BY <1>4 DEF OneRequestAtATime
  <2>3. run.archivedAt => run'.archivedAt
    BY <1>1, <1>2, <2>1 DEF Period
  <2>4. /\ req'[p].pc = "clearing" => ~run'.archivedAt
        /\ req'[p].op = "reactivateRun" /\ req'[p].pc = "locked" => ~run'.archivedAt
        /\ req'[p].op = "restoreRun" /\ req'[p].pc = "loaded" => run'.archivedAt
    BY <2>1, RequestEffect
  <2>5. bot.retire => post' = post
    BY <1>1, <2>1 DEF ClearArchiveArtifacts, FirstPeriodInv
  <2> QED BY <1>1, <2>1, <2>2, <2>3, <2>4, <2>5 DEF FirstPeriodInv, At
<1> QED BY <1>1, <1>2, <1>3, <1>4 DEF TranscriptInv, OneRequestAtATime

\* The pass moves on with the row it has: only a pass that may delete needs the
\* transcript, and only one that retires the channel gets there.
LEMMA PassKeepsTranscriptInv ==
    ASSUME SyncTypeOK, TranscriptInv, UNCHANGED <<run, req, period>>,
           post'.artifacts = post.artifacts,
           \/ UNCHANGED bot
           \/ bot' = IdleBot
           \/ /\ bot'.retire = bot.retire /\ bot'.artifactsNeeded = bot.artifactsNeeded
              /\ bot'.transcript = bot.transcript
              /\ bot'.pc \in {"retire", "transcribe", "confirmDelete", "delete"} => bot.retire
              /\ bot'.pc # "record"
              /\ bot'.pc = "confirmDelete" => ~bot.artifactsNeeded
              /\ bot'.pc = "delete" => bot.pc = "confirmDelete"
    PROVE  TranscriptInv'
<1>1. IdleBot.transcript = 0 /\ ~IdleBot.retire /\ IdleBot.pc = "idle" /\ period \in Nat
  BY DEF IdleBot, SyncTypeOK
<1>2. ASSUME FirstPeriodInv PROVE FirstPeriodInv'
  BY <1>1, <1>2 DEF FirstPeriodInv, At
<1> QED BY <1>1, <1>2 DEF TranscriptInv, OneRequestAtATime

LEMMA BotKeepsTranscriptInv ==
    ASSUME SyncTypeOK, TranscriptInv, BotStep \/ Fault
    PROVE  TranscriptInv'
<1> USE TypesOfTheBot
<1> DEFINE Moves == /\ bot'.retire = bot.retire /\ bot'.artifactsNeeded = bot.artifactsNeeded
                    /\ bot'.transcript = bot.transcript
           Retiring == {"retire", "transcribe", "record", "confirmDelete", "delete"}
<1>1. bot.transcript \in Nat /\ post.artifacts \in Nat /\ period \in Nat \ {0}
  BY DEF SyncTypeOK, BotRows
<1>2. ASSUME ChannelGone PROVE post'.artifacts = post.artifacts
  BY <1>2 DEF ChannelGone, BotTypeOK
<1>3. UNCHANGED <<run, req, period>>
  <2>1. UNCHANGED announcementVars \/ UNCHANGED lifecycleVars
    BY BotTouchesOneRow
  <2>2. UNCHANGED period
    BY DEF BotStep, AnnouncementLane, RetirementLane, SignupLane, Fault, ListPending, ListRuns,
           ReconcileChannels, AnnounceWithoutChannel, ConfirmDelivery, SendAnnouncement,
           CannotSend, ReportSent, LaneDone, ConfirmRetirement, Transcribe, RecordArtifacts,
           ConfirmDelete, DeleteChannel, RecordChannelGone, ResolveRunChannel, CreateChannel,
           RecordChannel, SignupPost, SendFails, ReportFails, RetirementFails,
           ProvisioningFails, BotCrashes, ChannelDeletedOutside, Faulty, PassOnly, ReportOnly,
           PostOnly, websiteVars
  <2> QED BY <2>1, <2>2 DEF announcementVars, lifecycleVars
<1>4. ASSUME Moves, bot'.pc \notin Retiring, post'.artifacts = post.artifacts
      PROVE  TranscriptInv'
  BY <1>3, <1>4, PassKeepsTranscriptInv
<1>5. ASSUME NEW k \in Keys, AnnounceWithoutChannel(k) \/ ConfirmDelivery(k) PROVE TranscriptInv'
  <2>1. bot' = Drop(k) \/ bot' = [Go("send") EXCEPT !.key = k]
    BY <1>5 DEF AnnounceWithoutChannel, ConfirmDelivery
  <2>2. Moves /\ bot'.pc \in {"lane", "send"}
    BY <2>1, GoFields, DropFields
  <2>3. UNCHANGED post
    BY <1>5 DEF AnnounceWithoutChannel, ConfirmDelivery, ReportOnly, PassOnly
  <2> QED BY <1>4, <2>2, <2>3
<1>6. CASE SendAnnouncement \/ CannotSend \/ ReportSent
  <2>1. Moves /\ bot'.pc \in {"lane", "report"}
    BY <1>6, GoFields, DropFields DEF SendAnnouncement, CannotSend, ReportSent
  <2>2. UNCHANGED post
    BY <1>6 DEF SendAnnouncement, CannotSend, ReportSent, ReportOnly
  <2> QED BY <1>4, <2>1, <2>2
<1>7. CASE LaneDone
  <2>1. UNCHANGED post
    BY <1>7 DEF LaneDone, PassOnly
  <2>2. \/ bot' = IdleBot
        \/ Moves /\ (bot'.pc = "provision" \/ (bot'.pc = "retire" /\ bot.retire))
    BY <1>7, GoFields DEF LaneDone
  <2> QED BY <1>3, <2>1, <2>2, PassKeepsTranscriptInv
<1>8. CASE ListPending
  <2>1. Moves /\ bot'.pc = "listed" /\ UNCHANGED post
    BY <1>8 DEF ListPending, Go, PassOnly, BotTypeOK, BotRows
  <2> QED BY <1>4, <2>1
<1>9. CASE ListRuns
  <2>1. UNCHANGED post
    <3>1. PassOnly
      BY <1>9, Zenon DEF ListRuns
    <3> QED BY <3>1 DEF PassOnly
  <2>2. /\ bot'.pc = "reconcile" /\ bot'.transcript = bot.transcript
        /\ bot'.retire => run.archivedAt
        /\ bot'.retire /\ ~bot'.artifactsNeeded => post.artifacts # 0
    BY <1>9, ListedFields
  <2>3. ASSUME period = 1, FirstPeriodInv PROVE FirstPeriodInv'
    <3>1. bot'.retire /\ ~bot'.artifactsNeeded => post.artifacts = 1
      BY <1>1, <2>2, <2>3 DEF TranscriptInv
    <3> QED BY <1>3, <2>1, <2>2, <2>3, <3>1 DEF FirstPeriodInv, At
  <2> QED BY <1>1, <1>3, <2>1, <2>2, <2>3 DEF TranscriptInv, OneRequestAtATime
<1>10. CASE ReconcileChannels
  <2>1. Moves /\ bot'.pc = "lane"
    BY <1>10, GoFields DEF ReconcileChannels
  <2>2. post'.artifacts = post.artifacts
    BY <1>2, <1>10 DEF ReconcileChannels
  <2> QED BY <1>4, <2>1, <2>2
<1>11. CASE ConfirmRetirement \/ ConfirmDelete
  <2>1. UNCHANGED post
    BY <1>11 DEF ConfirmRetirement, ConfirmDelete, PassOnly
  <2>2. /\ Moves /\ bot'.pc # "record" /\ bot.pc \in {"retire", "confirmDelete"}
        /\ bot'.pc = "confirmDelete" => ~bot.artifactsNeeded
        /\ bot'.pc = "delete" => bot.pc = "confirmDelete"
    BY <1>11, GoFields DEF ConfirmRetirement, ConfirmDelete
  <2>3. ASSUME FirstPeriodInv PROVE FirstPeriodInv'
    BY <1>3, <2>1, <2>2, <2>3 DEF FirstPeriodInv, At
  <2> QED BY <1>1, <1>3, <2>1, <2>2, <2>3 DEF TranscriptInv, OneRequestAtATime
<1>12. CASE Transcribe
  <2>1. CASE bot' = Go("provision") /\ ChannelGone
    BY <1>2, <1>4, <2>1, GoFields
  <2>2. CASE bot' = [Go("record") EXCEPT !.transcript = period] /\ UNCHANGED post
    <3>1. /\ bot'.retire = bot.retire /\ bot'.artifactsNeeded = bot.artifactsNeeded
          /\ bot'.transcript = period /\ bot'.pc = "record"
      BY <2>2, GoFields
    <3>2. bot.pc = "transcribe"
      BY <1>12 DEF Transcribe
    <3>3. ASSUME period = 1, FirstPeriodInv PROVE FirstPeriodInv'
      BY <1>3, <2>2, <3>1, <3>2, <3>3 DEF FirstPeriodInv, At
    <3> QED BY <1>1, <1>3, <2>2, <3>1, <3>3 DEF TranscriptInv, OneRequestAtATime
  <2> QED BY <1>12, <2>1, <2>2 DEF Transcribe
<1>13. CASE RecordArtifacts
  <2>1. /\ bot'.retire = bot.retire /\ bot'.artifactsNeeded = bot.artifactsNeeded
        /\ bot'.transcript = 0 /\ bot'.pc = "confirmDelete" /\ bot.pc = "record"
    BY <1>13, GoFields DEF RecordArtifacts
  <2>2. post'.artifacts = bot.transcript
    BY <1>13 DEF RecordArtifacts, BotTypeOK
  <2>3. ASSUME FirstPeriodInv PROVE FirstPeriodInv'
    BY <1>3, <2>1, <2>2, <2>3 DEF FirstPeriodInv, At
  <2> QED BY <1>1, <1>3, <2>1, <2>2, <2>3 DEF TranscriptInv, OneRequestAtATime
<1>14. CASE DeleteChannel \/ RecordChannelGone
  <2>1. Moves /\ bot'.pc \in {"gone", "provision"}
    BY <1>14, GoFields DEF DeleteChannel, RecordChannelGone
  <2>2. post'.artifacts = post.artifacts
    BY <1>2, <1>14 DEF DeleteChannel, RecordChannelGone
  <2> QED BY <1>4, <2>1, <2>2
<1>15. CASE SignupLane
  <2>1. Moves /\ bot'.pc \in {"lane", "signupPost", "recordChannel"}
    <3>1. CASE ResolveRunChannel \/ SignupPost
      BY <3>1, GoFields, ToLateLaneFields DEF ResolveRunChannel, SignupPost
    <3>2. CASE CreateChannel
      BY <3>2, GoFields DEF CreateChannel
    <3>3. CASE RecordChannel
      BY <3>3, GoFields DEF RecordChannel
    <3> QED BY <1>15, <3>1, <3>2, <3>3 DEF SignupLane
  <2>2. post'.artifacts = post.artifacts
    BY <1>2, <1>15 DEF SignupLane, ResolveRunChannel, CreateChannel, RecordChannel, RecordRunChannel,
                       SignupPost, BotTypeOK
  <2> QED BY <1>4, <2>1, <2>2
<1>16. CASE Fault
  <2>1. UNCHANGED post
    BY <1>16 DEF Fault, SendFails, ReportFails, RetirementFails, ProvisioningFails, BotCrashes,
                 ChannelDeletedOutside
  <2>2. \/ UNCHANGED bot \/ bot' = IdleBot
        \/ \E k : bot' = Drop(k)
        \/ bot' = Go("provision")
        \/ bot' = [ToLateLane EXCEPT !.fresh = NoChannel]
    BY <1>16 DEF Fault, SendFails, ReportFails, RetirementFails, ProvisioningFails, BotCrashes,
                 ChannelDeletedOutside
  <2>3. \/ UNCHANGED bot \/ bot' = IdleBot
        \/ Moves /\ bot'.pc \in {"lane", "provision"}
    BY <2>2, GoFields, DropFields, ToLateLaneFields
  <2> QED BY <1>3, <2>1, <2>3, PassKeepsTranscriptInv
<1> QED BY <1>5, <1>6, <1>7, <1>8, <1>9, <1>10, <1>11, <1>12, <1>13, <1>14, <1>15, <1>16
        DEF BotStep, AnnouncementLane, RetirementLane

LEMMA InitTranscriptInv == SyncInit => TranscriptInv
  BY DEF SyncInit, AnnInit, Init, TranscriptInv, FirstPeriodInv, At, Idle, IdleBot

\* Beside one manager request at a time, the first archive never deletes a
\* channel whose transcript is not stored.  (With several, Reactivate's clearing
\* of the artifacts may come after the archive that follows it.)
THEOREM TranscriptAlwaysFirst ==
    ASSUME OneRequestAtATime PROVE SyncSpec => []TranscriptBeforeDelete
<1>1. TypeOK /\ SyncTypeOK /\ TranscriptInv /\ [SyncNext]_syncVars => TranscriptInv'
  <2>1. ASSUME TranscriptInv, UNCHANGED syncVars PROVE TranscriptInv'
    BY <2>1 DEF syncVars, botVars, websiteVars, announcementVars, TranscriptInv, FirstPeriodInv,
                OneRequestAtATime, At
  <2> QED BY <2>1, RequestKeepsTranscriptInv, BotKeepsTranscriptInv DEF SyncNext
<1>2. AnnInv => TypeOK
  BY DEF AnnInv, IInv
<1>3. TranscriptInv => TranscriptBeforeDelete
  BY DEF TranscriptInv, FirstPeriodInv, TranscriptBeforeDelete
<1> QED BY <1>1, <1>2, <1>3, InitTranscriptInv, SyncTypeCorrect, BotImplementsOutbox, AnnInvAlways,
           PTL DEF SyncSpec
=============================================================================
