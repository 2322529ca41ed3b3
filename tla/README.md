# TLA+ models of BoostingHub

BoostingHub plans World of Warcraft boosting Runs: managers open, staff, edit, cancel,
start, complete and archive a Run on a website; players sign up; a weekly schedule makes
Runs; Characters are refreshed from Blizzard; a Discord bot mirrors every Run into a channel
of its own and writes direct messages. This directory models the part of it that is
concurrent: many unsynchronised requests, jobs and passes over one PostgreSQL database, and
a bot that acts on what it read with no common transaction.

Paths below are relative to `src/src/`, those that begin with `docs/` to `src/`.

## 1. Inventory

| Component | State | Operations | What must hold |
|---|---|---|---|
| Run lifecycle (`domain/run-state.ts`, `services/run.service.ts`, `repositories/run.repository.ts`) | `Run`: status, signup window, cancellation snapshot and `cancelRevision`, `archivedAt`, `completedAt` | open, signup window, edit, cancel, reactivate, retire (schedule), archive, restore | a Run starts once; a cancelled Run comes back only by Reactivate; every cycle has its own revision |
| Roster (`services/roster.service.ts`, `repositories/roster.repository.ts`) | `RunRoster` (version, `publishedAt`, `runChangedSinceAck`), draft and published selections, boss exceptions | save, add player, publish, update, seed, clear drafts | a stale builder cannot overwrite; Start only over an acknowledged roster; players know where they stand |
| Start and attendance (`repositories/attendance.repository.ts`) | `RunStartSnapshot`, `RunAttendance` | start, mark, replace, complete | evidence agrees with the status; the started line-up is frozen; a completed Run is fully marked |
| Signups (`services/signup.service.ts`, `repositories/signup.repository.ts`) | `RunSignup` | offer, renew, withdraw an offer, leave a picked slot | offers take no lock, and yet no roster is broken by them |
| Character reservations (`lib/character-reservation-lock.ts`, `domain/character-run-commitment-state.ts`) | one advisory lock per Character; the selections of all Runs | lock, check, write | a Character is not booked on two Runs that start too close |
| Channel announcements (`repositories/run-discord-announcement.repository.ts`) | `RunDiscordAnnouncement`, one row per source key | insert in the lifecycle transaction, skip, report | no lost, contradictory or resurrected message |
| Bot sync pass (`discord-bot/sync-loop.ts`, `services/discord-sync.service.ts`) | work list of a pass, `RunDiscordPost`, `postedAnnouncementIds`, Discord itself | list, reconcile, announce, retire, provision, message | posted when reported, at most one copy, no orphan channel, transcript before delete |
| Notifications and direct messages (`repositories/user-notification.repository.ts`) | `UserNotification`, one row per event and recipient | write in transaction, defer, deliver, report | what a player was last told is the roster; one message per write; the newest boss plan is heard |
| Community schedule (`services/community-schedule*.service.ts`) | slots, links from Runs to occurrences, row locks of slots, the job lock | release pass, Create Run, slot changes, attach | one Run per occurrence, no orphan Run, no gap, no signup lost |
| Character synchronization (`services/character-blizzard-sync.service.ts`, `lib/character-sync-lock.ts`) | item level, stored kills, failure count, the lock session of a process | refresh, notify of kills, check at Start | one sync at a time, no kill lost, players and Raid Leads told |
| Voice channels, schedule posts, strikes, templates, optimizer, Warcraft Logs, audits, accounts, catalog, dashboards, pages | see `PROJECT.json` | | not modelled, with the reason |

How the parts meet. The website's requests share one PostgreSQL database at READ
COMMITTED. The lock of a Run is its `RunRoster` row: `lockRosterInTx` is a no-op
UPDATE that waits for the holder. Some writers take it and re-read (Cancel, Reactivate,
Publish, Start, Complete), some do not (`openRun`, `setSignupWindow`, the ROSTERING write
after a save, `archiveRun`, `restoreRun`, player offers). Rosters of different Runs meet in
the Characters, each with an advisory lock. Schedule slots have row locks, the release pass
and the sync of a Character advisory locks of their own. Lifecycle and roster transactions
insert announcements and notifications in the same commit (an outbox). The bot polls a work
list over HTTP, asks again before an irreversible act, calls Discord, and reports back.

What is hard: requests that check on an old read; ABA of cancellation cycles and of edit
versions; locks taken in two orders; a lock that dies with its database session; jobs that
work from rows listed earlier; the bot's list, check, act and report being four different
moments; a bot that restarts between them; an answer of Discord that never arrives; rows
that can neither be delivered nor settled. `PROJECT.json` lists each at its line.

## 2. Modules

| Module | Models | Extends |
|---|---|---|
| `RunState` | `domain/run-state.ts`: statuses, `RUN_TRANSITIONS`, capability predicates | |
| `RunLifecycle` | all sixteen manager operations on one Run, attendance, players | `RunState`; instances `RunCycle` |
| `RunCycle` | abstract specification: how a Run's status, cancellations and archiving may move | |
| `RunAnnouncements` | the outbox written by those operations; the bot is abstract | `RunLifecycle` |
| `DiscordSync` | the bot's pass over one Run, Discord's channels and messages, faults | `RunAnnouncements` |
| `CharacterBookings` | abstract specification: what rosters promise about a Character | |
| `RosterBookings` | offers and rosters of several Runs over row and advisory locks | instances `CharacterBookings` |
| `RosterNotices` | what roster writes tell players, and the delivery of those messages | |
| `ScheduleBoard` | abstract specification: how slots and the Runs made for them may change | |
| `CommunitySchedule` | slots, release passes, slot changes, attachments | instances `ScheduleBoard` |
| `CharacterSync` | refreshes of one Character, its kills and who hears of them | |
| `..._proofs` | theorems about the module they are named after | that module, TLAPS |
| `CommunityScheduleBoard_proofs` | the types of `CommunitySchedule`, and that it implements `ScheduleBoard` | `CommunitySchedule_proofs` |
| `MCRunLifecycle`, `MCDiscordSync`, `MCRosterBookings`, `MCBackgroundJobs` | constants and initial states for TLC | |

### RunLifecycle

A request is a record in `req`: its operation, where it is, what it kept of the rows it
read, and whether its roster version is still current. `Load...` is the service's plain
read with its checks. What follows depends on the code:

* a transaction that re-reads the Run under the roster lock and then writes the Run row
  is two steps, `...Reads` and `...Commits`: READ COMMITTED and no lock on the Run row mean
  that an unlocked write may fall between them;
* a transaction that does not write the Run row, or locks it first
  (`updatePreStartAtomic`), is one step;
* an unlocked UPDATE is one step with no guard but "the request has loaded".

`Fail` stands for every later refusal, exception and process death of a request; an open
transaction rolls back. The roster is reduced to five facts (`RosterRows`), its version
number to one flag per request: `Outdate` clears `fresh` of everyone who loaded an older
version. The attendance table is reduced to none / some unmarked / all marked.
`PlayerLeaves` writes without the lock, as `withdrawFromRun` does, and may change what
counts as lineup or draft at any moment.

### RunCycle

What the lifecycle promises to whoever looks at a Run: five columns, eleven moves, no request
and no lock. A cancellation remembers the very status it ended and gets the next revision,
only a Run that never started and is not archived comes back, Start happens once, attendance
is marked from Start to Complete and never after. `RunLifecycle` does not implement it as
it stands: `openRun`, the move to ROSTERING after a save and `archiveRun` write what an
unlocked check allowed earlier, which the three `stale_...` runs show. `TimelySpec` is the
lifecycle in which these three write only while no transaction is between its read and its
commit and only over a status they are for (`StatusWritesInTime`, `ArchivesInTime`), and
`FollowsCycle` is `RunCycle` instantiated with the rows. The code does not guarantee
that condition, and is not claimed to: what the refinement shows is that nothing *else* is missing, and
that making these three writes conditional, under the lock, would be enough.

### RunAnnouncements

`ann` gives every source key (type and revision) a delivery status; ABSENT means no row.
The commits of Cancel, Reactivate, Edit and of a help request are the lifecycle actions
conjoined with what the same transaction does to the table. `BotReports` is all that this
level says of the bot: any outcome, for any row that exists, at any time.

The revision of an edit's key is the *loaded* revision plus one, and `runEditVersion` does
not cover it, so `EditKeysOf` lets an older key come again and `InsertIgnoreDuplicate` then
drops the announcement. Which edits are lost this way is not stated.

### DiscordSync

`bot` is one sync pass (`triggerSync` never runs two). Every HTTP or Discord call is a
step: `ListPending` and `ListRuns` are the two database reads of `listSyncWork`,
`ReconcileChannels` finds deleted channels, the early lane posts everything but
RUN_REACTIVATED, then retirement, provisioning and the late lane follow as in
`syncOnceInner`. `post` is `RunDiscordPost`, `discord` the channels that exist, `posts`
counts messages per source key, `memory` is `postedAnnouncementIds`, `period` counts the
active periods of the Run and tells transcripts apart.

Faults: a call fails (`failed`), or a call succeeds and its answer or the whole process is
`lost`. Every lane catches its errors and goes on, so a failed call only drops the item
from the pass.

Abstractions: one Run (so `listPending(50)` is not exhausted); raid weeks are left out (a
Run is always in a bucket in which a channel may be created, unless it is archived); the
archive log channel and the Run category are configured; the signup message's signature
either changed or not. The managers' requests in these runs are one at a time: their
interleavings with each other are what `RunLifecycle` is about. Players and attendance
touch nothing the bot reads here and are left out.

### CharacterBookings and RosterBookings

`CharacterBookings` knows no request, lock or table. `booked` gives each Character its
Runs, `slots` the Runs that still occupy a place in the calendar, and `Rebook` lets a Run
book only Characters that no other Run too close to it has. Two openings are part of the
promise because the code has them: a Run that was moved or reactivated after it had bookings
(`revised`; a reschedule only warns), and a draft slot that survived the withdrawal of its
offer and books the Character again (`slipped`).

`RosterBookings` implements it: `KeepsBookings` is `CharacterBookings` instantiated with
`booked` as the Runs that reserve a Character (SELECTED, or in the draft and not withdrawn)
and `slots` as the Runs before their end. A roster write is a request in `req`: it loads and
plans (`Load...`), locks the `RunRoster` row and checks the version, takes the advisory lock
of each Character it newly books in id order, checks for colliding reservations, and writes;
each is a step. The replacement of a participant takes the locks the other way round,
the Character first and the roster row last, and `NoWaitCycle` shows why that cannot
deadlock: roster writes refuse a started Run before they lock a Character (the order is
claimed at `repositories/roster.repository.ts:302`). Player offers take no lock, write what
they planned on old reads, and drop the draft slot in a second transaction (`clearing`). A
replaced player stays reserved until the Run ends. Status changes are single steps here.

### RosterNotices

A roster write decides whom it tells from what each signup was *last* told, which it reads
from the notifications (`IsNotifiedSelected`); there is no other memory. `row` gives each
signup and roster version its notification: "selected", "swapped" (Roster Update after a
change of Character), "plan" (Boss Plan Update), "removed". `WriteNotices` is the write with
its delivery decision, taken once from the settings of the moment. `lane` is the direct
message lane of a pass: `ListNotices` renders the messages, `ConfirmDm` asks the authority,
`SendDm` sends what was rendered, `RecordDm` reports; `DmFails`, `DmIsRefused` and
`BotRestarts` are its faults. `heard`, `newest` and `delayed` are histories of what reached
the player.

`excused` names the openings of the two invariants: `seeded` (Edit Published puts a line-up
back in silence after a Save that dropped it), `rejoined` (a player told "selected" withdrew
and offered again: the old message still counts), `overtaken` (the plan changed while the
message that was to carry it was already rendered, which is the finding below), `unheard`
(the settings or Discord refused the message).

### ScheduleBoard and CommunitySchedule

`ScheduleBoard` is what somebody sees who looks at the slots and Runs between two commits: a
Run is made or attached for an occurrence that is free and that its slot *has at that
moment*; a change of slots takes, of the Runs that idle in them (made by the schedule, still
to come, never cancelled, no signup), exactly those that the new rows do not cover, and never
one that was attached or that somebody had signed up for. The one opening is `late`: a
signup that comes after the change has looked. There are no requests, passes, locks or old
reads in it. `FollowsBoard` is `ScheduleBoard` instantiated with the rows of
`CommunitySchedule`, which has all of these.

Time is counted in ticks, `Week` of them a raid ID window. A release pass lists the active
slots, then works through them from what it listed: `PassPlans` picks an occurrence,
`CreateScheduleRun` locks the slot row, reads it again and inserts Run and link, or the
creation is refused or fails. Create Run is the same with one occurrence. A slot change
(`updateSlot`, `deactivateSlot`, `deleteSlot`, `deleteRunSetup`) locks each slot it touches,
decides which Runs to retire (`LockSlot`) and commits later; signups take no roster lock and
may fall in between, which `late` records. Attaching an existing Run holds the slot's lock.
`jobLock` keeps two passes apart; the death of a pass frees it.

### CharacterSync

`sync` holds the refreshes in flight. The advisory lock belongs to the one lock session of
a process (`locker`), the in-memory `held` stands in within the process, because a session
may lock again what it has. `LoseSession` is the death of that session under a running
sync: the lock is gone, the sync goes on. Nothing after the lock is a transaction, so every
write is a step: profile, encounters, baseline, one row per raid, notices, failure count.
`pick` follows the Runs the Character may be picked for; `shown` records what was stored at
the pick and at Start, `told` and `reminded` the notices, `untold` and `overwritten` the two
ways in which news is lost.

### MCBackgroundJobs

The schedule, the Character sync and the roster messages share no row, so one behaviour is
about one of them: `job` says which, and the others stand still.

## 3. Runs

| Run | Instance | Shows |
|---|---|---|
| `lifecycle` | two requests of any operation, two cancellations; symmetry of the requests | what was read under the lock holds at the commit; evidence agrees with the status; one start, over an acknowledged roster; no Reactivate after a start; own revision per cancellation |
| `run_cycle` | `TimelySpec` with all sixteen operations | with the three unlocked writes in time the lifecycle implements `RunCycle`, CANCELLED and its snapshot agree, an archived Run has ended: the first three findings below come from those writes alone |
| `discord_sync` | cancel, reactivate, retire, archive, restore; two cycles, two channels, two periods, one fault | the safety properties of the outbox and of the bot |
| `discord_liveness` | cancel, edit, help, archive; one cycle, one fault; fair bot | cancellations and reschedules settle; archived channels are retired |
| `roster_bookings` | two Runs, two Characters, two requests at a time, three in all; starts 0, 1, 2 with a minimum gap of 2; one Run may move | the rosters implement `CharacterBookings`; no double booking, no circle of waiting requests, no overwritten draft, a frozen line-up |
| `background_jobs` | schedule: two slots, three Runs, two requests, two changes. Sync: two refreshes in two processes, two raids, two levels, one pick. Messages: one player with two Characters, two plans, three roster writes | the schedule implements `ScheduleBoard`, leaves no orphan, no gap and no second Run; the sync's and the roster messages' properties |
| `stale_status_write` | violation | `openRun` undoes a concurrent Cancel |
| `stale_archive` | violation | `archiveRun` archives a Run that was just reactivated |
| `stale_rostering` | violation | the ROSTERING write after a save takes a started Run out of IN_PROGRESS |
| `archive_blocked` | violation | a pending RUN_SCOPE_CHANGED of a cancelled Run blocks the retirement for good |
| `transcript_lost` | violation | an archive after a restore deletes the channel with the old transcript |
| `stale_boss_plan` | violation | a published player never hears the published boss plan: the message that was to carry it had been rendered before |

The violations are disagreements with sentences of the repository, quoted under
`findings` in `PROJECT.json`. Type invariants that no run lists, and `LockDiscipline`, are
proved (section 4).

Bounds. Two requests are enough for every pairwise race on the rows, and the locks make
larger groups sequences of pairs; the theorems hold for any number. Two cancellations are
the least for ABA (cancel, reactivate, cancel). Two channels are the least for
a replacement, two periods for an old transcript. One fault reaches each single crash or
lost call in every state of a pass; the properties that count copies or orphans are
stated relative to the number of lost calls. Two Runs and two Characters are the least for
a double booking and for locks taken in different orders; the three starts put the Runs
closer than, exactly at and (after a reschedule) again within the minimum gap; the third
request acts while two are in flight or after both. In the schedule, one slot that makes
Runs, one that may be created and one Run of a Raid Lead are the least for an edit, an
attachment and a pass to compete for an occurrence, and the clock starts the tick before a
release; two changes reach edits there and back. Two refreshes in two processes reach the
lost session; two raids reach a sync that stops between them. One player with two Characters
reaches a change of Character, three roster writes reach select, drop and select again
with a plan that changes on the way, with a message in the lane at any point. `MaxCancels`,
`MaxEdits`, `MaxChannels`, `MaxPeriods`, `MaxFaults`, `MaxRequests`, `MaxNow`,
`MaxChanges`, `MaxFailures` and `MaxVersion` stand in guards and cut behaviours short, they
change none. Symmetry is used in runs without liveness only, and only over values the
specification never tells apart.

Deadlock is checked in the first four runs: a Run always has something left to do there,
requests may fail and start again and the bot polls for ever. `roster_bookings` and
`background_jobs` end when their requests, changes or roster versions are used up, so their
cfgs switch the check off; that requests never block each other is `NoWaitCycle`, that
locks are given back is `NoLockLeaks`.

Fairness. Only the bot's own next step is weakly fair (`FairSyncSpec`): `startSyncLoop`
triggers a pass on an interval, an exception ends the pass and not the loop, each lane
catches the errors of its items, and the bound on faults says that Discord and the website
answer in the end. Nothing is assumed of the managers.

`AnnouncementsSettle` covers RUN_CANCELLED and RUN_RESCHEDULED. RUN_REACTIVATED waits on
purpose while there is no channel, until the next Cancel skips it; RUN_SCOPE_CHANGED and
LATE_FILL_HELP may stay pending when the Run leaves the states in which they may be posted,
which is what `archive_blocked` shows.

## 4. Proofs

TLC checks small instances; the theorems hold for any set of requests, Runs, Characters,
slots, players and bounds. Assumptions are the named ones of the modules: `NoRequest` and
its like are not members of what they stand apart from, `Ops` contains only operation names,
bounds are natural numbers, signups of different players are disjoint. No theorem assumes
anything else, except where the table says so.

| Module | Inductive invariant | Theorems |
|---|---|---|
| `RunLifecycle_proofs` | `TypeOK`, `LockDiscipline`, `LockedReadsHold`, `EvidenceMatchesStatus`; with them `CycleInv`, or `StatusInv` and `ArchiveInv` | these, the four action properties; the properties of `run_cycle` for `TimelySpec`; for `Spec` without stale status writers `CancelledHasSnapshot` and the two status properties that `stale_status_write` and `stale_rostering` refute with them, without `archiveRun` also `FollowsCycle` |
| `RunAnnouncements_proofs` | the above, row types, `CycleRows` | one message per cycle waits, settled stays settled, cycles are announced, pending cancellations are current |
| `DiscordSync_proofs` | `BotTypeOK`, `SendInv`, `ChannelInv`, `TranscriptInv` | `SyncSpec => AnnSpec`; sent was posted, duplicates are explained, channels are tracked; with one request at a time, transcript before delete |
| `RosterBookings_proofs` | `TypeOK`, `NeedIsNew`, `LocksHeld`, `FreshSeesDraft`, `OverwritesWhatItSaw`, `StartKnown`, `CheckedIsFree`; for the circles `WaitInv` | types and all five properties of the run |
| `CommunitySchedule_proofs` | shapes of rows, links, lock holders, retirements, attachments, passes | `NoOrphan`, `OneRunPerOccurrence`, `PassLeavesNoGap`; Runs with signups survive a slot change (`SignedUpRunsSurvive`, part of what `FollowsBoard` checks) |
| `CommunityScheduleBoard_proofs` | the above, `InBounds`, `Decided` | `TypeOK`, `FollowsBoard` |
| `CharacterSync_proofs` | `RefreshTypeOK`, `LockInv`, `RowsInv`, `NewsInv` | types and all six properties of the run |
| `RosterNotices_proofs` | `NoticeTypeOK`, `RowsInv`, `RosterInv`, `NoticesMatchRoster`, `LaneInv`, `OrderInv`, `PlanInv` | types and all four properties of the run |

`RunLifecycle_proofs`. None of the parts is inductive alone: that a start happens once needs
what Start read under the lock to be true at its commit; that needs every writer of those
columns to hold the lock; and the columns that unlocked writes do change (status, signup
window, `archivedAt`) must not be among them, which is why `LockedReadsHold` speaks of
revision, snapshot and evidence and not of the status. The action properties follow from the
invariant. `SnapshotFollowsStatus` needs the stronger `CycleInv`, which also says that nobody
but Reactivate holds the lock over a CANCELLED row, and is inductive only without the stale
status writers.

The refinement of `RunCycle` needs more: `StatusInv` says what each transaction read of
the *status* is still there at its commit (`LockedStatus`), and that status, snapshot,
evidence and `completedAt` tell one story; `ArchiveInv`, that nobody holds the lock to bring
back an archived Run. Both are kept by every step as long as the unlocked writes are in time, and
`NextFollowsCycle` then maps each step to one of `RunCycle` or to a stutter. Where the stale
writers are not among `Ops`, the condition holds by itself, which gives
`OnlyReactivateLeavesCancelled` and `StartedRunsKeepTheirStatus` (and, without `archiveRun`,
`FollowsCycle`) for `Spec`.

`RunAnnouncements_proofs`. `CycleRows`: no row of a cycle lies ahead of `cancelRevision`;
when the reactivation of a cycle has a row, its cancellation no longer waits and the cycle is
over. So the key of the next Cancel or Reactivate is always new, which is
`CyclesAreAnnounced`. `AnnNextIsLifecycle` shows that every step of the outbox is a step of
the lifecycle, so its invariants carry over.

`DiscordSync_proofs`. `BotTypeOK` says that the pass holds a source key exactly while it
sends and reports. With it every step of the composition is a step of `AnnNext` or leaves
the outbox alone (`SyncStepIsAnnStep`): a report for a row that does not exist cannot change
one, and nothing else the pass does reaches the website's rows. So `SyncSpec => AnnSpec`
(`BotImplementsOutbox`) and the outbox theorems carry over. `SendInv` relates each row, the
bot's memory and the messages in Discord: a row that would be sent again (PENDING and not
remembered) has no more messages than answers were lost, and what is in hand for a report
is remembered. `ChannelInv` says which channel each phase of a pass may have in hand.
`TranscriptAlwaysFirst` assumes one manager request at a time: with two, the clearing of the
archive artifacts that follows a Reactivate (`services/run.service.ts:1477`) may land after
the record of the archive that came next, and the property's notion of "first archive" no
longer fits the stored columns.

`RosterBookings_proofs`. A request that has passed its reservation check keeps the advisory
locks of what it newly books until it writes, and every other write that newly books one of
these Characters holds the same lock, so what the check saw is still true at the write
(`CheckedIsFree`). What it does not newly book was booked before, because the version check
makes the draft it overwrites the draft it was loaded with. The refinement follows action by
action: a write is `Rebook`, everything else moves a slot, a start, or nothing.
`NoWaitCycle`: who has checked waits for nobody, because a replacement asks for the roster row
of a started Run, and the holder of a roster row works on one that has not started; who locks
Characters locks them upwards. So a circle would go up for ever. That some member of any set
waits for the greatest Character (`SomeoneIsLast`) would be an induction over the set; kept as an
invariant, one request at a time, it is not.

`CommunitySchedule_proofs`. Whoever retires or creates a Run of a slot holds the slot's row,
so a decision made under the lock is still right at the commit, up to signups and
cancellations, which take no such lock (`RetireOK`, `CoversOrphans`). A pass covers what it
is done with relative to the slot it listed (`ListedOK`, `PassOK`); that the window it
targets is the released one is arithmetic over `Week` and `Release` (`ReleasedIsTheOne`). The types
need a count: a row's version plus the requests that are about to change a slot never exceed
the changes that were begun (`ChangesCounted`), and no window beyond the clock's horizon gets
into a row or a request.
The refinement of `ScheduleBoard` needs that a decision is right in the other direction as
well: what a change is about to take is, if nobody has signed up since, a Run its new rows
will not cover (`RetiresOrphans`; `CoversOrphans` says that it misses none), and the slot an
attachment writes has its occurrence (`AttachFits`). Both last from the look to the commit because
the slot's lock keeps its row and its links as they are, and a Run can only stop idling.
Every commit is then one step of the board, everything else a stutter (`NextOnBoard`);
switching a slot on and creating one are changes that take nobody, by `NoOrphan`.

`CharacterSync_proofs`. `LockInv` relates the lock session, the in-memory set and the
running syncs; `RowsInv` says that what a sync that runs alone has seen contains all that is
stored, so its write takes nothing back; `NewsInv` follows each stored kill to the notice
that tells it or to the sync that still will.

`RosterNotices_proofs`. `Written` collects what any roster write does to the notifications:
only the new version's rows appear, the histories only lose a name when the player is told
anew. From it `WrittenTells`: what a signup was last told is decided by the write or left
alone, because no row lies ahead of the roster version (`RowsInv`). `NoticesMatchRoster` and
`RosterInv` (one slot per player; who is published was told something) then follow write by
write, and so does `OneMessagePerWrite`: two messages to a player would need two slots in the
new or in the old draft. `OrderInv` says that nothing newer was sent than a notice that still
waits its turn, which holds because the lane works the oldest first and never passes one over
except by a failure. `PlanIsHeard` needs `PlanInv`, which follows the plan through a listed
message (`Later`: rendered too early, but another message is waiting behind it).

Only model-checked: liveness (`AnnouncementsSettle`, `ArchivedChannelIsRetired`: fairness is
outside the prover's reach), and of course the violations. Every other property of a passing
run is stated by a theorem.

## 5. Divergences without a finding

Met while modelling; each is in the model, but the sentence it contradicts is too loose to be
checked as a property, or the code cannot do better.

* Reactivate may commit between the bot's delivery authority and its Discord call, and "Run
  cancelled" is then posted for an active Run (docs/DEVELOPER.md:3775 says stale work cannot
  post). Any bot that asks and then sends has this window.
* A slot change retires OPEN Runs without signups, while docs/DEVELOPER.md (about 2055) calls
  only Drafts schedule-owned; changing `firstWindowStartAt` does touch existing Runs,
  unlike the comment at `prisma/contract.prisma` 944; a signup that races the retirement is
  lost with its Run (`services/community-schedule.service.ts:957`, "never touched").
* The item level may fall: the minimum is compared with a row that was loaded before the lock
  (`services/character-blizzard-sync.service.ts:330`). The cooldown is checked on the same
  old read. A sync whose lock session died runs beside another one.
* A kill stored just before a pick is announced although `services/roster-saved-notice.service.ts`
  says kills already saved at the pick are not.
* A player told "selected" who withdraws, offers again and is picked again is not told
  (docs/USER.md:204), and one who is not picked again hears "removed" for a pick they gave up.
  Edit Published after an empty Save leaves published players last told "removed".
* "Roster Selected" may arrive after "removed" when it had waited or failed: the authority
  does not look at newer messages. Roster messages of a cancelled Run are still authorized.
* A player who was published as not selected and is drafted again cannot withdraw, though
  comments say a picked player withdraws until Start. An empty roster can be published.
  `setSignupSelected` is never called.

## 6. What would come next

1. Edit forms with the version of `lib/run-edit-version.ts` and the two revision counters:
   which committed edits lose their announcement.
2. Attendance row by row: replacement beside marking and completion.
3. The rest of the direct messages: invites, withdrawals, lifecycle messages. A RUN_REACTIVATED
   row of a player who withdrew, or a RUN_SCOPE_CHANGED row of a cancelled Run, stays PENDING
   until the Run is archived.
4. Several Runs that share `listPending(50)`; voice channels.

## 7. Not modelled

Permissions, forms and validation of inputs, wording of messages, layout of embeds, raid
weeks, channel naming and ordering, the roster optimizer, imports from Raider.IO
and Warcraft Logs, audits, analytics and the user interface. They either have no
concurrent state or only read what is modelled. `deleteRun` applies to an empty Draft only.

Of the modelled components: single boss exceptions and alternate Characters, external
boosters, lootbuddies, the legacy seeding of a draft, the order of signup row locks inside
`applyOfferPlan`; the usability and adoption of templates, slot composition, the order of
slots in `deleteRunSetup` against an edit of the list; `recordSyncAttempt` failing before
the sync begins, and a lock session the client gives up before PostgreSQL does; a report
that is lost after a direct message was sent duplicates the message, as in `DiscordSync`,
and is not counted here. `PROJECT.json` lists each component with its reason.
