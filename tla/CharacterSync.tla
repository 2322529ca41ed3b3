---------------------------- MODULE CharacterSync ----------------------------
(***************************************************************************)
(* Refreshing one Character from Blizzard: syncLinkedCharacterProfile under *)
(* the advisory lock of character-sync-lock.ts, and what the players and   *)
(* Raid Leads of the Runs it is picked for are told of its new kills       *)
(* (roster-saved-notice and run-start-saved-check services).               *)
(*                                                                         *)
(* Owners, Raid Leads, admins, Start Run and the scheduled job all refresh *)
(* through the same function, in the web process or in the job's.  The     *)
(* lock belongs to the one database session a process keeps for such locks *)
(* and goes with it, whoever is still working under it; within the process *)
(* the set `held` stands in, because a session may lock again what it has. *)
(* Nothing after the lock is a transaction: every write is a step here.    *)
(*                                                                         *)
(* Abstractions: one Character and one raid ID; a tracked raid in one      *)
(* difficulty is a member of Raids; every Run plans all bosses; names,     *)
(* identity checks, cooldowns, backoff, connections and activities are     *)
(* left out: they decide whether a sync is tried or fails, and both are    *)
(* open here.  Blizzard answers with the kills of the moment.              *)
(***************************************************************************)
EXTENDS Integers, FiniteSets

CONSTANTS Syncs,       \* refreshes in flight
          Processes,   \* the web server and the one-shot job
          NoProcess,
          Picks,       \* the Runs the Character may be picked for
          Raids, Bosses,
          Levels,      \* item levels, 0 standing for a missing one
          MaxFailures  \* bound on syncFailureCount

ASSUME RefreshAssumption == /\ Levels \subseteq Nat \ {0}
                            /\ MaxFailures \in Nat
                            /\ NoProcess \notin Processes

VARIABLES locker,     \* whose lock session holds the Character's advisory lock
          held,       \* processes with the Character in `state.held`
          sync,       \* the refreshes
          level,      \* Character.itemLevel
          failures,   \* Character.syncFailureCount
          killed,     \* the bosses killed this reset, as Blizzard knows them
          lockouts,   \* CharacterRaidLockout.killedBossIds
          pick,       \* how far each Run is with its pick
          shown,      \* history: what was stored when the Character was picked, then at Start
          told,       \* ROSTER_CHARACTER_SAVED rows of the player, by Run
          reminded,   \* the ones written at Start
          untold,     \* history: stored by a sync that ended before its notice
          overwritten \* history: stored kills that were taken back

syncLockVars == <<locker, held>>
characterVars == <<level, failures, killed, lockouts>>
pickVars == <<pick, shown, told, reminded>>
historyVars == <<untold, overwritten>>
refreshVars == <<syncLockVars, sync, characterVars, pickVars, historyVars>>

Kills == Raids \X Bosses
NoKills == [raid \in Raids |-> {}]
KillsIn(rows) == {k \in Kills : k[2] \in rows[k[1]]}

Working == {"locked", "applied", "fetched", "storing", "synced", "failing", "failed", "done"}
\* level: of the row loaded before the lock; session: the lock session still
\* lives; alone: no other sync ran at the same time because a session was lost;
\* seen, new, todo: Blizzard's answer, what is new in it, and the rows still to
\* be written; count: the failures read by recordSyncFailure.  What a sync no
\* longer needs is forgotten.
SyncRows == [pc : Working \cup {"loaded", "reserved"}, proc : Processes,
             level : Levels \cup {0}, session : BOOLEAN, alone : BOOLEAN,
             seen : [Raids -> SUBSET Bosses], new : SUBSET Kills, todo : SUBSET Raids,
             count : Nat]
NotSyncing == [pc |-> "idle"]

SyncAt(s, pcs) == sync[s].pc \in pcs
Running(s) == SyncAt(s, Working)
RunningIn(proc) == {s \in Syncs : Running(s) /\ sync[s].proc = proc}
\* New kills s has stored and not told of yet.
Stored(s) == IF SyncAt(s, {"storing"}) THEN {k \in sync[s].new : k[1] \notin sync[s].todo} ELSE {}

RefreshInit == /\ locker = NoProcess
               /\ held = {}
               /\ sync = [s \in Syncs |-> NotSyncing]
               /\ level \in Levels
               /\ failures = 0
               /\ killed \in [Raids -> SUBSET Bosses]
               /\ lockouts \in [Raids -> SUBSET Bosses]
               /\ KillsIn(lockouts) \subseteq KillsIn(killed)
               /\ pick = [r \in Picks |-> "free"]
               /\ shown = [r \in Picks |-> {}]
               /\ told = [r \in Picks |-> {}]
               /\ reminded = [r \in Picks |-> {}]
               /\ untold = {}
               /\ overwritten = {}

-----------------------------------------------------------------------------
(* The lock. *)

\* Any of the callers loads the row, with no lock.
LoadSync(s, proc) ==
    /\ SyncAt(s, {"idle"})
    /\ sync' = [sync EXCEPT ![s] =
           [pc |-> "loaded", proc |-> proc, level |-> level, session |-> TRUE, alone |-> TRUE,
            seen |-> NoKills, new |-> {}, todo |-> {}, count |-> 0]]
    /\ UNCHANGED <<syncLockVars, characterVars, pickVars, historyVars>>

\* Faulty variant: a process does not remember what it holds.
FaultyMayReserve(s) == TRUE
MayReserve(s) == sync[s].proc \notin held

Reserve(s) ==
    /\ SyncAt(s, {"loaded"})
    /\ MayReserve(s)
    /\ held' = held \cup {sync[s].proc}
    /\ sync' = [sync EXCEPT ![s].pc = "reserved"]
    /\ UNCHANGED <<locker, characterVars, pickVars, historyVars>>

\* CHARACTER_SYNC_IN_PROGRESS, within the process.
IsRefused(s) ==
    /\ SyncAt(s, {"loaded"})
    /\ ~MayReserve(s)
    /\ sync' = [sync EXCEPT ![s] = NotSyncing]
    /\ UNCHANGED <<syncLockVars, characterVars, pickVars, historyVars>>

\* Faulty variant: the lock is asked for but the answer is not looked at.
FaultyMayLock(s) == TRUE
\* pg_try_advisory_lock: free, or this very session's.
MayLock(s) == locker \in {NoProcess, sync[s].proc}

TryLock(s) ==
    /\ SyncAt(s, {"reserved"})
    /\ MayLock(s)
    /\ locker' = sync[s].proc
    /\ LET rivals == {t \in Syncs : Running(t) /\ ~sync[t].session} IN
       sync' = [t \in Syncs |->
           IF t = s THEN [sync[s] EXCEPT !.pc = "locked", !.alone = rivals = {}]
           ELSE IF t \in rivals THEN [sync[t] EXCEPT !.alone = FALSE] ELSE sync[t]]
    /\ UNCHANGED <<held, characterVars, pickVars, historyVars>>

\* Locked elsewhere, or no lock session.
GivesUp(s) ==
    /\ SyncAt(s, {"reserved"})
    /\ held' = held \ {sync[s].proc}
    /\ sync' = [sync EXCEPT ![s] = NotSyncing]
    /\ UNCHANGED <<locker, characterVars, pickVars, historyVars>>

\* Faulty variant: a sync whose session is gone forgets to clean up.
FaultyReleasedHeld(s) == IF sync[s].session THEN held \ {sync[s].proc} ELSE held
ReleasedHeld(s) == held \ {sync[s].proc}

\* releaseCharacterSyncLock, in a finally.
ReleaseLock(s) ==
    /\ SyncAt(s, {"synced", "failed", "done"})
    /\ locker' = IF sync[s].session THEN NoProcess ELSE locker
    /\ held' = ReleasedHeld(s)
    /\ sync' = [sync EXCEPT ![s] = NotSyncing]
    /\ UNCHANGED <<characterVars, pickVars, historyVars>>

\* The lock session of a process dies, and its lock with it; the syncs go on.
LoseSession(proc) ==
    /\ locker = proc
    /\ locker' = NoProcess
    /\ sync' = [s \in Syncs |-> IF s \in RunningIn(proc)
                                THEN [sync[s] EXCEPT !.session = FALSE] ELSE sync[s]]
    /\ UNCHANGED <<held, characterVars, pickVars, historyVars>>

-----------------------------------------------------------------------------
(* The sync. *)

\* resolveMonotonicItemLevel
MonotonicItemLevel(s, incoming) == IF sync[s].level > incoming THEN sync[s].level ELSE incoming

\* Profile, checks and applyBlizzardSync, which also clears the failures.
ApplyProfile(s) ==
    /\ SyncAt(s, {"locked"})
    /\ \E incoming \in Levels \cup {0} : level' = MonotonicItemLevel(s, incoming)
    /\ failures' = 0
    /\ sync' = [sync EXCEPT ![s].pc = "applied", ![s].level = 0]
    /\ UNCHANGED <<syncLockVars, killed, lockouts, pickVars, historyVars>>

FetchEncounters(s) ==
    /\ SyncAt(s, {"applied"})
    /\ sync' = [sync EXCEPT ![s].pc = "fetched", ![s].seen = killed]
    /\ UNCHANGED <<syncLockVars, characterVars, pickVars, historyVars>>

\* newlyKilledBossIds, against the rows stored before this sync.
ReadBaseline(s) ==
    /\ SyncAt(s, {"fetched"})
    /\ sync' = [sync EXCEPT ![s].pc = "storing", ![s].todo = Raids,
                            ![s].new = KillsIn(sync[s].seen) \ KillsIn(lockouts)]
    /\ UNCHANGED <<syncLockVars, characterVars, pickVars, historyVars>>

\* One row of replaceVerifiedCurrentResetLockouts.
StoreRaid(s, raid) ==
    /\ SyncAt(s, {"storing"})
    /\ raid \in sync[s].todo
    /\ lockouts' = [lockouts EXCEPT ![raid] = sync[s].seen[raid]]
    /\ overwritten' = overwritten \cup (KillsIn(lockouts) \ KillsIn(lockouts'))
    /\ sync' = [sync EXCEPT ![s].todo = @ \ {raid}]
    /\ UNCHANGED <<syncLockVars, level, failures, killed, pickVars, untold>>

\* Faulty variant: the pick is looked at only after Start.
FaultyIsNoticed(r) == pick[r] = "started"
\* NOTICE_RUN_STATUSES
IsNoticed(r) == pick[r] = "picked"

\* notifyNewKills: a notice names all kills of the sync, if one of them is new.
NotifyNewKills(s) ==
    /\ SyncAt(s, {"storing"})
    /\ sync[s].todo = {}
    /\ told' = [r \in Picks |-> IF IsNoticed(r) /\ sync[s].new # {}
                                THEN told[r] \cup KillsIn(sync[s].seen) ELSE told[r]]
    /\ sync' = [sync EXCEPT ![s].pc = "synced", ![s].seen = NoKills, ![s].new = {}]
    /\ UNCHANGED <<syncLockVars, characterVars, pick, shown, reminded, historyVars>>

\* Any error of the lockouts or of the notices is swallowed.
LockoutsFail(s) ==
    /\ SyncAt(s, {"applied", "fetched", "storing"})
    /\ sync' = [sync EXCEPT ![s].pc = "synced", ![s].seen = NoKills, ![s].new = {}, ![s].todo = {}]
    /\ untold' = untold \cup Stored(s)
    /\ UNCHANGED <<syncLockVars, characterVars, pickVars, overwritten>>

\* The sync throws; recordSyncFailure reads the counter.
FailSync(s) ==
    /\ SyncAt(s, {"locked", "applied", "synced"})
    /\ sync' = [sync EXCEPT ![s].pc = "failing", ![s].level = 0,
                            ![s].count = failures]
    /\ UNCHANGED <<syncLockVars, characterVars, pickVars, historyVars>>

RecordSyncFailure(s) ==
    /\ SyncAt(s, {"failing"})
    /\ sync[s].count < MaxFailures
    /\ failures' = sync[s].count + 1
    /\ sync' = [sync EXCEPT ![s].pc = "failed", ![s].count = 0]
    /\ UNCHANGED <<syncLockVars, level, killed, lockouts, pickVars, historyVars>>

\* character_sync_telemetry_write_failed
TelemetryFails(s) ==
    /\ SyncAt(s, {"failing"})
    /\ sync' = [sync EXCEPT ![s].pc = "done", ![s].count = 0]
    /\ UNCHANGED <<syncLockVars, characterVars, pickVars, historyVars>>

\* The process dies, with its lock session and its memory.
SyncProcessDies(proc) ==
    /\ \E s \in Syncs : ~SyncAt(s, {"idle"}) /\ sync[s].proc = proc
    /\ locker' = IF locker = proc THEN NoProcess ELSE locker
    /\ held' = held \ {proc}
    /\ LET dead == {s \in Syncs : ~SyncAt(s, {"idle"}) /\ sync[s].proc = proc} IN
       /\ sync' = [s \in Syncs |-> IF s \in dead THEN NotSyncing ELSE sync[s]]
       /\ untold' = untold \cup UNION {Stored(s) : s \in dead}
    /\ UNCHANGED <<characterVars, pickVars, overwritten>>

-----------------------------------------------------------------------------
(* The game, the rosters and Start Run's second look. *)

Kill(raid, boss) ==
    /\ boss \notin killed[raid]
    /\ killed' = [killed EXCEPT ![raid] = @ \cup {boss}]
    /\ UNCHANGED <<syncLockVars, sync, level, failures, lockouts, pickVars, historyVars>>

SetPick(r, stage) ==
    /\ pick' = [pick EXCEPT ![r] = stage]
    /\ shown' = [shown EXCEPT ![r] = IF stage = "free" THEN {} ELSE KillsIn(lockouts)]
    /\ UNCHANGED <<syncLockVars, sync, characterVars, told, reminded, historyVars>>

\* Into the draft, out of it, or withdrawn.
PickCharacter(r) == pick[r] = "free" /\ SetPick(r, "picked")
DropCharacter(r) == pick[r] = "picked" /\ SetPick(r, "free")
StartPickedRun(r) == pick[r] = "picked" /\ SetPick(r, "started")

\* Faulty variant: the check relies on the notices before it.
FaultySavedAtStart(r) == told[r]
SavedAtStart(r) == KillsIn(lockouts)

\* runStartSavedCheckService, once after Start and after a sync of its own,
\* whether that succeeded, failed, was refused or is missing here altogether.
RemindAtStart(r) ==
    /\ pick[r] = "started"
    /\ reminded' = [reminded EXCEPT ![r] = @ \cup SavedAtStart(r)]
    /\ pick' = [pick EXCEPT ![r] = "checked"]
    /\ UNCHANGED <<syncLockVars, sync, characterVars, shown, told, historyVars>>

RefreshStep(s) ==
    \/ Reserve(s) \/ IsRefused(s) \/ TryLock(s) \/ GivesUp(s) \/ ReleaseLock(s)
    \/ ApplyProfile(s) \/ FetchEncounters(s) \/ ReadBaseline(s)
    \/ NotifyNewKills(s) \/ LockoutsFail(s)
    \/ FailSync(s) \/ RecordSyncFailure(s) \/ TelemetryFails(s)
    \/ \E raid \in Raids : StoreRaid(s, raid)
    \/ \E proc \in Processes : LoadSync(s, proc)

RefreshNext == \/ \E s \in Syncs : RefreshStep(s)
               \/ \E proc \in Processes : LoseSession(proc) \/ SyncProcessDies(proc)
               \/ \E raid \in Raids, boss \in Bosses : Kill(raid, boss)
               \/ \E r \in Picks : \/ PickCharacter(r) \/ DropCharacter(r)
                                  \/ StartPickedRun(r) \/ RemindAtStart(r)

RefreshSpec == RefreshInit /\ [][RefreshNext]_refreshVars

-----------------------------------------------------------------------------
(* Properties. *)

\* Every variable keeps its type.
RefreshTypeOK == /\ locker \in Processes \cup {NoProcess}
                 /\ held \subseteq Processes
                 /\ sync \in [Syncs -> SyncRows \cup {NotSyncing}]
                 /\ level \in Levels
                 /\ failures \in 0 .. MaxFailures
                 /\ killed \in [Raids -> SUBSET Bosses]
                 /\ lockouts \in [Raids -> SUBSET Bosses]
                 /\ pick \in [Picks -> {"free", "picked", "started", "checked"}]
                 /\ shown \in [Picks -> SUBSET Kills]
                 /\ told \in [Picks -> SUBSET Kills]
                 /\ reminded \in [Picks -> SUBSET Kills]
                 /\ untold \subseteq Kills
                 /\ overwritten \subseteq Kills

\* Two syncs of a Character never run at the same time, in one process or in
\* two, unless the lock session of one of them died under it ("never a double
\* sync of the same Character", character-sync-lock.ts).
ExclusiveSync ==
    \A s, t \in Syncs :
        s # t /\ Running(s) /\ Running(t) => ~(sync[s].session /\ sync[t].session)

\* Neither the advisory lock nor the entry in `held` outlives the sync it was
\* taken for, however that ended: the Character can be synced again.
NoLockLeaks ==
    /\ locker # NoProcess => \E s \in RunningIn(locker) : sync[s].session
    /\ \A proc \in held : \E s \in Syncs :
           (Running(s) \/ SyncAt(s, {"reserved"})) /\ sync[s].proc = proc

\* A stored kill is only ever taken back by a sync that did not run alone.
StoredKillsStay ==
    [][KillsIn(lockouts) \subseteq KillsIn(lockouts')
       \/ \E s \in Syncs : Running(s) /\ ~sync[s].alone]_refreshVars

\* Once a kill is stored, the player of every Run the Character was picked for
\* before has been told, or the sync that stored it is about to; a sync that
\* fails after storing it loses the news for good, because the next one finds
\* nothing new.
NewKillsAreTold ==
    \A r \in Picks : pick[r] = "picked" =>
        KillsIn(lockouts) \subseteq shown[r] \cup told[r] \cup (UNION {Stored(s) : s \in Syncs})
                                    \cup untold \cup overwritten

\* Start Run's check makes up for all of that: whatever was stored at Start is
\* in its reminder, even when its own sync failed or was refused.
StartCheckReminds ==
    \A r \in Picks : pick[r] = "checked" => shown[r] \subseteq reminded[r] \cup overwritten

\* Every failure that is recorded counts once, on top of all before it ("the
\* read-then-increment cannot race another attempt", character.repository.ts),
\* while syncs run alone.
FailuresCountUp ==
    [][\A s \in Syncs :
          sync[s].pc = "failing" /\ sync'[s].pc = "failed" /\ sync[s].alone
          => failures' = failures + 1]_refreshVars
=============================================================================
