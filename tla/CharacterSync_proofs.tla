------------------------ MODULE CharacterSync_proofs ------------------------
(***************************************************************************)
(* TLAPS proofs about CharacterSync: for any refreshes, processes, raids   *)
(* and Runs, only a lost lock session lets two syncs of a Character run at *)
(* once, no lock is left behind, no sync that runs alone takes a stored    *)
(* kill back or miscounts a failure, and the players are told.             *)
(***************************************************************************)
EXTENDS CharacterSync, TLAPS

Holding(s) == SyncAt(s, Working \cup {"reserved"})

\* The level that the profile is compared with is the one of a row, and a sync
\* that asks for the lock has a session to ask with.
Loaded(s) == /\ SyncAt(s, {"loaded", "reserved", "locked"}) => sync[s].level \in Levels
             /\ SyncAt(s, {"loaded", "reserved"}) => sync[s].session

\* Who has which lock.
SessionHolds(s) == Running(s) /\ sync[s].session => locker = sync[s].proc
HeldHere(s) == Holding(s) => sync[s].proc \in held
OnePerProcess(s, t) == s # t /\ Holding(s) /\ Holding(t) => sync[s].proc # sync[t].proc
NotAlone(s, t) == s # t /\ Running(s) /\ Running(t) => ~sync[s].alone

LockInv == /\ \A s \in Syncs : Loaded(s) /\ SessionHolds(s) /\ HeldHere(s)
           /\ \A s, t \in Syncs : OnePerProcess(s, t) /\ NotAlone(s, t)
           /\ NoLockLeaks

\* What a sync has seen is true for ever, and has all that is stored as long as
\* the sync is alone.
Seen(s) ==
    SyncAt(s, {"fetched", "storing"}) =>
        \A raid \in Raids :
            /\ sync[s].seen[raid] \subseteq killed[raid]
            /\ sync[s].alone => lockouts[raid] \subseteq sync[s].seen[raid]
Counted(s) == SyncAt(s, {"failing"}) /\ sync[s].alone => sync[s].count = failures

RowsInv == /\ \A raid \in Raids : lockouts[raid] \subseteq killed[raid]
           /\ \A s \in Syncs : Seen(s) /\ Counted(s)

\* What is new to a sync, and what was stored when the Run was started.
News(s) ==
    SyncAt(s, {"storing"}) =>
        /\ sync[s].new \subseteq KillsIn(sync[s].seen)
        /\ KillsIn(sync[s].seen) \subseteq sync[s].new \cup KillsIn(lockouts) \cup overwritten
Shown(r) == pick[r] = "started" => shown[r] \subseteq KillsIn(lockouts) \cup overwritten

NewsInv == /\ \A s \in Syncs : News(s)
           /\ \A r \in Picks : Shown(r)
           /\ NewKillsAreTold
           /\ StartCheckReminds

IInv == RefreshTypeOK /\ LockInv /\ RowsInv /\ NewsInv

-----------------------------------------------------------------------------
(* Types. *)

\* The steps of a sync under its lock, the ones that take or lose locks, and
\* the ones of everybody else.
WorkStep(s) == \/ ApplyProfile(s) \/ FetchEncounters(s) \/ ReadBaseline(s)
               \/ NotifyNewKills(s) \/ LockoutsFail(s)
               \/ FailSync(s) \/ RecordSyncFailure(s) \/ TelemetryFails(s)
               \/ \E raid \in Raids : StoreRaid(s, raid)
LockStep(s) == \/ Reserve(s) \/ IsRefused(s) \/ TryLock(s) \/ GivesUp(s) \/ ReleaseLock(s)
               \/ \E proc \in Processes : LoadSync(s, proc)
OtherStep == \/ \E raid \in Raids, boss \in Bosses : Kill(raid, boss)
             \/ \E r \in Picks : \/ PickCharacter(r) \/ DropCharacter(r)
                                 \/ StartPickedRun(r) \/ RemindAtStart(r)

LEMMA StepKinds ==
  RefreshNext <=> \/ \E s \in Syncs : WorkStep(s) \/ LockStep(s)
                  \/ \E proc \in Processes : LoseSession(proc) \/ SyncProcessDies(proc)
                  \/ OtherStep
BY DEF RefreshNext, RefreshStep, WorkStep, LockStep, OtherStep

LEMMA RowOf ==
  ASSUME RefreshTypeOK, NEW s \in Syncs, sync[s].pc # "idle"
  PROVE  sync[s] \in SyncRows
BY DEF RefreshTypeOK, NotSyncing

LEMMA HigherIsALevel ==
  ASSUME NEW stored \in Levels, NEW incoming \in Levels \cup {0}
  PROVE  (IF stored > incoming THEN stored ELSE incoming) \in Levels
BY RefreshAssumption

LEMMA KillsAreKills ==
  ASSUME NEW rows
  PROVE  KillsIn(rows) \subseteq Kills
BY DEF KillsIn

\* What a step under the lock leaves alone: the locks, the other syncs, and
\* whose the sync is.
LEMMA WorkKeepsHolders ==
  ASSUME RefreshTypeOK, NEW s \in Syncs, WorkStep(s)
  PROVE  /\ UNCHANGED syncLockVars
         /\ \A t \in Syncs \ {s} : sync'[t] = sync[t]
         /\ sync[s].pc \in Working /\ sync'[s].pc \in Working
         /\ sync'[s] \in SyncRows
         /\ sync'[s].proc = sync[s].proc
         /\ sync'[s].session = sync[s].session
         /\ sync'[s].alone = sync[s].alone
<1>1. sync[s].pc # "idle" /\ sync[s].pc \in Working
  BY DEF WorkStep, ApplyProfile, FetchEncounters, ReadBaseline, NotifyNewKills, LockoutsFail,
         FailSync, RecordSyncFailure, TelemetryFails, StoreRaid, SyncAt, Working
<1>2. sync[s] \in SyncRows /\ sync \in [Syncs -> SyncRows \cup {NotSyncing}]
  BY <1>1, RowOf DEF RefreshTypeOK
<1>3. CASE ApplyProfile(s) \/ FetchEncounters(s) \/ FailSync(s) \/ RecordSyncFailure(s) \/ TelemetryFails(s)
  BY <1>1, <1>2, <1>3 DEF ApplyProfile, FetchEncounters, FailSync, RecordSyncFailure, TelemetryFails,
                          RefreshTypeOK, SyncRows, Working, syncLockVars
<1>4. CASE ReadBaseline(s)
  <2>1. KillsIn(sync[s].seen) \ KillsIn(lockouts) \subseteq Kills
    BY KillsAreKills
  <2> QED BY <1>1, <1>2, <1>4, <2>1 DEF ReadBaseline, SyncRows, Working, syncLockVars
<1>5. CASE NotifyNewKills(s) \/ LockoutsFail(s)
  BY <1>1, <1>2, <1>5 DEF NotifyNewKills, LockoutsFail, SyncRows, Working, syncLockVars, NoKills
<1>6. CASE \E raid \in Raids : StoreRaid(s, raid)
  BY <1>1, <1>2, <1>6 DEF StoreRaid, SyncRows, Working, syncLockVars
<1> QED BY <1>3, <1>4, <1>5, <1>6 DEF WorkStep

LEMMA InitIsTyped == RefreshInit => RefreshTypeOK
BY RefreshAssumption DEF RefreshInit, RefreshTypeOK, NotSyncing, Kills

LEMMA StepIsTyped ==
  ASSUME RefreshTypeOK, \A s \in Syncs : Loaded(s), [RefreshNext]_refreshVars
  PROVE  RefreshTypeOK'
<1> USE RefreshAssumption DEF RefreshTypeOK
<1>1. ASSUME NEW s \in Syncs, WorkStep(s) PROVE RefreshTypeOK'
  <2>1. UNCHANGED syncLockVars /\ sync' \in [Syncs -> SyncRows \cup {NotSyncing}]
    <3>1. DOMAIN sync' = Syncs /\ sync' = [t \in Syncs |-> sync'[t]]
      BY <1>1 DEF WorkStep, ApplyProfile, FetchEncounters, ReadBaseline, NotifyNewKills, LockoutsFail,
                  FailSync, RecordSyncFailure, TelemetryFails, StoreRaid
    <3> QED BY <1>1, <3>1, WorkKeepsHolders
  <2>2. sync[s] \in SyncRows
    BY <1>1, WorkKeepsHolders, RowOf DEF Working
  <2>3. UNCHANGED <<killed, pick, shown, reminded>>
    BY <1>1 DEF WorkStep, ApplyProfile, FetchEncounters, ReadBaseline, NotifyNewKills, LockoutsFail,
                FailSync, RecordSyncFailure, TelemetryFails, StoreRaid, characterVars, pickVars
  <2>4. level' \in Levels /\ failures' \in 0 .. MaxFailures
    <3>1. CASE ApplyProfile(s)
      <4>1. sync[s].level \in Levels
        BY <3>1, <1>1 DEF ApplyProfile, Loaded, SyncAt
      <4>2. PICK incoming \in Levels \cup {0} : level' = MonotonicItemLevel(s, incoming)
        BY <3>1 DEF ApplyProfile
      <4>3. level' \in Levels
        BY <4>1, <4>2, HigherIsALevel DEF MonotonicItemLevel
      <4> QED BY <3>1, <4>3 DEF ApplyProfile
    <3>2. CASE RecordSyncFailure(s)
      BY <2>2, <3>2 DEF RecordSyncFailure, SyncRows
    <3>3. CASE ~ApplyProfile(s) /\ ~RecordSyncFailure(s)
      BY <1>1, <3>3 DEF WorkStep, FetchEncounters, ReadBaseline, NotifyNewKills, LockoutsFail,
                        FailSync, TelemetryFails, StoreRaid, characterVars
    <3> QED BY <3>1, <3>2, <3>3
  <2>5. lockouts' \in [Raids -> SUBSET Bosses] /\ overwritten' \subseteq Kills
    <3>1. ASSUME NEW raid \in Raids, StoreRaid(s, raid)
          PROVE  lockouts' \in [Raids -> SUBSET Bosses] /\ overwritten' \subseteq Kills
      BY <2>2, <3>1, KillsAreKills DEF StoreRaid, SyncRows
    <3>2. CASE ~\E raid \in Raids : StoreRaid(s, raid)
      BY <1>1, <3>2 DEF WorkStep, ApplyProfile, FetchEncounters, ReadBaseline, NotifyNewKills, LockoutsFail,
                  FailSync, RecordSyncFailure, TelemetryFails, characterVars, historyVars
    <3> QED BY <3>1, <3>2
  <2>6. told' \in [Picks -> SUBSET Kills]
    <3>1. CASE NotifyNewKills(s)
      BY <3>1, KillsAreKills DEF NotifyNewKills
    <3>2. CASE ~NotifyNewKills(s)
      BY <1>1, <3>2 DEF WorkStep, ApplyProfile, FetchEncounters, ReadBaseline, LockoutsFail,
                  FailSync, RecordSyncFailure, TelemetryFails, StoreRaid, pickVars
    <3> QED BY <3>1, <3>2
  <2>7. untold' \subseteq Kills
    <3>1. Stored(s) \subseteq Kills
      BY <2>2 DEF Stored, SyncRows
    <3> QED BY <1>1, <3>1 DEF WorkStep, ApplyProfile, FetchEncounters, ReadBaseline, NotifyNewKills,
                  LockoutsFail, FailSync, RecordSyncFailure, TelemetryFails, StoreRaid, historyVars
  <2> QED BY <2>1, <2>3, <2>4, <2>5, <2>6, <2>7 DEF syncLockVars
<1>2. ASSUME NEW s \in Syncs, LockStep(s) PROVE RefreshTypeOK'
  <2>1. UNCHANGED <<characterVars, pickVars, historyVars>>
    BY <1>2 DEF LockStep, Reserve, IsRefused, TryLock, GivesUp, ReleaseLock, LoadSync
  <2>2. CASE Reserve(s)
    BY <2>1, <2>2, RowOf DEF Reserve, SyncAt, SyncRows, characterVars, pickVars, historyVars
  <2>3. CASE IsRefused(s) \/ GivesUp(s)
    BY <2>1, <2>3 DEF IsRefused, GivesUp, syncLockVars, characterVars, pickVars, historyVars
  <2>4. CASE TryLock(s)
    <3>1. sync[s] \in SyncRows
      BY <2>4, RowOf DEF TryLock, SyncAt
    <3>2. \A t \in Syncs : Running(t) => sync[t] \in SyncRows
      BY RowOf DEF Running, SyncAt, Working
    <3>3. sync' \in [Syncs -> SyncRows \cup {NotSyncing}]
      <4> DEFINE rivals == {t \in Syncs : Running(t) /\ ~sync[t].session}
      <4>1. sync' = [t \in Syncs |->
               IF t = s THEN [sync[s] EXCEPT !.pc = "locked", !.alone = rivals = {}]
               ELSE IF t \in rivals THEN [sync[t] EXCEPT !.alone = FALSE] ELSE sync[t]]
        BY <2>4 DEF TryLock
      <4>2. [sync[s] EXCEPT !.pc = "locked", !.alone = rivals = {}] \in SyncRows
        BY <3>1 DEF SyncRows, Working
      <4>3. \A t \in rivals : [sync[t] EXCEPT !.alone = FALSE] \in SyncRows
        BY <3>2 DEF SyncRows
      <4> QED BY <4>1, <4>2, <4>3
    <3>4. UNCHANGED held /\ locker' = sync[s].proc /\ sync[s].proc \in Processes
      BY <2>4, <3>1 DEF TryLock, SyncRows
    <3> QED BY <2>1, <3>3, <3>4 DEF characterVars, pickVars, historyVars
  <2>5. CASE ReleaseLock(s)
    BY <2>1, <2>5 DEF ReleaseLock, ReleasedHeld, characterVars, pickVars, historyVars
  <2>6. ASSUME NEW proc \in Processes, LoadSync(s, proc) PROVE RefreshTypeOK'
    <3>1. [pc |-> "loaded", proc |-> proc, level |-> level, session |-> TRUE, alone |-> TRUE,
            seen |-> NoKills, new |-> {}, todo |-> {}, count |-> 0] \in SyncRows
      BY DEF SyncRows, NoKills
    <3> QED BY <2>1, <2>6, <3>1 DEF LoadSync, syncLockVars, characterVars, pickVars, historyVars
  <2> QED BY <1>2, <2>2, <2>3, <2>4, <2>5, <2>6 DEF LockStep
<1>3. ASSUME NEW proc \in Processes, LoseSession(proc) PROVE RefreshTypeOK'
  <2>1. \A s \in RunningIn(proc) : s \in Syncs /\ sync[s].pc # "idle"
    BY DEF RunningIn, Running, SyncAt, Working
  <2>2. \A s \in RunningIn(proc) : sync[s] \in SyncRows
    BY <2>1, RowOf
  <2>3. \A s \in RunningIn(proc) : [sync[s] EXCEPT !.session = FALSE] \in SyncRows
    BY <2>2 DEF SyncRows
  <2> QED BY <1>3, <2>3 DEF LoseSession, characterVars, pickVars, historyVars
<1>4. ASSUME NEW proc \in Processes, SyncProcessDies(proc) PROVE RefreshTypeOK'
  <2>1. \A s \in Syncs : Stored(s) \subseteq Kills
    BY RowOf DEF Stored, SyncAt, SyncRows
  <2> QED BY <1>4, <2>1 DEF SyncProcessDies, characterVars, pickVars
<1>5. CASE OtherStep
  BY <1>5, KillsAreKills DEF OtherStep, Kill, PickCharacter, DropCharacter, StartPickedRun, SetPick,
        RemindAtStart, SavedAtStart, syncLockVars, characterVars, pickVars, historyVars
<1>6. CASE UNCHANGED refreshVars
  BY <1>6 DEF refreshVars, syncLockVars, characterVars, pickVars, historyVars
<1> QED BY <1>1, <1>2, <1>3, <1>4, <1>5, <1>6, StepKinds

-----------------------------------------------------------------------------
(* The locks. *)

LEMMA InitLocks == RefreshInit => LockInv
BY DEF RefreshInit, LockInv, Loaded, SessionHolds, HeldHere, OnePerProcess, NotAlone, NoLockLeaks,
       Holding, Running, SyncAt, NotSyncing, Working

\* A session that a running sync still has is the only one with the lock.
LEMMA RunnersShareNoSession ==
  ASSUME LockInv, NEW s \in Syncs, NEW t \in Syncs, s # t, Running(s), Holding(t), sync[s].session
  PROVE  locker = sync[s].proc /\ sync[s].proc # sync[t].proc
BY DEF LockInv, SessionHolds, OnePerProcess, Holding, Running, SyncAt

LEMMA StepKeepsLocks ==
  ASSUME RefreshTypeOK, LockInv, [RefreshNext]_refreshVars
  PROVE  LockInv'
<1> USE DEF LockInv, Loaded, SessionHolds, HeldHere, OnePerProcess, NotAlone, NoLockLeaks,
            Holding, Running, RunningIn, SyncAt, NotSyncing, Working
<1>0. DOMAIN sync = Syncs /\ \A s \in Syncs : sync[s].pc # "idle" => sync[s] \in SyncRows
  BY RowOf DEF RefreshTypeOK
<1>1. ASSUME NEW s \in Syncs, WorkStep(s) PROVE LockInv'
  <2>1. UNCHANGED <<locker, held>>
    BY <1>1, WorkKeepsHolders DEF syncLockVars
  <2>2. sync'[s].pc # "locked"
    BY <1>1, <1>0 DEF WorkStep, ApplyProfile, FetchEncounters, ReadBaseline, NotifyNewKills, LockoutsFail,
                FailSync, RecordSyncFailure, TelemetryFails, StoreRaid, SyncRows
  <2> QED BY <1>1, <2>1, <2>2, WorkKeepsHolders
<1>2. ASSUME NEW s \in Syncs, Reserve(s) PROVE LockInv'
  <2>1. sync' = [sync EXCEPT ![s].pc = "reserved"] /\ sync[s].pc = "loaded" /\ sync[s] \in SyncRows
    BY <1>0, <1>2 DEF Reserve
  <2> QED BY <1>0, <1>2, <2>1 DEF Reserve, MayReserve, SyncRows
<1>3. ASSUME NEW s \in Syncs, IsRefused(s) PROVE LockInv'
  BY <1>0, <1>3 DEF IsRefused, syncLockVars
<1>4. ASSUME NEW s \in Syncs, TryLock(s) PROVE LockInv'
  <2> DEFINE rivals == {t \in Syncs : Running(t) /\ ~sync[t].session}
  <2>1. /\ sync[s].pc = "reserved" /\ sync[s] \in SyncRows /\ sync[s].session
        /\ locker' = sync[s].proc /\ held' = held
        /\ locker \in {NoProcess, sync[s].proc}
    BY <1>0, <1>4 DEF TryLock, MayLock
  <2>2. sync' = [t \in Syncs |->
               IF t = s THEN [sync[s] EXCEPT !.pc = "locked", !.alone = rivals = {}]
               ELSE IF t \in rivals THEN [sync[t] EXCEPT !.alone = FALSE] ELSE sync[t]]
    BY <1>4 DEF TryLock
  <2>3. ASSUME NEW t \in Syncs, t # s, Running(t) PROVE t \in rivals
    <3>1. SUFFICES ASSUME sync[t].session PROVE FALSE
      BY <2>3
    <3>2. locker = sync[t].proc /\ sync[t].proc # sync[s].proc /\ sync[t].proc \in Processes
      BY <1>0, <2>1, <2>3, <3>1, RunnersShareNoSession DEF SyncRows
    <3> QED BY <2>1, <3>2, RefreshAssumption
  <2>4. /\ sync'[s].pc = "locked" /\ (rivals # {} => ~sync'[s].alone)
        /\ sync'[s].proc = sync[s].proc /\ sync'[s].level = sync[s].level
        /\ sync'[s].session = sync[s].session
    BY <2>1, <2>2 DEF SyncRows
  <2>5. ASSUME NEW t \in Syncs, t # s
        PROVE  /\ sync'[t].pc = sync[t].pc
               /\ Running(t) => sync'[t].alone = FALSE /\ ~sync'[t].session /\ rivals # {}
               /\ Running(t) => sync'[t].proc = sync[t].proc /\ sync'[t].level = sync[t].level
               /\ ~Running(t) => sync'[t] = sync[t]
    <3>1. CASE Running(t)
      <4>1. t \in rivals /\ sync[t] \in SyncRows /\ ~sync[t].session
        BY <1>0, <2>3, <2>5, <3>1
      <4>2. sync'[t] = [sync[t] EXCEPT !.alone = FALSE]
        BY <2>2, <2>5, <4>1
      <4> HIDE DEF rivals
      <4> QED BY <3>1, <4>1, <4>2 DEF SyncRows
    <3>2. CASE ~Running(t)
      BY <2>2, <2>5, <3>2
    <3> QED BY <3>1, <3>2
  <2> HIDE DEF rivals
  <2>6. \A t \in Syncs : Loaded(t)' /\ SessionHolds(t)' /\ HeldHere(t)'
    <3>1. Loaded(s)' /\ SessionHolds(s)' /\ HeldHere(s)'
      BY <2>1, <2>4
    <3>2. ASSUME NEW t \in Syncs, t # s PROVE Loaded(t)' /\ SessionHolds(t)' /\ HeldHere(t)'
      <4>1. CASE Running(t)
        BY <2>1, <2>5, <3>2, <4>1
      <4>2. CASE ~Running(t)
        BY <2>1, <2>5, <3>2, <4>2
      <4> QED BY <4>1, <4>2
    <3> QED BY <3>1, <3>2
  <2>7. \A t \in Syncs : /\ Holding(t)' <=> Holding(t)
                         /\ Holding(t) => sync'[t].proc = sync[t].proc
    BY <2>1, <2>4, <2>5
  <2>8. \A t, u \in Syncs : OnePerProcess(t, u)'
    BY <2>7
  <2>9. ASSUME NEW t \in Syncs, NEW u \in Syncs, t # u, Running(t)', Running(u)'
        PROVE  ~sync'[t].alone
    <3>1. CASE t = s
      BY <2>4, <2>5, <2>9, <3>1
    <3>2. CASE t # s
      BY <2>5, <2>9, <3>2
    <3> QED BY <3>1, <3>2
  <2>10. NoLockLeaks'
    <3>1. Running(s)' /\ sync'[s].proc = locker' /\ sync'[s].session
      BY <2>1, <2>4
    <3>2. \A q \in held' : \E t \in Syncs : Holding(t)' /\ sync'[t].proc = q
      BY <2>1, <2>7
    <3> QED BY <3>1, <3>2
  <2> QED BY <2>6, <2>8, <2>9, <2>10
<1>5. ASSUME NEW s \in Syncs, GivesUp(s) PROVE LockInv'
  BY <1>0, <1>5 DEF GivesUp
<1>6. ASSUME NEW s \in Syncs, ReleaseLock(s) PROVE LockInv'
  <2>1. \A t \in Syncs : t # s => sync'[t] = sync[t]
    BY <1>0, <1>6 DEF ReleaseLock
  <2>2. sync'[s] = NotSyncing /\ Running(s) /\ held' = held \ {sync[s].proc}
    BY <1>0, <1>6 DEF ReleaseLock, ReleasedHeld
  <2>3. locker' = IF sync[s].session THEN NoProcess ELSE locker
    BY <1>6 DEF ReleaseLock
  <2>4. locker' # NoProcess => \E t \in Syncs : Running(t)' /\ sync'[t].proc = locker' /\ sync'[t].session
    BY <2>1, <2>2, <2>3
  <2>5. \A t \in Syncs : Running(t)' /\ sync'[t].session => locker' = sync'[t].proc
    BY <2>1, <2>2, <2>3
  <2> QED BY <1>0, <2>1, <2>2, <2>4, <2>5
<1>7. ASSUME NEW s \in Syncs, NEW proc \in Processes, LoadSync(s, proc) PROVE LockInv'
  <2>1. level \in Levels
    BY DEF RefreshTypeOK
  <2> QED BY <1>0, <1>7, <2>1 DEF LoadSync, syncLockVars
<1>8. ASSUME NEW proc \in Processes, LoseSession(proc) PROVE LockInv'
  <2>1. locker = proc /\ locker' = NoProcess /\ held' = held
    BY <1>8 DEF LoseSession
  <2>2. ASSUME NEW t \in Syncs
        PROVE  /\ sync'[t].pc = sync[t].pc
               /\ Running(t) => /\ sync'[t].alone = sync[t].alone /\ sync'[t].proc = sync[t].proc
                                /\ sync'[t].level = sync[t].level
                                /\ ~sync'[t].session
               /\ ~Running(t) => sync'[t] = sync[t]
    <3>1. CASE Running(t) /\ sync[t].proc = proc
      BY <1>0, <1>8, <3>1 DEF LoseSession, SyncRows
    <3>2. CASE Running(t) /\ sync[t].proc # proc
      <4>1. sync'[t] = sync[t]
        BY <1>8, <3>2 DEF LoseSession
      <4> QED BY <1>0, <2>1, <3>2, <4>1 DEF SyncRows
    <3>3. CASE ~Running(t)
      BY <1>8, <3>3 DEF LoseSession
    <3> QED BY <3>1, <3>2, <3>3
  <2> QED BY <1>0, <2>1, <2>2
<1>9. ASSUME NEW proc \in Processes, SyncProcessDies(proc) PROVE LockInv'
  <2>1. /\ locker' = IF locker = proc THEN NoProcess ELSE locker
        /\ held' = held \ {proc}
        /\ \A t \in Syncs : sync'[t] = IF sync[t].pc # "idle" /\ sync[t].proc = proc
                                       THEN NotSyncing ELSE sync[t]
    BY <1>9 DEF SyncProcessDies
  <2>2. \A t \in Syncs : sync'[t].pc # "idle" => sync'[t] = sync[t] /\ sync[t].proc # proc
    BY <2>1
  <2>3. \A t \in Syncs : sync[t].pc # "idle" /\ sync[t].proc # proc => sync'[t] = sync[t]
    BY <2>1
  <2>4. locker' # NoProcess => \E t \in Syncs : Running(t)' /\ sync'[t].proc = locker' /\ sync'[t].session
    BY <2>1, <2>3
  <2>5. \A q \in held' : \E t \in Syncs : Holding(t)' /\ sync'[t].proc = q
    BY <2>1, <2>3
  <2> QED BY <2>1, <2>2, <2>4, <2>5
<1>10. CASE OtherStep \/ UNCHANGED refreshVars
  <2>1. UNCHANGED <<locker, held, sync>>
    BY <1>10 DEF OtherStep, Kill, PickCharacter, DropCharacter, StartPickedRun, SetPick, RemindAtStart,
                 syncLockVars, refreshVars
  <2> QED BY <2>1
<1> QED BY <1>1, <1>2, <1>3, <1>4, <1>5, <1>6, <1>7, <1>8, <1>9, <1>10, StepKinds DEF LockStep

-----------------------------------------------------------------------------
(* The rows a sync writes. *)

\* Steps that take, give back or lose locks leave what a sync works on alone.
KeepsWork(t) == /\ sync'[t].pc = sync[t].pc
                /\ sync'[t].seen = sync[t].seen /\ sync'[t].new = sync[t].new
                /\ sync'[t].todo = sync[t].todo /\ sync'[t].count = sync[t].count
                /\ sync'[t].alone => sync[t].alone
LockChange == \/ \E s \in Syncs : LockStep(s)
              \/ \E proc \in Processes : LoseSession(proc) \/ SyncProcessDies(proc)

LEMMA LocksKeepWork ==
  ASSUME RefreshTypeOK, LockChange
  PROVE  /\ UNCHANGED <<characterVars, pickVars, overwritten>>
         /\ untold \subseteq untold'
         /\ \A t \in Syncs : SyncAt(t, {"fetched", "storing", "failing"})' => KeepsWork(t)
         /\ \A t \in Syncs : Stored(t) \subseteq Stored(t)' \cup untold'
<1>0. DOMAIN sync = Syncs /\ \A s \in Syncs : sync[s].pc # "idle" => sync[s] \in SyncRows
  BY RowOf DEF RefreshTypeOK
<1>1. UNCHANGED <<characterVars, pickVars, overwritten>> /\ untold \subseteq untold'
  BY DEF LockChange, LockStep, Reserve, IsRefused, TryLock, GivesUp, ReleaseLock, LoadSync,
         LoseSession, SyncProcessDies, historyVars
<1>2. ASSUME NEW t \in Syncs
      PROVE  /\ SyncAt(t, {"fetched", "storing", "failing"})' => KeepsWork(t)
             /\ SyncAt(t, {"storing"}) => KeepsWork(t) \/ Stored(t) \subseteq untold'
  <2> USE DEF KeepsWork, SyncAt
  <2>1. ASSUME NEW s \in Syncs, LockStep(s), ~TryLock(s)
        PROVE  /\ SyncAt(t, {"fetched", "storing", "failing"})' => KeepsWork(t)
               /\ SyncAt(t, {"storing"}) => KeepsWork(t)
    <3>1. sync[s].pc \in {"idle", "loaded", "reserved", "synced", "failed", "done"}
      BY <2>1 DEF LockStep, Reserve, IsRefused, GivesUp, ReleaseLock, LoadSync
    <3>2. sync'[s].pc \in {"idle", "loaded", "reserved"}
      BY <1>0, <2>1 DEF LockStep, Reserve, IsRefused, GivesUp, ReleaseLock, LoadSync, NotSyncing, SyncRows
    <3>3. t # s => sync'[t] = sync[t]
      BY <1>0, <2>1 DEF LockStep, Reserve, IsRefused, GivesUp, ReleaseLock, LoadSync
    <3> QED BY <3>1, <3>2, <3>3
  <2>2. ASSUME NEW s \in Syncs, TryLock(s)
        PROVE  /\ SyncAt(t, {"fetched", "storing", "failing"})' => KeepsWork(t)
               /\ SyncAt(t, {"storing"}) => KeepsWork(t)
    <3> DEFINE rivals == {u \in Syncs : Running(u) /\ ~sync[u].session}
    <3>1. sync[s].pc = "reserved" /\ sync[s] \in SyncRows
      BY <1>0, <2>2 DEF TryLock
    <3>2. sync' = [u \in Syncs |->
               IF u = s THEN [sync[s] EXCEPT !.pc = "locked", !.alone = rivals = {}]
               ELSE IF u \in rivals THEN [sync[u] EXCEPT !.alone = FALSE] ELSE sync[u]]
      BY <2>2 DEF TryLock
    <3>3. CASE t = s
      BY <3>1, <3>2, <3>3 DEF SyncRows
    <3>4. CASE t # s /\ t \in rivals
      <4>1. sync'[t] = [sync[t] EXCEPT !.alone = FALSE]
        BY <3>2, <3>4
      <4>2. sync[t] \in SyncRows
        BY <1>0, <3>4 DEF Running, Working
      <4> HIDE DEF rivals
      <4> QED BY <4>1, <4>2 DEF SyncRows
    <3>5. CASE t # s /\ t \notin rivals
      <4>1. sync'[t] = sync[t]
        BY <3>2, <3>5
      <4> QED BY <4>1
    <3> QED BY <3>3, <3>4, <3>5
  <2>3. ASSUME NEW proc \in Processes, LoseSession(proc)
        PROVE  KeepsWork(t)
    <3>1. CASE t \in RunningIn(proc)
      <4>1. sync'[t] = [sync[t] EXCEPT !.session = FALSE] /\ sync[t] \in SyncRows
        BY <1>0, <2>3, <3>1 DEF LoseSession, RunningIn, Running, Working
      <4> QED BY <4>1 DEF SyncRows
    <3>2. CASE t \notin RunningIn(proc)
      <4>1. sync'[t] = sync[t]
        BY <2>3, <3>2 DEF LoseSession
      <4> QED BY <4>1
    <3> QED BY <3>1, <3>2
  <2>4. ASSUME NEW proc \in Processes, SyncProcessDies(proc)
        PROVE  /\ SyncAt(t, {"fetched", "storing", "failing"})' => KeepsWork(t)
               /\ SyncAt(t, {"storing"}) => KeepsWork(t) \/ Stored(t) \subseteq untold'
    <3>1. CASE sync[t].pc # "idle" /\ sync[t].proc = proc
      <4>1. sync'[t] = NotSyncing /\ Stored(t) \subseteq untold'
        BY <2>4, <3>1 DEF SyncProcessDies
      <4> QED BY <4>1 DEF NotSyncing
    <3>2. CASE ~(sync[t].pc # "idle" /\ sync[t].proc = proc)
      <4>1. sync'[t] = sync[t]
        BY <2>4, <3>2 DEF SyncProcessDies
      <4> QED BY <4>1
    <3> QED BY <3>1, <3>2
  <2> QED BY <2>1, <2>2, <2>3, <2>4 DEF LockChange
<1>3. ASSUME NEW t \in Syncs PROVE Stored(t) \subseteq Stored(t)' \cup untold'
  <2>1. CASE SyncAt(t, {"storing"})
    BY <1>2, <2>1 DEF Stored, SyncAt, KeepsWork
  <2>2. CASE ~SyncAt(t, {"storing"})
    BY <2>2 DEF Stored
  <2> QED BY <2>1, <2>2
<1> QED BY <1>1, <1>2, <1>3

\* None of them ends a sync that is about to record its failure with a record.
LEMMA LocksSpareFailures ==
  ASSUME RefreshTypeOK, LockChange, NEW t \in Syncs, sync[t].pc = "failing"
  PROVE  sync'[t].pc \in {"failing", "idle"}
<1>0. DOMAIN sync = Syncs /\ sync[t] \in SyncRows
  BY RowOf DEF RefreshTypeOK
<1>1. ASSUME NEW s \in Syncs, LockStep(s), ~TryLock(s) PROVE sync'[t] = sync[t]
  BY <1>0, <1>1 DEF LockStep, Reserve, IsRefused, GivesUp, ReleaseLock, LoadSync, SyncAt
<1>2. ASSUME NEW s \in Syncs, TryLock(s) PROVE sync'[t] \in {sync[t], [sync[t] EXCEPT !.alone = FALSE]}
  BY <1>0, <1>2 DEF TryLock, SyncAt
<1>3. ASSUME NEW proc \in Processes, LoseSession(proc)
      PROVE  sync'[t] \in {sync[t], [sync[t] EXCEPT !.session = FALSE]}
  BY <1>0, <1>3 DEF LoseSession
<1>4. ASSUME NEW proc \in Processes, SyncProcessDies(proc) PROVE sync'[t] \in {sync[t], NotSyncing}
  BY <1>0, <1>4 DEF SyncProcessDies
<1>5. /\ [sync[t] EXCEPT !.alone = FALSE].pc = sync[t].pc
      /\ [sync[t] EXCEPT !.session = FALSE].pc = sync[t].pc
      /\ NotSyncing.pc = "idle"
  BY <1>0 DEF SyncRows, NotSyncing
<1> QED BY <1>1, <1>2, <1>3, <1>4, <1>5 DEF LockChange

LEMMA InitRows == RefreshInit => RowsInv
<1> SUFFICES ASSUME RefreshInit PROVE RowsInv
  OBVIOUS
<1>1. ASSUME NEW raid \in Raids PROVE lockouts[raid] \subseteq killed[raid]
  <2> SUFFICES ASSUME NEW boss \in lockouts[raid] PROVE boss \in killed[raid]
    OBVIOUS
  <2>1. <<raid, boss>> \in KillsIn(lockouts)
    BY DEF RefreshInit, KillsIn, Kills
  <2> QED BY <2>1 DEF RefreshInit, KillsIn
<1> QED BY <1>1 DEF RefreshInit, RowsInv, Seen, Counted, SyncAt, NotSyncing

LEMMA StepKeepsRows ==
  ASSUME RefreshTypeOK, LockInv, RowsInv, [RefreshNext]_refreshVars
  PROVE  RowsInv'
<1> USE DEF RowsInv, Seen, Counted, SyncAt
<1>1. ASSUME NEW s \in Syncs, WorkStep(s) PROVE RowsInv'
  <2>1. /\ \A t \in Syncs \ {s} : sync'[t] = sync[t]
        /\ sync[s].pc \in Working /\ sync[s] \in SyncRows /\ sync'[s].alone = sync[s].alone
    BY <1>1, WorkKeepsHolders, RowOf DEF Working
  <2>2. \A t \in Syncs \ {s} : sync[t].pc \in Working => ~sync[t].alone
    BY <2>1 DEF LockInv, NotAlone, Running
  <2>3. killed' = killed
    BY <1>1 DEF WorkStep, ApplyProfile, FetchEncounters, ReadBaseline, NotifyNewKills, LockoutsFail,
                FailSync, RecordSyncFailure, TelemetryFails, StoreRaid, characterVars
  <2>4. ASSUME NEW raid \in Raids, StoreRaid(s, raid) PROVE RowsInv'
    <3>1. /\ \A x \in Raids : lockouts'[x] = IF x = raid THEN sync[s].seen[raid] ELSE lockouts[x]
          /\ sync'[s].pc = "storing" /\ sync[s].pc = "storing" /\ sync'[s].seen = sync[s].seen
          /\ failures' = failures
      BY <2>1, <2>4 DEF StoreRaid, RefreshTypeOK, SyncRows
    <3> QED BY <2>1, <2>2, <2>3, <3>1 DEF Working
  <2>5. CASE FetchEncounters(s)
    <3>1. sync'[s].pc = "fetched" /\ sync'[s].seen = killed /\ UNCHANGED <<lockouts, failures>>
      BY <2>1, <2>5 DEF FetchEncounters, RefreshTypeOK, characterVars, SyncRows
    <3> QED BY <2>1, <2>3, <3>1
  <2>6. CASE ReadBaseline(s)
    <3>1. /\ sync'[s].pc = "storing" /\ sync[s].pc = "fetched" /\ sync'[s].seen = sync[s].seen
          /\ UNCHANGED <<lockouts, failures>>
      BY <2>1, <2>6 DEF ReadBaseline, RefreshTypeOK, characterVars, SyncRows
    <3> QED BY <2>1, <2>3, <3>1
  <2>7. CASE FailSync(s)
    <3>1. sync'[s].pc = "failing" /\ sync'[s].count = failures /\ UNCHANGED <<lockouts, failures>>
      BY <2>1, <2>7 DEF FailSync, RefreshTypeOK, characterVars, SyncRows
    <3> QED BY <2>1, <2>3, <3>1
  <2>8. CASE ApplyProfile(s) \/ RecordSyncFailure(s)
    <3>1. sync'[s].pc \in {"applied", "failed"} /\ UNCHANGED lockouts
      BY <2>1, <2>8 DEF ApplyProfile, RecordSyncFailure, RefreshTypeOK, SyncRows
    <3> QED BY <2>1, <2>2, <2>3, <3>1 DEF Working
  <2>9. CASE NotifyNewKills(s) \/ LockoutsFail(s) \/ TelemetryFails(s)
    <3>1. sync'[s].pc \in {"synced", "done"} /\ UNCHANGED <<lockouts, failures>>
      BY <2>1, <2>9 DEF NotifyNewKills, LockoutsFail, TelemetryFails, RefreshTypeOK, characterVars, SyncRows
    <3> QED BY <2>1, <2>3, <3>1
  <2> QED BY <1>1, <2>4, <2>5, <2>6, <2>7, <2>8, <2>9 DEF WorkStep
<1>2. CASE LockChange
  BY <1>2, LocksKeepWork DEF characterVars, KeepsWork
<1>3. ASSUME NEW raid \in Raids, NEW boss \in Bosses, Kill(raid, boss) PROVE RowsInv'
  <2>1. \A x \in Raids : killed[x] \subseteq killed'[x]
    BY <1>3 DEF Kill, RefreshTypeOK
  <2> QED BY <1>3, <2>1 DEF Kill
<1>4. CASE \/ \E r \in Picks : PickCharacter(r) \/ DropCharacter(r) \/ StartPickedRun(r) \/ RemindAtStart(r)
           \/ UNCHANGED refreshVars
  <2>1. UNCHANGED <<sync, failures, killed, lockouts>>
    BY <1>4 DEF PickCharacter, DropCharacter, StartPickedRun, SetPick, RemindAtStart, refreshVars, characterVars
  <2> QED BY <2>1
<1> QED BY <1>1, <1>2, <1>3, <1>4, StepKinds DEF OtherStep, LockChange

-----------------------------------------------------------------------------
(* What the players are told. *)

\* One stored row replaces the kills of one raid; what it takes back is recorded.
LEMMA StoredRow ==
  ASSUME RefreshTypeOK, NEW s \in Syncs, NEW raid \in Raids, StoreRaid(s, raid), sync[s] \in SyncRows
  PROVE  /\ KillsIn(lockouts') \subseteq KillsIn(lockouts) \cup {k \in KillsIn(sync[s].seen) : k[1] = raid}
         /\ KillsIn(lockouts) \subseteq KillsIn(lockouts') \cup overwritten'
         /\ overwritten \subseteq overwritten'
<1>1. \A k \in Kills : k[1] \in Raids
  BY DEF Kills
<1>2. \A x \in Raids : lockouts'[x] = IF x = raid THEN sync[s].seen[raid] ELSE lockouts[x]
  BY DEF StoreRaid, RefreshTypeOK
<1>3. overwritten' = overwritten \cup (KillsIn(lockouts) \ KillsIn(lockouts'))
  BY DEF StoreRaid
<1> QED BY <1>1, <1>2, <1>3 DEF KillsIn

LEMMA InitNews == RefreshInit => NewsInv
BY DEF RefreshInit, NewsInv, News, Shown, NewKillsAreTold, StartCheckReminds, SyncAt, NotSyncing

LEMMA StepKeepsNews ==
  ASSUME RefreshTypeOK, NewsInv, [RefreshNext]_refreshVars
  PROVE  NewsInv'
<1> USE DEF NewsInv, News, Shown, NewKillsAreTold, StartCheckReminds, SyncAt
<1>1. ASSUME NEW s \in Syncs, WorkStep(s) PROVE NewsInv'
  <2>1. /\ \A t \in Syncs \ {s} : sync'[t] = sync[t] /\ Stored(t)' = Stored(t)
        /\ sync[s] \in SyncRows
    BY <1>1, WorkKeepsHolders, RowOf DEF Working, Stored
  <2>2. UNCHANGED <<pick, shown, reminded>>
    BY <1>1 DEF WorkStep, ApplyProfile, FetchEncounters, ReadBaseline, NotifyNewKills, LockoutsFail,
                FailSync, RecordSyncFailure, TelemetryFails, StoreRaid, pickVars
  <2>3. ASSUME NEW raid \in Raids, StoreRaid(s, raid) PROVE NewsInv'
    <3>1. /\ sync[s].pc = "storing" /\ sync'[s].pc = "storing"
          /\ sync'[s].seen = sync[s].seen /\ sync'[s].new = sync[s].new
          /\ sync'[s].todo = sync[s].todo \ {raid}
          /\ UNCHANGED <<told, untold>>
      BY <2>1, <2>3 DEF StoreRaid, RefreshTypeOK, SyncRows, pickVars
    <3>2. Stored(s) \subseteq Stored(s)' /\ {k \in sync[s].new : k[1] = raid} \subseteq Stored(s)'
      BY <3>1 DEF Stored
    <3>3. /\ KillsIn(lockouts') \subseteq KillsIn(lockouts) \cup {k \in KillsIn(sync[s].seen) : k[1] = raid}
          /\ KillsIn(lockouts) \subseteq KillsIn(lockouts') \cup overwritten'
          /\ overwritten \subseteq overwritten'
      BY <2>1, <2>3, StoredRow
    <3>4. \A t \in Syncs : News(t)'
      <4>1. KillsIn(lockouts)' = KillsIn(lockouts')
        BY DEF KillsIn
      <4> QED BY <2>1, <3>1, <3>3, <4>1
    <3>5. \A r \in Picks : Shown(r)'
      <4>1. KillsIn(lockouts)' = KillsIn(lockouts')
        BY DEF KillsIn
      <4> QED BY <2>2, <3>3, <4>1
    <3>6. NewKillsAreTold'
      <4> SUFFICES ASSUME NEW r \in Picks, pick[r] = "picked", NEW k \in KillsIn(lockouts')
                   PROVE  k \in shown[r] \cup told[r] \cup (UNION {Stored(t)' : t \in Syncs})
                                \cup untold \cup overwritten'
        BY <2>2, <3>1 DEF KillsIn
      <4>1. CASE k \in KillsIn(lockouts) \cup overwritten
        <5>1. \A t \in Syncs : Stored(t) \subseteq Stored(t)'
          BY <2>1, <3>2
        <5> QED BY <3>3, <4>1, <5>1
      <4>2. CASE k \notin KillsIn(lockouts) \cup overwritten
        <5>1. k \in Stored(s)'
          BY <3>1, <3>2, <3>3, <4>2
        <5> QED BY <5>1
      <4> QED BY <4>1, <4>2
    <3>7. StartCheckReminds'
      BY <2>2, <3>3
    <3> QED BY <3>4, <3>5, <3>6, <3>7
  <2>4. CASE ReadBaseline(s)
    <3>1. /\ sync'[s].pc = "storing" /\ sync[s].pc = "fetched" /\ sync'[s].seen = sync[s].seen
          /\ sync'[s].new = KillsIn(sync[s].seen) \ KillsIn(lockouts) /\ sync'[s].todo = Raids
          /\ UNCHANGED <<lockouts, told, untold, overwritten>>
      BY <2>1, <2>4 DEF ReadBaseline, RefreshTypeOK, characterVars, pickVars, historyVars, SyncRows
    <3>2. Stored(s) = {}
      BY <3>1 DEF Stored
    <3>3. NewKillsAreTold'
      BY <2>1, <2>2, <3>1, <3>2 DEF KillsIn
    <3> QED BY <2>1, <2>2, <3>1, <3>3 DEF KillsIn
  <2>5. CASE NotifyNewKills(s)
    <3>1. /\ sync[s].pc = "storing" /\ sync[s].todo = {} /\ sync'[s].pc = "synced"
          /\ UNCHANGED <<lockouts, untold, overwritten>>
      BY <2>1, <2>5 DEF NotifyNewKills, RefreshTypeOK, characterVars, historyVars, SyncRows
    <3>2. Stored(s) \subseteq sync[s].new
      BY DEF Stored
    <3>3. \A r \in Picks : /\ told[r] \subseteq told'[r]
                           /\ pick[r] = "picked" => sync[s].new \subseteq told'[r]
      BY <2>5, <3>1 DEF NotifyNewKills, IsNoticed
    <3>4. NewKillsAreTold'
      BY <2>1, <2>2, <3>1, <3>2, <3>3 DEF KillsIn
    <3> QED BY <2>1, <2>2, <3>1, <3>4 DEF KillsIn
  <2>6. CASE LockoutsFail(s)
    <3>1. /\ sync'[s].pc = "synced" /\ untold' = untold \cup Stored(s)
          /\ UNCHANGED <<lockouts, told, overwritten>>
      BY <2>1, <2>6 DEF LockoutsFail, RefreshTypeOK, characterVars, pickVars, SyncRows
    <3>2. NewKillsAreTold'
      BY <2>1, <2>2, <3>1 DEF KillsIn
    <3> QED BY <2>1, <2>2, <3>1, <3>2 DEF KillsIn
  <2>7. CASE ApplyProfile(s) \/ FetchEncounters(s) \/ FailSync(s) \/ RecordSyncFailure(s) \/ TelemetryFails(s)
    <3>1. /\ sync'[s].pc # "storing" /\ sync[s].pc # "storing"
          /\ UNCHANGED <<lockouts, told, untold, overwritten>>
      BY <2>1, <2>7 DEF ApplyProfile, FetchEncounters, FailSync, RecordSyncFailure, TelemetryFails,
                        RefreshTypeOK, characterVars, pickVars, historyVars, SyncRows
    <3>2. Stored(s) = {}
      BY <3>1 DEF Stored
    <3>3. NewKillsAreTold'
      BY <2>1, <2>2, <3>1, <3>2 DEF KillsIn
    <3> QED BY <2>1, <2>2, <3>1, <3>3 DEF KillsIn
  <2> QED BY <1>1, <2>3, <2>4, <2>5, <2>6, <2>7 DEF WorkStep
<1>2. CASE LockChange
  <2>1. /\ UNCHANGED <<lockouts, pick, shown, told, reminded, overwritten>>
        /\ untold \subseteq untold'
        /\ \A t \in Syncs : SyncAt(t, {"storing"})' => KeepsWork(t)
        /\ \A t \in Syncs : Stored(t) \subseteq Stored(t)' \cup untold'
    BY <1>2, LocksKeepWork DEF characterVars, pickVars
  <2>2. \A t \in Syncs : News(t)'
    BY <2>1 DEF KeepsWork, KillsIn
  <2>3. NewKillsAreTold'
    BY <2>1 DEF KillsIn
  <2> QED BY <2>1, <2>2, <2>3 DEF KillsIn
<1>3. CASE OtherStep \/ UNCHANGED refreshVars
  <2>1. UNCHANGED <<sync, lockouts, told, untold, overwritten>>
    BY <1>3 DEF OtherStep, Kill, PickCharacter, DropCharacter, StartPickedRun, SetPick, RemindAtStart,
                refreshVars, characterVars, pickVars, historyVars
  <2>2. (\A t \in Syncs : News(t)' /\ Stored(t)' = Stored(t)) /\ KillsIn(lockouts)' = KillsIn(lockouts)
    BY <2>1 DEF Stored, KillsIn
  <2>3. CASE UNCHANGED <<pick, shown, reminded>>
    BY <2>1, <2>2, <2>3
  <2>4. ASSUME NEW r \in Picks, NEW stage \in {"free", "picked", "started"}, SetPick(r, stage)
        PROVE  NewsInv'
    <3>1. \A q \in Picks : /\ pick'[q] = IF q = r THEN stage ELSE pick[q]
                           /\ shown'[q] = IF q # r THEN shown[q]
                                          ELSE IF stage = "free" THEN {} ELSE KillsIn(lockouts)
                           /\ reminded'[q] = reminded[q]
      BY <2>4 DEF SetPick, RefreshTypeOK
    <3> QED BY <2>1, <2>2, <3>1
  <2>5. ASSUME NEW r \in Picks, RemindAtStart(r) PROVE NewsInv'
    <3>1. \A q \in Picks : /\ pick'[q] = IF q = r THEN "checked" ELSE pick[q]
                           /\ reminded'[q] = IF q = r THEN reminded[q] \cup KillsIn(lockouts) ELSE reminded[q]
      BY <2>5 DEF RemindAtStart, SavedAtStart, RefreshTypeOK
    <3>2. pick[r] = "started" /\ shown' = shown
      BY <2>5 DEF RemindAtStart
    <3>3. \A q \in Picks : Shown(q)'
      BY <2>1, <2>2, <3>1, <3>2
    <3>4. NewKillsAreTold'
      <4> SUFFICES ASSUME NEW q \in Picks, pick'[q] = "picked"
                   PROVE  KillsIn(lockouts) \subseteq shown[q] \cup told[q]
                            \cup (UNION {Stored(t) : t \in Syncs}) \cup untold \cup overwritten
        BY <2>1, <2>2, <3>2
      <4>1. pick[q] = "picked"
        BY <3>1
      <4> QED BY <4>1
    <3>5. StartCheckReminds'
      <4> SUFFICES ASSUME NEW q \in Picks, pick'[q] = "checked"
                   PROVE  shown[q] \subseteq reminded'[q] \cup overwritten
        BY <2>1, <3>2
      <4> QED BY <3>1, <3>2
    <3> QED BY <2>2, <3>3, <3>4, <3>5
  <2> QED BY <1>3, <2>3, <2>4, <2>5 DEF OtherStep, Kill, PickCharacter, DropCharacter, StartPickedRun,
                                        pickVars, refreshVars
<1> QED BY <1>1, <1>2, <1>3, StepKinds DEF LockChange

-----------------------------------------------------------------------------
(* The theorems. *)

LEMMA IInvHolds == RefreshSpec => []IInv
<1>1. RefreshInit => IInv
  BY InitIsTyped, InitLocks, InitRows, InitNews DEF IInv
<1>2. IInv /\ [RefreshNext]_refreshVars => IInv'
  <2> SUFFICES ASSUME IInv, [RefreshNext]_refreshVars PROVE IInv'
    OBVIOUS
  <2>1. RefreshTypeOK'
    BY StepIsTyped DEF IInv, LockInv
  <2> QED BY <2>1, StepKeepsLocks, StepKeepsRows, StepKeepsNews DEF IInv
<1> QED BY <1>1, <1>2, PTL DEF RefreshSpec

\* Every variable keeps its type, with the failure count within its bound.
THEOREM RefreshIsTyped == RefreshSpec => []RefreshTypeOK
<1>1. IInv => RefreshTypeOK
  BY DEF IInv
<1> QED BY <1>1, IInvHolds, PTL

\* Two syncs run at once only when one of them has lost its lock session.
THEOREM SyncsAreExclusive == RefreshSpec => []ExclusiveSync
<1>1. IInv => ExclusiveSync
  <2> SUFFICES ASSUME IInv, NEW s \in Syncs, NEW t \in Syncs, s # t, Running(s), Running(t),
                      sync[s].session, sync[t].session
               PROVE  FALSE
    BY DEF ExclusiveSync
  <2> QED BY DEF IInv, LockInv, SessionHolds, OnePerProcess, Holding, Running, SyncAt
<1> QED BY <1>1, IInvHolds, PTL

\* The lock and the entry in memory are always somebody's who is still at it.
THEOREM LocksNeverLeak == RefreshSpec => []NoLockLeaks
<1>1. IInv => NoLockLeaks
  BY DEF IInv, LockInv
<1> QED BY <1>1, IInvHolds, PTL

\* The player of a picked Character is told of every stored kill, or a sync
\* failed right after storing it.
THEOREM PlayersAreTold == RefreshSpec => []NewKillsAreTold
<1>1. IInv => NewKillsAreTold
  BY DEF IInv, NewsInv
<1> QED BY <1>1, IInvHolds, PTL

\* The reminder at Start names everything that was stored when the Run started.
THEOREM StartAlwaysReminds == RefreshSpec => []StartCheckReminds
<1>1. IInv => StartCheckReminds
  BY DEF IInv, NewsInv
<1> QED BY <1>1, IInvHolds, PTL

\* Only a step beside a sync that is not alone can take a stored kill back.
THEOREM KillsAreKept == RefreshSpec => StoredKillsStay
<1> DEFINE Keep == KillsIn(lockouts) \subseteq KillsIn(lockouts')
                   \/ \E s \in Syncs : Running(s) /\ ~sync[s].alone
<1>1. ASSUME IInv, [RefreshNext]_refreshVars PROVE Keep
  <2>1. ASSUME NEW s \in Syncs, NEW raid \in Raids, StoreRaid(s, raid) PROVE Keep
    <3>1. CASE sync[s].alone
      <4>1. lockouts[raid] \subseteq sync[s].seen[raid]
        BY <1>1, <2>1, <3>1 DEF IInv, RowsInv, Seen, StoreRaid, SyncAt
      <4>2. \A x \in Raids : lockouts'[x] = IF x = raid THEN sync[s].seen[raid] ELSE lockouts[x]
        BY <1>1, <2>1 DEF IInv, RefreshTypeOK, StoreRaid
      <4>3. \A k \in Kills : k[1] \in Raids
        BY DEF Kills
      <4> QED BY <4>1, <4>2, <4>3 DEF KillsIn
    <3>2. CASE ~sync[s].alone
      BY <2>1, <3>2 DEF StoreRaid, Running, SyncAt, Working
    <3> QED BY <3>1, <3>2
  <2>2. CASE ~\E s \in Syncs, raid \in Raids : StoreRaid(s, raid)
    <3>1. lockouts' = lockouts
      BY <1>1, <2>2 DEF RefreshNext, RefreshStep, Reserve, IsRefused, TryLock, GivesUp, ReleaseLock,
         ApplyProfile, FetchEncounters, ReadBaseline, NotifyNewKills, LockoutsFail, FailSync,
         RecordSyncFailure, TelemetryFails, LoadSync, LoseSession, SyncProcessDies, Kill, PickCharacter,
         DropCharacter, StartPickedRun, SetPick, RemindAtStart, characterVars, refreshVars
    <3> QED BY <3>1
  <2> QED BY <2>1, <2>2
<1>2. IInv /\ [RefreshNext]_refreshVars => [Keep]_refreshVars
  BY <1>1
<1>3. RefreshSpec => [][Keep]_refreshVars
  BY <1>2, IInvHolds, PTL DEF RefreshSpec
<1> QED BY <1>3 DEF StoredKillsStay

\* A sync that runs alone adds one to the failures that are stored.
THEOREM FailuresAreCounted == RefreshSpec => FailuresCountUp
<1> DEFINE CountsUp == \A s \in Syncs :
              sync[s].pc = "failing" /\ sync'[s].pc = "failed" /\ sync[s].alone
              => failures' = failures + 1
<1>1. ASSUME IInv, [RefreshNext]_refreshVars PROVE CountsUp
  <2> SUFFICES ASSUME NEW s \in Syncs, sync[s].pc = "failing", sync'[s].pc = "failed", sync[s].alone
               PROVE  failures' = failures + 1
    OBVIOUS
  <2>1. RefreshTypeOK /\ sync[s].count = failures
    BY <1>1 DEF IInv, RowsInv, Counted, SyncAt
  <2>2. ASSUME NEW t \in Syncs, WorkStep(t) PROVE RecordSyncFailure(s)
    <3>1. t = s
      BY <2>1, <2>2, WorkKeepsHolders
    <3>2. sync[s] \in SyncRows
      BY <2>1, RowOf
    <3>3. DOMAIN sync = Syncs
      BY <2>1 DEF RefreshTypeOK
    <3>4. ~TelemetryFails(s)
      BY <3>2, <3>3 DEF TelemetryFails, SyncRows
    <3> QED BY <2>2, <3>1, <3>4 DEF WorkStep, ApplyProfile, FetchEncounters, ReadBaseline, NotifyNewKills,
               LockoutsFail, FailSync, StoreRaid, SyncAt
  <2>3. ASSUME LockChange PROVE FALSE
    <3>1. sync'[s].pc \in {"failing", "idle"}
      BY <2>1, <2>3, LocksSpareFailures
    <3> QED BY <3>1
  <2>4. ASSUME OtherStep \/ UNCHANGED refreshVars PROVE FALSE
    <3>1. sync' = sync
      BY <2>4 DEF OtherStep, Kill, PickCharacter, DropCharacter, StartPickedRun, SetPick, RemindAtStart,
                  refreshVars
    <3> QED BY <3>1
  <2>5. RecordSyncFailure(s)
    BY <1>1, <2>2, <2>3, <2>4, StepKinds DEF LockChange
  <2> QED BY <2>1, <2>5 DEF RecordSyncFailure
<1>2. IInv /\ [RefreshNext]_refreshVars => [CountsUp]_refreshVars
  BY <1>1
<1>3. RefreshSpec => [][CountsUp]_refreshVars
  BY <1>2, IInvHolds, PTL DEF RefreshSpec
<1> QED BY <1>3 DEF FailuresCountUp
=============================================================================
