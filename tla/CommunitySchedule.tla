-------------------------- MODULE CommunitySchedule --------------------------
(***************************************************************************)
(* The weekly schedule and the Runs made for it: community-schedule,       *)
(* community-schedule-materialization and community-schedule-occurrence    *)
(* services, createScheduleMaterializedRun and retireScheduleDraftInTx.    *)
(*                                                                         *)
(* A slot is a weekly time.  Its occurrence in a raid ID (here: a window)  *)
(* is fulfilled by a Run the release pass or Create Run makes, or by an    *)
(* existing Run that is attached.  Passes and Create Run work from a slot  *)
(* they read earlier; whoever changes a slot, attaches to it or creates    *)
(* its Run holds the row lock of the slot.  A change retires the Runs it   *)
(* made and nobody signed up for, in the same transaction.                 *)
(*                                                                         *)
(* Abstractions: time is counted in ticks, Week of them a window; a slot   *)
(* has one lead, creates its Runs automatically, always has a usable       *)
(* template and no composition; a Run keeps the start it was made with;    *)
(* statuses after OPEN, which protect a Run the way a signup does, are     *)
(* left to RunLifecycle.                                                   *)
(***************************************************************************)
EXTENDS Integers, FiniteSets

CONSTANTS Slots, Runs, Requests, None,
          Week,        \* ticks of a raid ID window
          Release,     \* the weekly release, counted from the window's start
          Times,       \* weekly times of slots, counted the same way
          MaxNow,      \* bound on the clock
          MaxChanges   \* bound on slot changes and cancellations together

ASSUME ScheduleAssumption == /\ Week \in Nat \ {0}
                             /\ Release \in 1 .. Week - 1
                             /\ Times \subseteq 0 .. Week - 1
                             /\ MaxNow \in Nat /\ MaxChanges \in Nat

VARIABLES now,
          slot,      \* CommunityScheduleSlot rows
          run,       \* Run rows
          link,      \* CommunityScheduleRun rows, by Run
          slotLock,  \* who holds each slot row
          jobLock,   \* who holds the advisory lock of the release pass
          req,       \* the requests and passes in flight
          revived,   \* history: Runs that were cancelled and came back
          late,      \* history: signups that arrived while a retirement was decided
          changes

rows == <<slot, run, link>>
vars == <<now, rows, slotLock, jobLock, req, revived, late, changes>>

Windows == 0 .. (MaxNow \div Week) + 1
\* from: firstWindowStartAt, window 0 standing for no boundary; rev counts the
\* changes of the row (updatedAt).
SlotRows == [there : BOOLEAN, isActive : BOOLEAN, time : Times,
             from : Windows, rev : 0 .. MaxChanges]
RunRows == [status : {"NONE", "OPEN", "CANCELLED"}, archived : BOOLEAN, used : BOOLEAN,
            start : 0 .. (MaxNow \div Week + 2) * Week - 1]
\* of: the slot the row was written for, which a release or deletion forgets.
LinkRows(W) == [slot : Slots \cup {None}, of : Slots, window : W, time : Times,
                origin : {"MATERIALIZED", "ATTACHED"}]
Links == LinkRows(Windows)
Plans(W) == [slot : Slots, window : W, time : Times]
Idle == [op |-> "idle"]
Changes == {"updateSlot", "deactivateSlot", "deleteSlot", "deleteRunSetup"}
\* plan: the occurrence a Run is about to be created for.
PassRows == [op : {"pass"}, at : Nat, listed : UNION {[S -> SlotRows] : S \in SUBSET Slots},
             todo : SUBSET Slots, failed : SUBSET Slots,
             plan : {None} \cup Plans(Windows)]
CreateRows == [op : {"createRun"}, plan : Plans(Windows)]
ChangeRows == [op : Changes, at : Nat, order : UNION {[S -> Times] : S \in SUBSET Slots}, todo : SUBSET Slots,
               held : SUBSET Slots, new : SlotRows \cup {None}, retire : SUBSET Runs]
AttachRows == [op : {"attach"}, slot : Slots, row : SlotRows, run : Runs]

ASSUME NoneAssumption == None \notin Slots \cup Requests \cup LinkRows(Nat) \cup Plans(Nat)

-----------------------------------------------------------------------------
(* Windows, occurrences and the weekly release. *)

WindowOf(t) == t \div Week
\* Faulty variant: windows are counted from one.
FaultyStartOf(time, w) == (w + 1) * Week + time
StartOf(time, w) == w * Week + time   \* resolveScheduleSlotOccurrence

\* The latest release at or before t.
LastRelease(t) == ((t - Release) \div Week) * Week + Release
\* Faulty variant: Monday's release is taken for the running raid ID.
FaultyReleasedWindow(t) == WindowOf(t)
\* scheduleDraftRelease: a release opens the window that starts after it, and
\* releasedWindow makes that CURRENT or NEXT.
ReleasedWindow(t) ==
    IF LastRelease(t) + (Week - Release) <= WindowOf(t) * Week THEN WindowOf(t) ELSE WindowOf(t) + 1

IsBeforeScheduleStart(row, w) == w < row.from
Fulfils(r, s, w) == link[r] # None /\ link[r].slot = s /\ link[r].window = w
Fulfilled(s, w) == \E r \in Runs : Fulfils(r, s, w)   \* findBySlotAndWindow

\* @@unique([raidLeadId, weekday, localStartTime])
TimeIsFree(s, time) == \A u \in Slots \ {s} : slot[u].there => slot[u].time # time

SlotFree(s) == slotLock[s] = None
RosterFree(r) == \A p \in Requests : req[p].op \in Changes => r \notin req[p].retire
IsLive(r) == run[r].status = "OPEN" /\ ~run[r].archived

Init == /\ now \in 0 .. MaxNow
        /\ slot \in [Slots -> SlotRows]
        /\ \A s \in Slots : slot[s].rev = 0 /\ (slot[s].there => TimeIsFree(s, slot[s].time))
        /\ run \in [Runs -> RunRows]
        /\ \A r \in Runs : run[r].status # "CANCELLED" /\ ~run[r].archived
        /\ link = [r \in Runs |-> None]
        /\ slotLock = [s \in Slots |-> None]
        /\ jobLock = None
        /\ req = [p \in Requests |-> Idle]
        /\ revived = {} /\ late = {} /\ changes = 0

Begin(p, row) == req[p] = Idle /\ req' = [req EXCEPT ![p] = row]
Unlock(p) == slotLock' = [s \in Slots |-> IF slotLock[s] = p THEN None ELSE slotLock[s]]

-----------------------------------------------------------------------------
(* The release pass and Create Run. *)

\* runPass: a pass that finds the job lock taken is skipped.
StartPass(p) ==
    /\ jobLock = None
    /\ jobLock' = p
    /\ LET due == {s \in Slots : slot[s].there /\ slot[s].isActive} IN
       Begin(p, [op |-> "pass", at |-> now, listed |-> [s \in due |-> slot[s]], todo |-> due,
                 failed |-> {}, plan |-> None])
    /\ UNCHANGED <<now, rows, slotLock, revived, late, changes>>

\* materializeSlotWindowsInternal takes the listed slots by weekday and time.
NextInPass(p, s) ==
    /\ req[p].op = "pass" /\ req[p].plan = None
    /\ s \in req[p].todo
    /\ \A u \in req[p].todo : req[p].listed[s].time <= req[p].listed[u].time

\* Past, before the boundary, or there already.
NothingToCreate(s, row, w, at) ==
    \/ w = WindowOf(at) /\ StartOf(row.time, w) < at
    \/ IsBeforeScheduleStart(row, w)
    \/ Fulfilled(s, w)

PassSkips(p, s) ==
    /\ NextInPass(p, s)
    /\ NothingToCreate(s, req[p].listed[s], ReleasedWindow(req[p].at), req[p].at)
    /\ req' = [req EXCEPT ![p].todo = @ \ {s}]
    /\ UNCHANGED <<now, rows, slotLock, jobLock, revived, late, changes>>

PassPlans(p, s) ==
    /\ NextInPass(p, s)
    /\ LET row == req[p].listed[s]
           w == ReleasedWindow(req[p].at)
       IN /\ ~NothingToCreate(s, row, w, req[p].at)
          /\ req' = [req EXCEPT ![p].plan = [slot |-> s, window |-> w, time |-> row.time]]
    /\ UNCHANGED <<now, rows, slotLock, jobLock, revived, late, changes>>

\* materializeOccurrence: Create Run for this raid ID or the next, without
\* looking for a Run that is there already.
LoadCreateRun(p, s, w) ==
    /\ slot[s].there /\ slot[s].isActive
    /\ w \in {WindowOf(now), WindowOf(now) + 1}
    /\ w = WindowOf(now) => StartOf(slot[s].time, w) >= now
    /\ ~IsBeforeScheduleStart(slot[s], w)
    /\ Begin(p, [op |-> "createRun", plan |-> [slot |-> s, window |-> w, time |-> slot[s].time]])
    /\ UNCHANGED <<now, rows, slotLock, jobLock, revived, late, changes>>

Creating(p) == req[p].op \in {"pass", "createRun"} /\ req[p].plan # None
\* The pass goes on with its next slot, Create Run is done.
Created(p, failed) ==
    IF req[p].op = "createRun" THEN [req EXCEPT ![p] = Idle]
    ELSE [req EXCEPT ![p].todo = @ \ {req[p].plan.slot}, ![p].plan = None,
                     ![p].failed = @ \cup failed]

\* Faulty variant: the slot is locked but not read again.
FaultySlotStillHas(plan) == slot[plan.slot].there
\* guardInTx, under the lock of the slot.
SlotStillHas(plan) ==
    LET row == slot[plan.slot] IN
    row.there /\ row.isActive /\ row.time = plan.time /\ ~IsBeforeScheduleStart(row, plan.window)

\* createOpenRunWithScheduleLink: Run and link in one transaction (the initial
\* signups of its Raid Lead count as a SignUp right after).
CreateScheduleRun(p, r) ==
    /\ Creating(p)
    /\ LET plan == req[p].plan IN
       /\ SlotFree(plan.slot)
       /\ SlotStillHas(plan)
       /\ ~Fulfilled(plan.slot, plan.window)
       /\ run[r].status = "NONE"
       /\ run' = [run EXCEPT ![r] = [status |-> "OPEN", archived |-> FALSE, used |-> FALSE,
                                     start |-> StartOf(plan.time, plan.window)]]
       /\ link' = [link EXCEPT ![r] = [slot |-> plan.slot, of |-> plan.slot, window |-> plan.window,
                                       time |-> plan.time, origin |-> "MATERIALIZED"]]
    /\ req' = Created(p, {})
    /\ UNCHANGED <<now, slot, slotLock, jobLock, revived, late, changes>>

\* SCHEDULE_OCCURRENCE_ALREADY_CREATED from the unique constraint, or
\* COMMUNITY_SCHEDULE_SLOT_CHANGED: rolled back, and the pass goes on.
CreateIsRefused(p) ==
    /\ Creating(p)
    /\ SlotFree(req[p].plan.slot)
    /\ ~SlotStillHas(req[p].plan) \/ Fulfilled(req[p].plan.slot, req[p].plan.window)
    /\ req' = Created(p, {})
    /\ UNCHANGED <<now, rows, slotLock, jobLock, revived, late, changes>>

\* Any other error costs this occurrence; nothing retries it before the next release.
CreateFails(p) ==
    /\ Creating(p)
    /\ req' = Created(p, {req[p].plan.slot})
    /\ UNCHANGED <<now, rows, slotLock, jobLock, revived, late, changes>>

EndPass(p) ==
    /\ req[p].op = "pass" /\ req[p].todo = {}
    /\ jobLock' = None
    /\ req' = [req EXCEPT ![p] = Idle]
    /\ UNCHANGED <<now, rows, slotLock, revived, late, changes>>

-----------------------------------------------------------------------------
(* Changing slots: lock, write, retire, in one transaction.                *)

\* resolveStartBoundary: at once, or from the next raid ID.
StartChoices == {0, WindowOf(now) + 1}
CanChange(p) == req[p] = Idle /\ changes < MaxChanges

BeginChange(p, op, slots, new) ==
    /\ CanChange(p)
    /\ changes' = changes + 1
    /\ Begin(p, [op |-> op, at |-> now, order |-> [s \in slots |-> slot[s].time], todo |-> slots,
                 held |-> {}, new |-> new, retire |-> {}])
    /\ UNCHANGED <<now, rows, slotLock, jobLock, revived, late>>

LoadUpdateSlot(p, s, time, from) ==
    /\ slot[s].there
    /\ TimeIsFree(s, time)   \* assertNoDuplicate
    /\ from \in {slot[s].from} \cup StartChoices
    /\ BeginChange(p, "updateSlot", {s}, [slot[s] EXCEPT !.time = time, !.from = from])

LoadDeactivateSlot(p, s) == slot[s].there /\ BeginChange(p, "deactivateSlot", {s}, None)
LoadDeleteSlot(p, s) == slot[s].there /\ BeginChange(p, "deleteSlot", {s}, None)
\* All slots of the Run Setup, listed before the first is locked.
LoadDeleteRunSetup(p) ==
    LET there == {s \in Slots : slot[s].there} IN
    there # {} /\ BeginChange(p, "deleteRunSetup", there, None)

\* What the change of slot s takes away from its occurrence in window w.
Affects(p, s, w) ==
    req[p].op = "updateSlot" =>
        \/ req[p].new.time # slot[s].time
        \/ req[p].new.from > slot[s].from /\ IsBeforeScheduleStart(req[p].new, w)

\* Faulty variant: signups and origin are not looked at.
FaultyMayRetire(r, at) == IsLive(r) /\ run[r].start > at
\* Only its own Runs that are still to come and that nobody signed up for
\* (retireOwnedDraftsInTx, retireScheduleDraftInTx).
MayRetire(r, at) == /\ IsLive(r) /\ run[r].start > at
                    /\ link[r].origin = "MATERIALIZED"
                    /\ ~run[r].used

\* The next slot is locked, and its Runs are looked at under their roster locks.
LockSlot(p, s) ==
    /\ req[p].op \in Changes
    /\ s \in req[p].todo
    /\ \A u \in req[p].todo : req[p].order[s] <= req[p].order[u]
    /\ SlotFree(s)
    /\ req[p].op # "deleteRunSetup" => slot[s].there
    /\ req[p].op = "deactivateSlot" => slot[s].isActive
    /\ LET owned == {r \in Runs : link[r] # None /\ link[r].slot = s}
           retire == {r \in owned : /\ Affects(p, s, link[r].window)
                                    /\ MayRetire(r, req[p].at)}
       IN /\ \A r \in retire : RosterFree(r)
          /\ req' = [req EXCEPT ![p].todo = @ \ {s}, ![p].held = @ \cup {s},
                                ![p].retire = @ \cup retire]
    /\ slotLock' = [slotLock EXCEPT ![s] = p]
    /\ UNCHANGED <<now, rows, jobLock, revived, late, changes>>

\* The row of a slot this change holds, after it.
ChangedSlot(p, s) ==
    LET row == slot[s] IN
    CASE req[p].op = "updateSlot" ->
             [row EXCEPT !.time = req[p].new.time, !.from = req[p].new.from, !.rev = @ + 1]
      [] req[p].op = "deactivateSlot" -> [row EXCEPT !.isActive = FALSE, !.rev = @ + 1]
      [] OTHER -> [row EXCEPT !.there = FALSE, !.rev = @ + 1]

\* Faulty variant: the Runs that are kept lose their occurrence as well.
FaultyFreedLink(p, r) ==
    IF link[r] # None /\ link[r].slot \in req[p].held /\ (r \in req[p].retire \/ run[r].used)
    THEN [link[r] EXCEPT !.slot = None] ELSE link[r]
\* A retired Run frees its occurrence, a deleted slot all of them (SET NULL).
FreedLink(p, r) ==
    IF \/ r \in req[p].retire
       \/ link[r] # None /\ link[r].slot \in req[p].held /\ req[p].op \in {"deleteSlot", "deleteRunSetup"}
    THEN [link[r] EXCEPT !.slot = None] ELSE link[r]

CommitChange(p) ==
    /\ req[p].op \in Changes
    /\ req[p].todo = {}
    /\ req[p].op = "updateSlot" => \A s \in req[p].held : TimeIsFree(s, req[p].new.time)
    /\ slot' = [s \in Slots |-> IF s \in req[p].held THEN ChangedSlot(p, s) ELSE slot[s]]
    /\ run' = [r \in Runs |-> IF r \in req[p].retire
                              THEN [run[r] EXCEPT !.status = "CANCELLED", !.archived = TRUE]
                              ELSE run[r]]
    /\ link' = [r \in Runs |-> FreedLink(p, r)]
    /\ Unlock(p)
    /\ req' = [req EXCEPT ![p] = Idle]
    /\ UNCHANGED <<now, jobLock, revived, late, changes>>

\* Reactivation takes no lock of its own, and makes no Run.
ReactivateSlot(s) ==
    /\ changes < MaxChanges
    /\ slot[s].there /\ ~slot[s].isActive
    /\ SlotFree(s)
    /\ slot' = [slot EXCEPT ![s].isActive = TRUE, ![s].rev = @ + 1]
    /\ changes' = changes + 1
    /\ UNCHANGED <<now, run, link, slotLock, jobLock, req, revived, late>>

\* createSlot, addTimesToSetup.
CreateSlot(s, time, from) ==
    /\ changes < MaxChanges
    /\ ~slot[s].there /\ slot[s].rev = 0 /\ SlotFree(s)
    /\ TimeIsFree(s, time) /\ from \in StartChoices
    /\ slot' = [slot EXCEPT ![s] = [there |-> TRUE, isActive |-> TRUE, time |-> time,
                                    from |-> from, rev |-> 0]]
    /\ changes' = changes + 1
    /\ UNCHANGED <<now, run, link, slotLock, jobLock, req, revived, late>>

-----------------------------------------------------------------------------
(* Attaching an existing Run: it is read without a lock of its own.         *)

\* assertRunAttachable and the checks of attachExistingRunInTx.
Attachable(row, s, r) ==
    /\ IsLive(r)
    /\ WindowOf(run[r].start) >= WindowOf(now)
    /\ ~IsBeforeScheduleStart(row, WindowOf(run[r].start))
    /\ link[r] = None
    /\ ~Fulfilled(s, WindowOf(run[r].start))

AttachReads(p, s, r) ==
    /\ SlotFree(s)
    /\ slot[s].there /\ slot[s].isActive
    /\ Attachable(slot[s], s, r)
    /\ Begin(p, [op |-> "attach", slot |-> s, row |-> slot[s], run |-> r])
    /\ slotLock' = [slotLock EXCEPT ![s] = p]
    /\ UNCHANGED <<now, rows, jobLock, revived, late, changes>>

\* createSchedulePlan: the new slot and its first occurrence in one transaction.
CreateSlotReads(p, s, r, time, from) ==
    /\ CanChange(p)
    /\ changes' = changes + 1
    /\ SlotFree(s)
    /\ ~slot[s].there /\ slot[s].rev = 0 /\ from \in StartChoices
    /\ LET row == [there |-> TRUE, isActive |-> TRUE, time |-> time, from |-> from,
                   rev |-> 0]
       IN /\ Attachable(row, s, r)
          /\ Begin(p, [op |-> "attach", slot |-> s, row |-> row, run |-> r])
    /\ slotLock' = [slotLock EXCEPT ![s] = p]
    /\ UNCHANGED <<now, rows, jobLock, revived, late>>

\* The unique constraints decide: runId, (slot, window), and the slot's time.
AttachCommits(p) ==
    /\ req[p].op = "attach"
    /\ LET s == req[p].slot  r == req[p].run  w == WindowOf(run[r].start) IN
       /\ link[r] = None /\ ~Fulfilled(s, w)
       /\ TimeIsFree(s, req[p].row.time)
       /\ slot' = [slot EXCEPT ![s] = req[p].row]
       /\ link' = [link EXCEPT ![r] = [slot |-> s, of |-> s, window |-> w, time |-> req[p].row.time,
                                       origin |-> "ATTACHED"]]
    /\ Unlock(p)
    /\ req' = [req EXCEPT ![p] = Idle]
    /\ UNCHANGED <<now, run, jobLock, revived, late, changes>>

-----------------------------------------------------------------------------
(* The Runs themselves, the clock and failures.                             *)

SetRun(r, row) == /\ run' = [run EXCEPT ![r] = row]
                  /\ UNCHANGED <<now, slot, link, slotLock, jobLock, req>>

\* Players take no lock at all.
SignUp(r) ==
    /\ IsLive(r) /\ ~run[r].used
    /\ SetRun(r, [run[r] EXCEPT !.used = TRUE])
    /\ late' = IF RosterFree(r) THEN late ELSE late \cup {r}
    /\ UNCHANGED <<revived, changes>>

CancelRun(r) ==
    /\ IsLive(r) /\ RosterFree(r)
    /\ changes < MaxChanges
    /\ changes' = changes + 1
    /\ SetRun(r, [run[r] EXCEPT !.status = "CANCELLED"])
    /\ UNCHANGED <<revived, late>>

\* Restore, which the retired Run needs first, and Reactivate.
ReactivateRun(r) ==
    /\ run[r].status = "CANCELLED" /\ run[r].start > now
    /\ SetRun(r, [run[r] EXCEPT !.status = "OPEN", !.archived = FALSE])
    /\ revived' = revived \cup {r}
    /\ UNCHANGED <<late, changes>>

Tick == /\ now < MaxNow
        /\ now' = now + 1
        /\ UNCHANGED <<rows, slotLock, jobLock, req, revived, late, changes>>

\* The process dies, or an open transaction is refused and rolls back.
Die(p) ==
    /\ req[p] # Idle
    /\ Unlock(p)
    /\ jobLock' = IF jobLock = p THEN None ELSE jobLock
    /\ req' = [req EXCEPT ![p] = Idle]
    /\ UNCHANGED <<now, rows, revived, late, changes>>

PassStep(p) == \/ StartPass(p) \/ EndPass(p) \/ CreateIsRefused(p) \/ CreateFails(p)
               \/ \E s \in Slots : PassSkips(p, s) \/ PassPlans(p, s)
               \/ \E r \in Runs : CreateScheduleRun(p, r)
               \/ \E s \in Slots, w \in Windows : LoadCreateRun(p, s, w)

ChangeStep(p) ==
    \/ CommitChange(p) \/ LoadDeleteRunSetup(p)
    \/ \E s \in Slots : \/ LockSlot(p, s) \/ LoadDeactivateSlot(p, s) \/ LoadDeleteSlot(p, s)
                        \/ \E time \in Times, from \in Windows :
                               LoadUpdateSlot(p, s, time, from)

AttachStep(p) ==
    \/ AttachCommits(p)
    \/ \E s \in Slots, r \in Runs :
           \/ AttachReads(p, s, r)
           \/ \E time \in Times, from \in Windows : CreateSlotReads(p, s, r, time, from)

Next == \/ \E p \in Requests : PassStep(p) \/ ChangeStep(p) \/ AttachStep(p) \/ Die(p)
        \/ \E s \in Slots : \/ ReactivateSlot(s)
                            \/ \E time \in Times, from \in Windows :
                                   CreateSlot(s, time, from)
        \/ \E r \in Runs : SignUp(r) \/ CancelRun(r) \/ ReactivateRun(r)
        \/ Tick

Spec == Init /\ [][Next]_vars

-----------------------------------------------------------------------------
(* Properties. *)

\* Every variable keeps its type: the rows of the tables, the holders of the
\* locks, the requests in flight.
TypeOK == /\ now \in 0 .. MaxNow
          /\ slot \in [Slots -> SlotRows]
          /\ run \in [Runs -> RunRows]
          /\ link \in [Runs -> Links \cup {None}]
          /\ slotLock \in [Slots -> Requests \cup {None}]
          /\ jobLock \in Requests \cup {None}
          /\ \A p \in Requests :
                req[p] \in {Idle} \cup PassRows \cup CreateRows \cup ChangeRows \cup AttachRows
          /\ revived \subseteq Runs /\ late \subseteq Runs
          /\ changes \in 0 .. MaxChanges

\* The schedule leaves no orphan: a Run it made, that is still to come and that
\* nobody signed up for, is the occurrence of a slot that is active at that
\* time, whatever pass, Create Run and slot change overlapped ("cleanup can
\* never leave an orphan Schedule Run", run.service.ts).  A Run that was
\* cancelled when the slot changed may come back later.
NoOrphan ==
    \A r \in Runs :
        /\ link[r] # None /\ link[r].origin = "MATERIALIZED"
        /\ IsLive(r) /\ ~run[r].used /\ run[r].start > now
        /\ r \notin revived
        => /\ link[r].slot # None
           /\ LET row == slot[link[r].slot] IN
              row.there /\ row.isActive /\ row.time = link[r].time /\ ~IsBeforeScheduleStart(row, link[r].window)

\* An occurrence never gets a second live Run, over any number of passes, edits
\* back and forth and attachments, unless a cancelled one is brought back.
OneRunPerOccurrence ==
    \A r, q \in Runs \ revived :
        /\ r # q /\ link[r] # None /\ link[q] # None
        /\ link[r].of = link[q].of /\ link[r].window = link[q].window
        => ~(IsLive(r) /\ IsLive(q))

\* A slot change never takes away a Run that was attached or that somebody
\* signed up for, except when the signup arrived after the change had looked.
\* (What FollowsBoard says of the Runs that go, by itself.)
SignedUpRunsSurvive ==
    [][\A r \in Runs :
          IsLive(r) /\ run'[r].archived =>
              link[r].origin = "MATERIALIZED" /\ (run[r].used => r \in late)]_vars

\* The window whose release is the latest one at t.
IsReleased(w, t) == w * Week - (Week - Release) <= t /\ t < w * Week + Release

\* A pass leaves no gap: every listed slot it is done with has a Run for the
\* released window, or none was due (over, before the start), or creating it
\* failed, or the slot was changed meanwhile.
PassLeavesNoGap ==
    \A p \in Requests : req[p].op = "pass" =>
        \A s \in DOMAIN req[p].listed \ (req[p].todo \cup req[p].failed) :
            \A w \in Windows :
                IsReleased(w, req[p].at) /\ slot[s] = req[p].listed[s] =>
                    \/ Fulfilled(s, w)
                    \/ StartOf(slot[s].time, w) < req[p].at
                    \/ IsBeforeScheduleStart(slot[s], w)

-----------------------------------------------------------------------------
Board == INSTANCE ScheduleBoard

\* Passes, Create Run, slot changes and attachments, which work from what they
\* read earlier and hold row locks over several steps, look as if each were one
\* step of ScheduleBoard.  In particular a slot change takes away exactly those
\* of its idle Runs that its new rows do not cover when it commits, and no Run
\* that somebody had signed up for when it looked.
FollowsBoard == Board!Spec
=============================================================================
