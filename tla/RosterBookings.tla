---------------------------- MODULE RosterBookings ----------------------------
(***************************************************************************)
(* Players offer Characters for Runs and Raid Leads put them on rosters:   *)
(* signup.service.ts and roster.service.ts over the transactions of        *)
(* signup.repository.ts, roster.repository.ts and attendance.repository.ts.*)
(*                                                                         *)
(* Rosters of different Runs share one thing, the Characters.  A roster    *)
(* transaction locks its own RunRoster row first, then (in id order) one   *)
(* advisory lock per Character it newly books, asks for colliding          *)
(* reservations, and only then writes.  Every one of these is a step here. *)
(* Player offers take no lock at all, and the draft slot of a withdrawn    *)
(* offer is dropped by a transaction of its own that follows.              *)
(*                                                                         *)
(* Abstractions: a signup is identified by its Run and Character, each     *)
(* Character has a player of its own, ROSTERING counts as OPEN (no check   *)
(* here tells them apart), the roster version is the flag `fresh` of a     *)
(* request that loaded it, boss exceptions are left out, and status        *)
(* changes, which all hold the RunRoster row, are single steps (their      *)
(* unlocked rivals are the subject of RunLifecycle).                       *)
(***************************************************************************)
EXTENDS Integers, FiniteSets

CONSTANTS Runs,
          Characters,   \* numbered: the advisory locks are taken in id order
          Starts,       \* start times, in hours
          MinGap,       \* CROSS_RUN_RESERVATION_MIN_GAP_MS, in hours
          Requests,
          NoRequest,
          Movable,      \* bound: the Runs that are rescheduled or cancelled
          MaxRequests   \* bound on the requests of one behaviour

ASSUME BookingsAssumption == /\ Characters \subseteq Nat
                             /\ Starts \subseteq Int
                             /\ MinGap \in Nat
                             /\ Movable \subseteq Runs
                             /\ MaxRequests \in Nat
                             /\ NoRequest \notin Requests

VARIABLES status,      \* Run.status
          cancelledFrom,
          start,       \* Run.scheduledStartAt
          revised,     \* Runs with scheduleRevision > 0, or reactivated
          signup,      \* RunSignup.status by Run and Character
          draft,       \* the selected RunRosterEntry rows of each Run
          attendance,  \* Characters with a RunAttendance row
          rosterLock,  \* who holds each RunRoster row
          charLock,    \* who holds each Character's advisory lock
          slipped,     \* history: bookings that came back through a leftover draft slot
          req,         \* the requests in flight
          issued       \* how many requests were made

runVars == <<status, cancelledFrom, start, revised, attendance>>
lockVars == <<rosterLock, charLock>>
vars == <<runVars, signup, draft, lockVars, slipped, req, issued>>

Statuses == {"OPEN", "PUBLISHED", "IN_PROGRESS", "COMPLETED", "CANCELLED"}
Editable == {"OPEN", "PUBLISHED"}             \* EDITABLE_RUN_STATUSES
Upcoming == {"OPEN", "PUBLISHED", "IN_PROGRESS"}   \* UPCOMING_RUN_STATUSES
SignupStatuses == {"NONE", "PENDING", "SELECTED", "NOT_SELECTED", "WITHDRAWN"}

RosterOps == {"saveDraft", "addPlayer", "publishRoster", "updateRoster"}
PlayerOps == {"createOffer", "renewOffer", "withdrawOffer", "withdrawPicked"}
Ops == RosterOps \cup PlayerOps \cup {"replaceParticipant"}

\* chars: the Characters the request selects, offers or withdraws; leave: those
\* it makes NOT_SELECTED (or, for addPlayer, creates); need: those it has to
\* reserve; seen: the draft it was loaded with; at: the start it was loaded with.
ReqRows == [op : Ops, pc : {"loaded", "locking", "checked", "clearing"}, run : Runs,
            chars : SUBSET Characters, leave : SUBSET Characters, need : SUBSET Characters,
            seen : SUBSET Characters, at : Starts, fresh : BOOLEAN]
Idle == [pc |-> "idle"]

-----------------------------------------------------------------------------
(* Reservations. *)

\* Faulty variant: only the Run that starts later collides.
FaultyScheduledStartsCollide(a, b) == a - b < MinGap /\ a >= b
\* scheduledStartsCollideForReservation: |a - b| < the minimum gap.
ScheduledStartsCollide(a, b) == IF a >= b THEN a - b < MinGap ELSE b - a < MinGap

\* A signup reserves its Character when it is SELECTED or in the draft.
Reserves(r, c) == signup[r][c] # "WITHDRAWN" /\ (signup[r][c] = "SELECTED" \/ c \in draft[r])

\* queryReservationConflicts: another upcoming Run close to `at` reserves c.
ReservationConflict(c, r, at) ==
    \E s \in Runs \ {r} : /\ ScheduledStartsCollide(start[s], at)
                          /\ status[s] \in Upcoming
                          /\ Reserves(s, c)

SignedUp(r) == {c \in Characters : signup[r][c] \notin {"NONE", "WITHDRAWN"}}
Withdrawn(r) == {c \in Characters : signup[r][c] = "WITHDRAWN"}
Lineup(r) == {c \in Characters : signup[r][c] = "SELECTED"}

\* ROSTER_LOCKED_RUN_STATUSES and canSelfWithdrawSignup.
CanSelfWithdraw(r, c) ==
    /\ signup[r][c] \in {"PENDING", "SELECTED"}
    /\ status[r] \notin {"COMPLETED", "CANCELLED"}
    /\ signup[r][c] = "SELECTED" => status[r] = "OPEN"
\* isPickedSignup
IsPicked(r, c) == Reserves(r, c)

-----------------------------------------------------------------------------
\* A roster nobody is working on: a published one is the selected players, and
\* the draft may still hold slots whose offer was withdrawn.
Settled(r) == /\ draft[r] \subseteq SignedUp(r) \cup Withdrawn(r)
              /\ Lineup(r) = IF status[r] = "PUBLISHED" THEN draft[r] \ Withdrawn(r) ELSE {}

\* Runs before Start, in any state settled rosters can be in.
Init == /\ status \in [Runs -> Editable]
        /\ cancelledFrom = [r \in Runs |-> "OPEN"]
        /\ start \in [Runs -> Starts]
        /\ revised = {}
        /\ signup \in [Runs -> [Characters -> SignupStatuses]]
        /\ draft \in [Runs -> SUBSET Characters]
        /\ \A r \in Runs : Settled(r)
        /\ \A r \in Runs, c \in Characters : Reserves(r, c) => ~ReservationConflict(c, r, start[r])
        /\ attendance = [r \in Runs |-> {}]
        /\ rosterLock = [r \in Runs |-> NoRequest]
        /\ charLock = [c \in Characters |-> NoRequest]
        /\ slipped = {}
        /\ req = [p \in Requests |-> Idle]
        /\ issued = 0

At(p, ops, pc) == req[p].pc = pc /\ req[p].op \in ops
RosterFree(r) == rosterLock[r] = NoRequest

\* A request arrives and the service loads what its later writes rely on.
Load(p, op, r, chars, leave, need) ==
    /\ req[p] = Idle
    /\ issued < MaxRequests
    /\ issued' = issued + 1
    /\ req' = [req EXCEPT ![p] = [op |-> op, pc |-> "loaded", run |-> r, chars |-> chars,
                                  leave |-> leave, need |-> need, seen |-> draft[r],
                                  at |-> start[r], fresh |-> TRUE]]
    /\ UNCHANGED <<runVars, signup, draft, lockVars, slipped>>

\* A bump of the roster version of r: requests that loaded an older one fail
\* assertVersion.
Outdate(r, requests) ==
    [q \in Requests |-> IF requests[q] # Idle /\ requests[q].op \in RosterOps
                           /\ requests[q].pc = "loaded" /\ requests[q].run = r
                        THEN [requests[q] EXCEPT !.fresh = FALSE] ELSE requests[q]]

\* Locks are released with the transaction that took them.
Unlock(p) ==
    /\ rosterLock' = [r \in Runs |-> IF rosterLock[r] = p THEN NoRequest ELSE rosterLock[r]]
    /\ charLock' = [c \in Characters |-> IF charLock[c] = p THEN NoRequest ELSE charLock[c]]

-----------------------------------------------------------------------------
(* The Raid Lead's requests: what the services check on plain reads. *)

LoadSaveDraft(p, r, chars) ==
    /\ status[r] \in Editable
    /\ chars \subseteq SignedUp(r)
    /\ \A c \in chars \ draft[r] : ~ReservationConflict(c, r, start[r])
    /\ Load(p, "saveDraft", r, chars, {}, chars \ draft[r])

LoadAddPlayer(p, r, c) ==
    /\ status[r] \in Editable
    /\ signup[r][c] # "WITHDRAWN"
    /\ c \notin draft[r] => ~ReservationConflict(c, r, start[r])
    /\ Load(p, "addPlayer", r, {c}, {d \in {c} : signup[r][d] = "NONE"}, {c} \ draft[r])

\* planAuthoritativeRoster: everyone selected is checked again, everyone else
\* who is signed up becomes NOT_SELECTED.
PlanRoster(r, chars) ==
    /\ chars # {} /\ chars \subseteq SignedUp(r)
    /\ \A c \in chars : ~ReservationConflict(c, r, start[r])

LoadPublishRoster(p, r) ==
    /\ status[r] \in Editable
    /\ PlanRoster(r, draft[r])
    /\ Load(p, "publishRoster", r, draft[r], SignedUp(r) \ draft[r], draft[r])

LoadUpdateRoster(p, r, chars) ==
    /\ status[r] = "PUBLISHED"
    /\ PlanRoster(r, chars)
    /\ Load(p, "updateRoster", r, chars, SignedUp(r) \ chars, chars)

-----------------------------------------------------------------------------
(* One roster transaction: lockRosterInTx, the checks, the Character locks, *)
(* the reservation check, the write.                                       *)

\* Faulty variant: the version the draft was loaded with is not compared.
FaultyUnversioned(p) == status[req[p].run] \in Editable
\* assertVersion and assertRunPreStartInTx.
MayWriteRoster(p) == req[p].fresh /\ status[req[p].run] \in Editable

\* Publish copies the selection it planned; the draft writes look again for
\* signups withdrawn meanwhile, and Add Player refuses only its own.
BeginRosterWrite(p) ==
    /\ At(p, RosterOps, "loaded")
    /\ LET r == req[p].run IN
       /\ RosterFree(r)
       /\ MayWriteRoster(p)
       /\ req[p].op # "publishRoster" => req[p].chars \cap Withdrawn(r) = {}
       /\ rosterLock' = [rosterLock EXCEPT ![r] = p]
    /\ req' = [req EXCEPT ![p].pc = "locking"]
    /\ UNCHANGED <<runVars, signup, draft, charLock, slipped, issued>>

Unheld(p) == {c \in req[p].need : charLock[c] # p}

\* Faulty variant: the Characters are locked in any order.
FaultyIsNextToLock(p, c) == TRUE
\* lockCharactersForReservationInTx sorts the Characters.
IsNextToLock(p, c) == \A d \in Unheld(p) : c <= d

LockCharacter(p, c) ==
    /\ At(p, Ops, "locking")
    /\ c \in Unheld(p)
    /\ IsNextToLock(p, c)
    /\ charLock[c] = NoRequest
    /\ charLock' = [charLock EXCEPT ![c] = p]
    /\ UNCHANGED <<runVars, signup, draft, rosterLock, slipped, req, issued>>

\* Faulty variant: the reservations are looked up before the locks are held.
FaultyReserved(p) == \A c \in req[p].need : ~ReservationConflict(c, req[p].run, req[p].at)
\* assertCharactersFreeForReservationInTx: under the locks nobody else reserves.
Reserved(p) == /\ Unheld(p) = {}
               /\ \A c \in req[p].need : ~ReservationConflict(c, req[p].run, req[p].at)

CheckReservations(p) ==
    /\ At(p, Ops, "locking")
    /\ Reserved(p)
    /\ req' = [req EXCEPT ![p].pc = "checked"]
    /\ UNCHANGED <<runVars, signup, draft, lockVars, slipped, issued>>

FinishRosterWrite(p) ==
    /\ Unlock(p)
    /\ req' = [Outdate(req[p].run, req) EXCEPT ![p] = Idle]
    /\ UNCHANGED <<slipped, issued, cancelledFrom, start, revised, attendance>>

SaveDraft(p) ==
    /\ At(p, {"saveDraft"}, "checked")
    /\ draft' = [draft EXCEPT ![req[p].run] = req[p].chars]
    /\ FinishRosterWrite(p)
    /\ UNCHANGED <<status, signup>>

\* Keeps every slot that is not withdrawn; a signup that does not exist yet is
\* created, which fails if the player created it first.
AddPlayer(p) ==
    /\ At(p, {"addPlayer"}, "checked")
    /\ LET r == req[p].run IN
       /\ \A c \in req[p].leave : signup[r][c] = "NONE"
       /\ draft' = [draft EXCEPT ![r] = (@ \ Withdrawn(r)) \cup req[p].chars]
       /\ signup' = [signup EXCEPT ![r] = [c \in Characters |->
                        IF c \in req[p].leave THEN "PENDING" ELSE @[c]]]
    /\ FinishRosterWrite(p)
    /\ UNCHANGED status

\* publishSelectionsInTx writes what was planned, whatever the rows say now.
PublishedSignups(p) ==
    [signup EXCEPT ![req[p].run] = [c \in Characters |->
        IF c \in req[p].chars THEN "SELECTED"
        ELSE IF c \in req[p].leave THEN "NOT_SELECTED" ELSE @[c]]]

PublishRoster(p) ==
    /\ At(p, {"publishRoster", "updateRoster"}, "checked")
    /\ signup' = PublishedSignups(p)
    /\ status' = [status EXCEPT ![req[p].run] = "PUBLISHED"]
    /\ draft' = [draft EXCEPT ![req[p].run] = req[p].chars]
    /\ FinishRosterWrite(p)

-----------------------------------------------------------------------------
(* replaceParticipantAtomic: one transaction that takes the locks in the    *)
(* opposite order, the Character's before the RunRoster row.               *)

BeginReplace(p, r, out, c) ==
    /\ status[r] = "IN_PROGRESS"
    /\ out \in attendance[r]
    /\ signup[r][c] \in {"PENDING", "NOT_SELECTED"}
    /\ req[p] = Idle
    /\ issued < MaxRequests
    /\ issued' = issued + 1
    /\ req' = [req EXCEPT ![p] = [op |-> "replaceParticipant", pc |-> "locking", run |-> r,
                                  chars |-> {c}, leave |-> {out}, need |-> {c},
                                  seen |-> draft[r], at |-> start[r], fresh |-> TRUE]]
    /\ UNCHANGED <<runVars, signup, draft, lockVars, slipped>>

\* The replaced player becomes NOT_SELECTED, also when withdrawn meanwhile, and
\* keeps the roster entry its attendance row hangs on, so stays reserved.
ReplaceParticipant(p) ==
    /\ At(p, {"replaceParticipant"}, "checked")
    /\ LET r == req[p].run IN
       /\ RosterFree(r)
       /\ req[p].chars \cap attendance[r] = {}
       /\ signup' = PublishedSignups(p)
       /\ draft' = [draft EXCEPT ![r] = @ \cup req[p].chars]
       /\ attendance' = [attendance EXCEPT ![r] = @ \cup req[p].chars]
       /\ slipped' = slipped \cup ({r} \X (req[p].leave \cap draft[r] \cap Withdrawn(r)))
       /\ Unlock(p)
       /\ req' = [Outdate(r, req) EXCEPT ![p] = Idle]
    /\ UNCHANGED <<status, cancelledFrom, start, revised, issued>>

-----------------------------------------------------------------------------
(* Players: setCharacterOffers, quickSignupBoosters, cancelBoosterSignup,   *)
(* cancelActiveSignups, withdrawSignup, withdrawPickedSignup.              *)

\* An offer is created or a withdrawn one renewed: signups are open, and the
\* Character is not reserved elsewhere.
LoadOffer(p, r, c) ==
    /\ status[r] \in Editable
    /\ signup[r][c] \in {"NONE", "WITHDRAWN"}
    /\ ~ReservationConflict(c, r, start[r])
    /\ Load(p, IF signup[r][c] = "NONE" THEN "createOffer" ELSE "renewOffer", r, {c}, {}, {})

\* applyOfferPlan: no lock; the reservations and the row are looked at again.
\* An offer does not book its Character, unless a slot was left in the draft.
ApplyOffer(p) ==
    /\ At(p, {"createOffer", "renewOffer"}, "loaded")
    /\ LET r == req[p].run IN
       /\ \A c \in req[p].chars :
              /\ signup[r][c] = IF req[p].op = "createOffer" THEN "NONE" ELSE "WITHDRAWN"
              /\ ~ReservationConflict(c, r, req[p].at)
       /\ signup' = [signup EXCEPT ![r] = [c \in Characters |->
                        IF c \in req[p].chars THEN "PENDING" ELSE @[c]]]
       /\ slipped' = slipped \cup ({r} \X (req[p].chars \cap draft[r]))
    /\ req' = [req EXCEPT ![p] = Idle]
    /\ UNCHANGED <<runVars, draft, lockVars, issued>>

\* A removal is planned only for an offer that is not on the roster.
MayLeave(r, c) == CanSelfWithdraw(r, c) /\ c \notin draft[r]

LoadWithdraw(p, r, c) == MayLeave(r, c) /\ Load(p, "withdrawOffer", r, {c}, {}, {})

\* applyOfferPlan, signupRepository.update: no lock, and the row is withdrawn
\* whatever became of it since the plan was made.
WithdrawOffer(p) ==
    /\ At(p, {"withdrawOffer"}, "loaded")
    /\ signup' = [signup EXCEPT ![req[p].run] = [c \in Characters |->
                     IF c \in req[p].chars THEN "WITHDRAWN" ELSE @[c]]]
    /\ req' = [req EXCEPT ![p].pc = "clearing"]
    /\ UNCHANGED <<runVars, draft, lockVars, slipped, issued>>

\* clearDraftSelectionsForSignupIds looks for entries first and locks only the
\* rosters that have one.
ClearNothing(p) ==
    /\ At(p, {"withdrawOffer"}, "clearing")
    /\ req[p].chars \cap draft[req[p].run] = {}
    /\ req' = [req EXCEPT ![p] = Idle]
    /\ UNCHANGED <<runVars, signup, draft, lockVars, slipped, issued>>

ClearDraftSelection(p) ==
    /\ At(p, {"withdrawOffer"}, "clearing")
    /\ LET r == req[p].run IN
       /\ req[p].chars \cap draft[r] # {}
       /\ req[p].chars \cap attendance[r] = {}   \* RunAttendance.rosterEntry: Restrict
       /\ RosterFree(r)
       /\ draft' = [draft EXCEPT ![r] = @ \ req[p].chars]
       /\ req' = [Outdate(r, req) EXCEPT ![p] = Idle]
    /\ UNCHANGED <<runVars, signup, lockVars, slipped, issued>>

LoadWithdrawPicked(p, r, c) ==
    /\ IsPicked(r, c)
    /\ status[r] \in Editable
    /\ Load(p, "withdrawPicked", r, {c}, {}, {})

\* Faulty variant: a picked player leaves a Run that has started.
FaultyMayWithdrawPicked(r, c) == signup[r][c] \notin {"WITHDRAWN", "NOT_SELECTED"}
\* withdrawPickedSignupAtomic, under the roster lock.
MayWithdrawPicked(r, c) == /\ status[r] \in Editable
                           /\ signup[r][c] \notin {"WITHDRAWN", "NOT_SELECTED"}

WithdrawPicked(p) ==
    /\ At(p, {"withdrawPicked"}, "loaded")
    /\ LET r == req[p].run IN
       /\ RosterFree(r)
       /\ \A c \in req[p].chars : MayWithdrawPicked(r, c)
       /\ signup' = [signup EXCEPT ![r] = [c \in Characters |->
                        IF c \in req[p].chars THEN "WITHDRAWN" ELSE @[c]]]
       /\ draft' = [draft EXCEPT ![r] = @ \ req[p].chars]
       /\ req' = [Outdate(r, req) EXCEPT ![p] = Idle]
    /\ UNCHANGED <<runVars, lockVars, slipped, issued>>

-----------------------------------------------------------------------------
(* The Run itself.  All of these hold the RunRoster row; `revised` bounds    *)
(* them: a Run is moved or cancelled at most once.                         *)

StartRun(r) ==
    /\ RosterFree(r)
    /\ status[r] = "PUBLISHED"
    /\ Lineup(r) # {} /\ draft[r] = Lineup(r)   \* no unpublished changes
    /\ status' = [status EXCEPT ![r] = "IN_PROGRESS"]
    /\ attendance' = [attendance EXCEPT ![r] = Lineup(r)]
    /\ UNCHANGED <<cancelledFrom, start, revised, signup, draft, lockVars, slipped, req, issued>>

CompleteRun(r) ==
    /\ RosterFree(r)
    /\ status[r] = "IN_PROGRESS"
    /\ status' = [status EXCEPT ![r] = "COMPLETED"]
    /\ UNCHANGED <<cancelledFrom, start, revised, attendance, signup, draft, lockVars, slipped,
                   req, issued>>

MayCancel(r) == status[r] \in Editable

CancelRun(r) ==
    /\ RosterFree(r)
    /\ MayCancel(r)
    /\ r \in Movable \ revised
    /\ status' = [status EXCEPT ![r] = "CANCELLED"]
    /\ cancelledFrom' = [cancelledFrom EXCEPT ![r] = status[r]]
    /\ UNCHANGED <<start, revised, attendance, signup, draft, lockVars, slipped, req, issued>>

\* The Run comes back with its roster; nobody asks whether its Characters were
\* booked elsewhere meanwhile.
ReactivateRun(r) ==
    /\ RosterFree(r)
    /\ status[r] = "CANCELLED"
    /\ status' = [status EXCEPT ![r] = cancelledFrom[r]]
    /\ revised' = revised \cup {r}
    /\ UNCHANGED <<cancelledFrom, start, attendance, signup, draft, lockVars, slipped, req, issued>>

\* updateRun moves the start; the roster version stays, so a request loaded
\* before still checks its reservations against the old start.
RescheduleRun(r, at) ==
    /\ RosterFree(r)
    /\ status[r] \in Editable
    /\ r \in Movable \ revised
    /\ at # start[r]
    /\ start' = [start EXCEPT ![r] = at]
    /\ revised' = revised \cup {r}
    /\ UNCHANGED <<status, cancelledFrom, attendance, signup, draft, lockVars, slipped, req, issued>>

-----------------------------------------------------------------------------
\* A check refuses the request, or its process dies: an open transaction rolls
\* back, what was committed stays.
Fail(p) ==
    /\ req[p] # Idle
    /\ Unlock(p)
    /\ req' = [req EXCEPT ![p] = Idle]
    /\ UNCHANGED <<runVars, signup, draft, slipped, issued>>

LoadStep(p) == \E r \in Runs :
    \/ \E chars \in SUBSET Characters : LoadSaveDraft(p, r, chars) \/ LoadUpdateRoster(p, r, chars)
    \/ LoadPublishRoster(p, r)
    \/ \E c \in Characters : \/ LoadAddPlayer(p, r, c) \/ LoadOffer(p, r, c)
                             \/ LoadWithdraw(p, r, c) \/ LoadWithdrawPicked(p, r, c)
                             \/ \E out \in Characters : BeginReplace(p, r, out, c)

LockStep(p) == \/ BeginRosterWrite(p) \/ CheckReservations(p)
               \/ \E c \in Characters : LockCharacter(p, c)

WriteStep(p) == \/ SaveDraft(p) \/ AddPlayer(p) \/ PublishRoster(p) \/ ReplaceParticipant(p)
                \/ ApplyOffer(p) \/ WithdrawOffer(p) \/ ClearNothing(p) \/ ClearDraftSelection(p)
                \/ WithdrawPicked(p)

RunStep(r) == \/ StartRun(r) \/ CompleteRun(r) \/ CancelRun(r) \/ ReactivateRun(r)
              \/ \E at \in Starts : RescheduleRun(r, at)

Next == \/ \E p \in Requests : LoadStep(p) \/ LockStep(p) \/ WriteStep(p) \/ Fail(p)
        \/ \E r \in Runs : RunStep(r)

Spec == Init /\ [][Next]_vars

-----------------------------------------------------------------------------
(* Properties. *)

\* Every variable keeps its type: the rows of the tables, the holders of the
\* locks and the requests in flight.
TypeOK == /\ status \in [Runs -> Statuses]
          /\ cancelledFrom \in [Runs -> Editable]
          /\ start \in [Runs -> Starts]
          /\ revised \in SUBSET Runs
          /\ signup \in [Runs -> [Characters -> SignupStatuses]]
          /\ draft \in [Runs -> SUBSET Characters]
          /\ attendance \in [Runs -> SUBSET Characters]
          /\ rosterLock \in [Runs -> Requests \cup {NoRequest}]
          /\ charLock \in [Characters -> Requests \cup {NoRequest}]
          /\ slipped \in SUBSET (Runs \X Characters)
          /\ req \in [Requests -> ReqRows \cup {Idle}]
          /\ issued \in 0 .. MaxRequests

Bookings == INSTANCE CharacterBookings WITH
    booked <- [c \in Characters |-> {r \in Runs : Reserves(r, c)}],
    slots <- {r \in Runs : status[r] \in Upcoming}

\* The rosters keep the promise of CharacterBookings: whatever requests of
\* several Raid Leads and players overlap, every step books a Character only
\* when no other Run that starts too close has it (or through an opening).
KeepsBookings == Bookings!Spec

\* No Character is booked on two Runs that start too close, unless one of them
\* was moved or reactivated, or the booking came back through a leftover slot.
NoDoubleBooking == Bookings!NoDoubleBooking

\* p cannot go on before q releases a lock.
WaitsFor(p, q) ==
    /\ req[p] # Idle
    /\ \/ /\ \/ At(p, RosterOps \cup {"withdrawPicked"}, "loaded")
             \/ At(p, {"withdrawOffer"}, "clearing")
             \/ At(p, {"replaceParticipant"}, "checked")
          /\ rosterLock[req[p].run] = q
       \/ /\ At(p, Ops, "locking")
          /\ \E c \in Unheld(p) : IsNextToLock(p, c) /\ charLock[c] = q

\* Requests never wait on each other in a circle, although a replacement takes
\* the Character lock before the roster row and every roster write after it:
\* roster writes refuse a started Run before they lock a Character.
NoWaitCycle ==
    \A waiting \in (SUBSET Requests) \ {{}} :
        \E p \in waiting : \A q \in waiting : ~WaitsFor(p, q)

\* A roster write replaces exactly the draft its Raid Lead saw: a slot that a
\* withdrawal or another Raid Lead changed in between refuses the write.
OverwritesWhatItSaw ==
    \A p \in Requests :
        At(p, RosterOps, "locking") \/ At(p, RosterOps, "checked") => draft[req[p].run] = req[p].seen

\* Start freezes the line-up: a player of a started Run leaves it only by being
\* replaced, or by a withdrawal that was planned while the player was not yet
\* selected and lands late.
StartedLineupStays ==
    [][\A r \in Runs, c \in Characters :
          status[r] = "IN_PROGRESS" /\ signup[r][c] = "SELECTED" /\ signup'[r][c] # "SELECTED" =>
              \E p \in Requests : \/ At(p, {"replaceParticipant"}, "checked") /\ c \in req[p].leave
                                  \/ At(p, {"withdrawOffer"}, "loaded") /\ c \in req[p].chars]_vars
=============================================================================
