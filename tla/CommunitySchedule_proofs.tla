---------------------- MODULE CommunitySchedule_proofs ----------------------
(***************************************************************************)
(* TLAPS proofs about CommunitySchedule: for any slots, Runs, requests and  *)
(* bounds, the schedule leaves no orphan Run and makes no second one for    *)
(* an occurrence, a pass leaves no gap, and a slot change takes no Run away *)
(* that somebody signed up for before it looked.                            *)
(***************************************************************************)
EXTENDS CommunitySchedule, TLAPS

\* The rows, as far as the arguments need their types: the bounds on windows and
\* on the changes of a slot are in CommunityScheduleBoard_proofs.
SlotShape == [there : BOOLEAN, isActive : BOOLEAN, time : Times, from : Nat, rev : Nat]
RunShape == [status : {"NONE", "OPEN", "CANCELLED"}, archived : BOOLEAN, used : BOOLEAN, start : Nat]
Listings == UNION {[S -> SlotShape] : S \in SUBSET Slots}
Orders == UNION {[S -> Times] : S \in SUBSET Slots}
PassShape == [op : {"pass"}, at : Nat, listed : Listings, todo : SUBSET Slots,
              failed : SUBSET Slots, plan : {None} \cup Plans(Nat)]
CreateShape == [op : {"createRun"}, plan : Plans(Nat)]
ChangeShape == [op : Changes, at : Nat, order : Orders, todo : SUBSET Slots, held : SUBSET Slots,
                new : SlotShape \cup {None}, retire : SUBSET Runs]
AttachShape == [op : {"attach"}, slot : Slots, row : SlotShape, run : Runs]
ReqShape == {Idle} \cup PassShape \cup CreateShape \cup ChangeShape \cup AttachShape

Shape == /\ now \in Nat
         /\ slot \in [Slots -> SlotShape]
         /\ run \in [Runs -> RunShape]
         /\ link \in [Runs -> LinkRows(Nat) \cup {None}]
         /\ slotLock \in [Slots -> Requests \cup {None}]
         /\ revived \subseteq Runs /\ late \subseteq Runs

\* A link belongs to a Run that exists, and points to the slot it was written
\* for, which is there, or to none.
LinkOK(r) ==
    link[r] # None =>
        /\ run[r].status # "NONE"
        /\ link[r].slot \in {link[r].of, None}
        /\ link[r].slot # None => slot[link[r].slot].there

\* A live Run that fulfils nothing any more was left by a slot that is deleted
\* for good, unless it was cancelled and came back.
FreedOK(r) ==
    /\ link[r] # None /\ link[r].slot = None
    /\ IsLive(r) /\ r \notin revived
    => ~slot[link[r].of].there /\ slot[link[r].of].rev > 0

Rows == /\ Shape
        /\ \A r \in Runs : LinkOK(r) /\ FreedOK(r)
        /\ OneRunPerOccurrence
        /\ NoOrphan

\* A change holds the locks of the slots it has looked at, an attachment the
\* lock of its slot.
Holds(p, s) == \/ req[p].op \in Changes /\ s \in req[p].held
               \/ req[p].op = "attach" /\ s = req[p].slot

\* What a change is about to retire is its own to retire, and unused unless the
\* signup came after it looked.
RetireOK(p) ==
    req[p].op \in Changes =>
        /\ req[p].at <= now
        /\ req[p].op = "updateSlot" => req[p].new \in SlotShape
        /\ \A r \in req[p].retire :
              /\ link[r] # None /\ link[r].slot \in req[p].held
              /\ link[r].origin = "MATERIALIZED"
              /\ run[r].used => r \in late

\* A Run that is an orphan once its slot has changed is among those to retire.
WouldBeOrphan(p, s, r) ==
    /\ link[r] # None /\ link[r].slot = s /\ link[r].origin = "MATERIALIZED"
    /\ IsLive(r) /\ ~run[r].used /\ run[r].start > now
    /\ r \notin revived
    /\ Affects(p, s, link[r].window)

CoversOrphans(p) ==
    req[p].op \in Changes =>
        \A s \in req[p].held, r \in Runs : WouldBeOrphan(p, s, r) => r \in req[p].retire

\* The slot an attachment has read is still what it read, or its own new one.
AttachOK(p) ==
    req[p].op = "attach" =>
        LET s == req[p].slot IN
        /\ req[p].row.there
        /\ run[req[p].run].status # "NONE"
        /\ \/ slot[s].there /\ slot[s] = req[p].row
           \/ ~slot[s].there /\ slot[s].rev = 0 /\ req[p].row.rev = 0

\* What a pass knows of its slots, plans, and has done.
ListedOK(p, s) ==
    LET row == req[p].listed[s] IN
    /\ row.there /\ row.isActive
    /\ slot[s].rev >= row.rev
    /\ slot[s].rev = row.rev => slot[s] = row

Covered(p, s) ==
    LET w == ReleasedWindow(req[p].at) IN
    slot[s] = req[p].listed[s] =>
        \/ Fulfilled(s, w)
        \/ w = WindowOf(req[p].at) /\ StartOf(slot[s].time, w) < req[p].at
        \/ IsBeforeScheduleStart(slot[s], w)

PassOK(p) ==
    req[p].op = "pass" =>
        /\ req[p].todo \subseteq DOMAIN req[p].listed
        /\ \A s \in DOMAIN req[p].listed : ListedOK(p, s)
        /\ req[p].plan # None =>
              LET s == req[p].plan.slot IN
              /\ s \in req[p].todo
              /\ req[p].plan.window = ReleasedWindow(req[p].at)
              /\ req[p].plan.time = req[p].listed[s].time
              /\ ~IsBeforeScheduleStart(req[p].listed[s], req[p].plan.window)
        /\ \A s \in DOMAIN req[p].listed \ (req[p].todo \cup req[p].failed) : Covered(p, s)

ReqOK(p) == /\ \A s \in Slots : Holds(p, s) => slotLock[s] = p
            /\ RetireOK(p) /\ CoversOrphans(p) /\ AttachOK(p) /\ PassOK(p)

IInv == /\ Rows
        /\ req \in [Requests -> ReqShape]
        /\ \A p \in Requests : ReqOK(p)

-----------------------------------------------------------------------------
(* Windows. *)

LEMMA DivFacts ==
    ASSUME NEW a \in Int, NEW b \in Nat \ {0}
    PROVE  /\ a \div b \in Int
           /\ (a \div b) * b <= a /\ a < (a \div b) * b + b
           /\ a \in Nat => a \div b \in Nat
  OBVIOUS

\* Products with the length of a window keep the order.
LEMMA WeeksInOrder ==
    ASSUME NEW i \in Int, NEW j \in Int, i < j
    PROVE  i * Week + Week <= j * Week /\ i * Week \in Int /\ j * Week \in Int
<1>1. Week \in Nat
  BY ScheduleAssumption
<1>2. PICK d \in Nat : j = i + 1 + d
  <2>1. j - i - 1 \in Nat /\ j = i + 1 + (j - i - 1)
    OBVIOUS
  <2> QED BY <2>1
<1>3. j * Week = i * Week + Week + d * Week
  BY <1>1, <1>2
<1>4. d * Week \in Nat
  BY <1>1
<1> QED BY <1>1, <1>3, <1>4

LEMMA WindowsAreNumbers ==
    ASSUME NEW t \in Nat
    PROVE  WindowOf(t) \in Nat /\ ReleasedWindow(t) \in {WindowOf(t), WindowOf(t) + 1}
  BY DivFacts, ScheduleAssumption DEF WindowOf, ReleasedWindow

LEMMA StartsAreNumbers ==
    ASSUME NEW time \in Times, NEW w \in Nat
    PROVE  StartOf(time, w) \in Nat
<1>1. time \in Nat /\ Week \in Nat
  BY ScheduleAssumption
<1> QED BY <1>1 DEF StartOf

\* The window that is released at t is the one the pass works on.
LEMMA ReleasedIsTheOne ==
    ASSUME NEW t \in Nat, NEW w \in Nat, IsReleased(w, t)
    PROVE  w = ReleasedWindow(t)
<1>1. /\ Week \in Nat \ {0} /\ Release \in Nat /\ 1 <= Release /\ Release <= Week - 1
  BY ScheduleAssumption
<1> DEFINE q == WindowOf(t)
           r == (t - Release) \div Week
<1>2. /\ q \in Nat /\ q * Week <= t /\ t < q * Week + Week
  BY <1>1, DivFacts DEF WindowOf
<1>3. /\ r \in Int /\ r * Week <= t - Release /\ t - Release < r * Week + Week
  BY <1>1, DivFacts
<1> HIDE DEF q, r
<1>4. w * Week - (Week - Release) <= t /\ t < w * Week + Release
  BY DEF IsReleased
<1>5. q * Week \in Int /\ r * Week \in Int /\ w * Week \in Int
  BY <1>1, <1>2, <1>3
<1>6. w = r + 1
  <2>1. ~(w < r + 1)
    <3> SUFFICES ASSUME w < r + 1 PROVE FALSE
      OBVIOUS
    <3>1. w = r \/ w < r
      BY <1>3
    <3>2. w * Week <= r * Week
      BY <1>1, <1>3, <1>5, <3>1, WeeksInOrder
    <3> QED BY <1>1, <1>3, <1>4, <1>5, <3>2
  <2>2. ~(r + 1 < w)
    <3> SUFFICES ASSUME r + 1 < w PROVE FALSE
      OBVIOUS
    <3>1. (r + 1) * Week = r * Week + Week
      BY <1>1, <1>3
    <3>2. r * Week + Week + Week <= w * Week
      BY <1>3, <3>1, WeeksInOrder
    <3> QED BY <1>1, <1>3, <1>4, <1>5, <3>2
  <2> QED BY <1>3, <2>1, <2>2
<1>7. w * Week = r * Week + Week
  BY <1>1, <1>3, <1>6
<1>8. ReleasedWindow(t) = IF r * Week + Release + (Week - Release) <= q * Week THEN q ELSE q + 1
  BY DEF ReleasedWindow, LastRelease, r, q
<1>9. r = q \/ r = q - 1
  <2>1. ~(q < r)
    <3> SUFFICES ASSUME q < r PROVE FALSE
      OBVIOUS
    <3>1. q * Week + Week <= r * Week
      BY <1>2, <1>3, WeeksInOrder
    <3> QED BY <1>1, <1>2, <1>3, <1>5, <3>1
  <2>2. ~(r + 1 < q)
    <3> SUFFICES ASSUME r + 1 < q PROVE FALSE
      OBVIOUS
    <3>1. (r + 1) * Week = r * Week + Week
      BY <1>1, <1>3
    <3>2. r * Week + Week + Week <= q * Week
      BY <1>2, <1>3, <3>1, WeeksInOrder
    <3> QED BY <1>1, <1>2, <1>3, <1>5, <3>2
  <2> QED BY <1>2, <1>3, <2>1, <2>2
<1>10. CASE r = q
  BY <1>1, <1>2, <1>5, <1>6, <1>8, <1>10
<1>11. CASE r = q - 1
  <2>1. r * Week + Week = q * Week
    BY <1>1, <1>2, <1>3, <1>11
  <2> QED BY <1>1, <1>2, <1>5, <1>6, <1>8, <1>11, <2>1
<1> QED BY <1>9, <1>10, <1>11

-----------------------------------------------------------------------------
(* Steps that change no row. *)

\* What the other requests know stays true while the rows stay.
LEMMA OthersKnow ==
    ASSUME NEW q \in Requests, ReqOK(q), UNCHANGED <<now, slot, run, link, revived, late>>,
           req'[q] = req[q], \A s \in Slots : slotLock[s] = q => slotLock'[s] = q
    PROVE  ReqOK(q)'
<1>1. \A s \in Slots : Holds(q, s)' => slotLock'[s] = q
  BY DEF ReqOK, Holds
<1>2. RetireOK(q)' /\ AttachOK(q)'
  BY DEF ReqOK, RetireOK, AttachOK
<1>3. CoversOrphans(q)'
  BY DEF ReqOK, CoversOrphans, WouldBeOrphan, Affects, IsLive
<1>4. PassOK(q)'
  BY DEF ReqOK, PassOK, ListedOK, Covered, Fulfilled, Fulfils
<1> QED BY <1>1, <1>2, <1>3, <1>4 DEF ReqOK

LEMMA RowsStay ==
    ASSUME Rows, UNCHANGED <<now, slot, run, link, revived, late>>,
           slotLock' \in [Slots -> Requests \cup {None}]
    PROVE  Rows'
  BY DEF Rows, Shape, LinkOK, FreedOK, IsLive, OneRunPerOccurrence, NoOrphan

LEMMA QuietKeepsIInv ==
    ASSUME IInv, NEW p \in Requests, UNCHANGED <<now, slot, run, link, revived, late>>,
           req' \in [Requests -> ReqShape], \A q \in Requests \ {p} : req'[q] = req[q],
           slotLock' \in [Slots -> Requests \cup {None}],
           \A s \in Slots, q \in Requests \ {p} : slotLock[s] = q => slotLock'[s] = q,
           ReqOK(p)'
    PROVE  IInv'
<1>1. Rows'
  BY RowsStay DEF IInv
<1>2. ASSUME NEW q \in Requests PROVE ReqOK(q)'
  BY <1>2, OthersKnow DEF IInv
<1> QED BY <1>1, <1>2 DEF IInv

\* One request changes and takes no lock.
LEMMA RequestAloneKeepsIInv ==
    ASSUME IInv, NEW p \in Requests, NEW x \in ReqShape, req' = [req EXCEPT ![p] = x],
           UNCHANGED <<now, slot, run, link, revived, late, slotLock>>, ReqOK(p)'
    PROVE  IInv'
<1>1. req' \in [Requests -> ReqShape] /\ \A q \in Requests \ {p} : req'[q] = req[q]
  BY DEF IInv
<1>2. slotLock' \in [Slots -> Requests \cup {None}]
  BY DEF IInv, Rows, Shape
<1> QED BY <1>1, <1>2, QuietKeepsIInv

\* The kinds of requests are told apart by what they do.
LEMMA Kinds ==
    ASSUME IInv, NEW p \in Requests
    PROVE  /\ req[p].op = "pass" => req[p] \in PassShape
           /\ req[p].op = "createRun" => req[p] \in CreateShape
           /\ req[p].op \in Changes => req[p] \in ChangeShape
           /\ req[p].op = "attach" => req[p] \in AttachShape
           /\ "pass" \notin Changes /\ "createRun" \notin Changes /\ "attach" \notin Changes
           /\ "idle" \notin Changes
<1>1. req[p] \in ReqShape
  BY DEF IInv
<1>2. "pass" \notin Changes /\ "createRun" \notin Changes /\ "attach" \notin Changes
      /\ "idle" \notin Changes
  BY DEF Changes
<1> QED BY <1>1, <1>2 DEF ReqShape, Idle, PassShape, CreateShape, ChangeShape, AttachShape

LEMMA IdleIsOK ==
    ASSUME NEW p \in Requests, req'[p] = Idle
    PROVE  ReqOK(p)'
<1>1. Idle.op = "idle" /\ "idle" \notin Changes
  BY DEF Idle, Changes
<1> QED BY <1>1 DEF ReqOK, Holds, RetireOK, CoversOrphans, AttachOK, PassOK

\* A request ends, by itself, by an error or by a crash, and its locks go.
LEMMA EndKeepsIInv ==
    ASSUME IInv, NEW p \in Requests, req' = [req EXCEPT ![p] = Idle],
           UNCHANGED <<now, slot, run, link, revived, late>>, Unlock(p) \/ UNCHANGED slotLock
    PROVE  IInv'
<1>1. req' \in [Requests -> ReqShape] /\ (\A q \in Requests \ {p} : req'[q] = req[q])
      /\ req'[p] = Idle
  BY DEF IInv, ReqShape
<1>2. slotLock' \in [Slots -> Requests \cup {None}]
  BY DEF IInv, Rows, Shape, Unlock
<1>3. \A s \in Slots, q \in Requests \ {p} : slotLock[s] = q => slotLock'[s] = q
  BY DEF Unlock
<1> QED BY <1>1, <1>2, <1>3, IdleIsOK, QuietKeepsIInv

LEMMA SomeListing ==
    ASSUME Shape, NEW S \in SUBSET Slots
    PROVE  [s \in S |-> slot[s]] \in Listings /\ [s \in S |-> slot[s].time] \in Orders
<1>1. [s \in S |-> slot[s]] \in [S -> SlotShape]
  BY DEF Shape
<1>2. [s \in S |-> slot[s].time] \in [S -> Times]
  BY DEF Shape, SlotShape
<1> QED BY <1>1, <1>2 DEF Listings, Orders

LEMMA ListedShape ==
    ASSUME NEW l \in Listings
    PROVE  DOMAIN l \subseteq Slots /\ \A s \in DOMAIN l : l[s] \in SlotShape
  BY DEF Listings

-----------------------------------------------------------------------------
(* The release pass and Create Run. *)

LEMMA StartPassKeepsIInv ==
    ASSUME IInv, NEW p \in Requests, StartPass(p)
    PROVE  IInv'
<1> DEFINE due == {s \in Slots : slot[s].there /\ slot[s].isActive}
           x == [op |-> "pass", at |-> now, listed |-> [s \in due |-> slot[s]], todo |-> due,
                 failed |-> {}, plan |-> None]
<1>1. req' = [req EXCEPT ![p] = x]
  BY DEF StartPass, Begin
<1>2. x.listed \in Listings
  BY SomeListing DEF IInv, Rows
<1>3. x \in ReqShape
  BY <1>2 DEF ReqShape, PassShape, IInv, Rows, Shape
<1>4. req'[p] = x
  BY <1>1 DEF IInv
<1>5. UNCHANGED <<now, slot, run, link, revived, late, slotLock>>
  BY DEF StartPass, rows
<1>6. ReqOK(p)'
  <2>1. /\ x.op = "pass" /\ x.todo = due /\ x.plan = None /\ DOMAIN x.listed = due
        /\ \A s \in due : x.listed[s] = slot[s]
    OBVIOUS
  <2> HIDE DEF x
  <2>2. "pass" \notin Changes /\ "pass" # "attach"
    BY DEF Changes
  <2>3. \A s \in due : ListedOK(p, s)'
    BY <1>4, <1>5, <2>1 DEF ListedOK, IInv, Rows, Shape, SlotShape
  <2>4. PassOK(p)'
    BY <1>4, <2>1, <2>3 DEF PassOK
  <2> QED BY <1>4, <2>1, <2>2, <2>4 DEF ReqOK, Holds, RetireOK, CoversOrphans, AttachOK
<1> QED BY <1>1, <1>3, <1>5, <1>6, RequestAloneKeepsIInv

\* A pass that goes on: its listing stays, and every slot it drops without an
\* error is covered.
LEMMA PassGoesOn ==
    ASSUME IInv, NEW p \in Requests, req[p].op = "pass",
           UNCHANGED <<now, slot, run, link, revived, late, slotLock>>,
           NEW x \in PassShape, req' = [req EXCEPT ![p] = x],
           x.listed = req[p].listed, x.at = req[p].at,
           x.todo \subseteq req[p].todo, req[p].failed \subseteq x.failed,
           x.plan # None => /\ x.plan.slot \in x.todo
                            /\ x.plan.window = ReleasedWindow(x.at)
                            /\ x.plan.time = x.listed[x.plan.slot].time
                            /\ ~IsBeforeScheduleStart(x.listed[x.plan.slot], x.plan.window),
           \A s \in req[p].todo \ (x.todo \cup x.failed) : Covered(p, s)
    PROVE  IInv'
<1>1. req'[p] = x /\ x \in ReqShape
  BY DEF IInv, ReqShape
<1>2. x.op = "pass" /\ "pass" \notin Changes /\ "pass" # "attach"
  BY DEF PassShape, Changes
<1>3. PassOK(p)
  BY DEF IInv, ReqOK
<1>4. PassOK(p)'
  <2>1. x.todo \subseteq DOMAIN x.listed /\ \A s \in DOMAIN x.listed : ListedOK(p, s)'
    BY <1>1, <1>2, <1>3 DEF PassOK, ListedOK
  <2>2. \A s \in DOMAIN x.listed \ (x.todo \cup x.failed) : Covered(p, s)
    BY <1>3 DEF PassOK
  <2>3. ASSUME NEW s, Covered(p, s) PROVE Covered(p, s)'
    BY <1>1, <2>3 DEF Covered, Fulfilled, Fulfils
  <2> QED BY <1>1, <1>2, <2>1, <2>2, <2>3 DEF PassOK
<1>5. ReqOK(p)'
  BY <1>1, <1>2, <1>4 DEF ReqOK, Holds, RetireOK, CoversOrphans, AttachOK
<1> QED BY <1>1, <1>5, RequestAloneKeepsIInv

LEMMA PassStepsKeepIInv ==
    ASSUME IInv, NEW p \in Requests, NEW s \in Slots, PassSkips(p, s) \/ PassPlans(p, s)
    PROVE  IInv'
<1>1. /\ req[p].op = "pass" /\ req[p].plan = None /\ s \in req[p].todo
  BY DEF PassSkips, PassPlans, NextInPass
<1>2. req[p] \in PassShape
  BY <1>1, Kinds
<1>3. UNCHANGED <<now, slot, run, link, revived, late, slotLock>>
  BY DEF PassSkips, PassPlans, rows
<1>4. s \in DOMAIN req[p].listed
  BY <1>1 DEF IInv, ReqOK, PassOK
<1>5. CASE PassSkips(p, s)
  <2> DEFINE x == [req[p] EXCEPT !.todo = @ \ {s}]
  <2>1. req' = [req EXCEPT ![p] = x]
    BY <1>5 DEF PassSkips
  <2>2. /\ x \in PassShape /\ x.listed = req[p].listed /\ x.at = req[p].at /\ x.plan = None
        /\ x.todo = req[p].todo \ {s} /\ x.failed = req[p].failed
    BY <1>1, <1>2 DEF PassShape
  <2>3. Covered(p, s)
    BY <1>5 DEF PassSkips, NothingToCreate, Covered, IsBeforeScheduleStart
  <2> HIDE DEF x
  <2> QED BY <1>1, <1>3, <2>1, <2>2, <2>3, PassGoesOn
<1>6. CASE PassPlans(p, s)
  <2> DEFINE w == ReleasedWindow(req[p].at)
             plan == [slot |-> s, window |-> w, time |-> req[p].listed[s].time]
             x == [req[p] EXCEPT !.plan = plan]
  <2>1. req' = [req EXCEPT ![p] = x] /\ ~IsBeforeScheduleStart(req[p].listed[s], w)
    BY <1>6 DEF PassPlans, NothingToCreate
  <2>2. req[p].at \in Nat /\ req[p].listed \in Listings
    BY <1>2 DEF PassShape
  <2>3. plan \in Plans(Nat)
    BY <1>4, <2>2, ListedShape, WindowsAreNumbers DEF Plans, SlotShape
  <2>4. /\ x \in PassShape /\ x.listed = req[p].listed /\ x.at = req[p].at /\ x.plan = plan
        /\ x.todo = req[p].todo /\ x.failed = req[p].failed
    BY <1>2, <2>3 DEF PassShape
  <2>5. plan.slot = s /\ plan.window = w /\ plan.time = req[p].listed[s].time
    OBVIOUS
  <2> HIDE DEF x, plan
  <2> QED BY <1>1, <1>3, <2>1, <2>4, <2>5, PassGoesOn
<1> QED BY <1>5, <1>6

LEMMA LoadCreateRunKeepsIInv ==
    ASSUME IInv, NEW p \in Requests, NEW s \in Slots, NEW w \in Windows, LoadCreateRun(p, s, w)
    PROVE  IInv'
<1> DEFINE x == [op |-> "createRun", plan |-> [slot |-> s, window |-> w, time |-> slot[s].time]]
<1>1. req' = [req EXCEPT ![p] = x]
  BY DEF LoadCreateRun, Begin
<1>2. UNCHANGED <<now, slot, run, link, revived, late, slotLock>>
  BY DEF LoadCreateRun, rows
<1>3. w \in Nat
  BY DEF Windows
<1>4. x \in ReqShape
  BY <1>3 DEF ReqShape, CreateShape, Plans, IInv, Rows, Shape, SlotShape
<1>5. req'[p] = x
  BY <1>1 DEF IInv
<1>6. ReqOK(p)'
  BY <1>5 DEF ReqOK, Holds, RetireOK, CoversOrphans, AttachOK, PassOK, Changes
<1> QED BY <1>1, <1>2, <1>4, <1>6, RequestAloneKeepsIInv

\* The outcome of a creation for the request: Create Run ends, the pass drops
\* the slot.
LEMMA CreatedRequest ==
    ASSUME IInv, NEW p \in Requests, Creating(p), NEW failed \in SUBSET Slots,
           req' = Created(p, failed)
    PROVE  /\ req[p].plan \in Plans(Nat)
           /\ req' \in [Requests -> ReqShape] /\ \A q \in Requests \ {p} : req'[q] = req[q]
           /\ req[p].op = "createRun" => req' = [req EXCEPT ![p] = Idle]
           /\ req[p].op = "pass" =>
                 \E x \in PassShape : /\ req' = [req EXCEPT ![p] = x] /\ req'[p] = x
                                      /\ x.listed = req[p].listed /\ x.at = req[p].at
                                      /\ x.todo = req[p].todo \ {req[p].plan.slot}
                                      /\ x.plan = None /\ x.failed = req[p].failed \cup failed
<1>1. req[p].op \in {"pass", "createRun"} /\ req[p].plan # None
  BY DEF Creating
<1>2. req[p].plan \in Plans(Nat)
  BY <1>1, Kinds DEF PassShape, CreateShape
<1> DEFINE x == [req[p] EXCEPT !.todo = @ \ {req[p].plan.slot}, !.plan = None,
                               !.failed = @ \cup failed]
<1>3. CASE req[p].op = "createRun"
  <2>1. req' = [req EXCEPT ![p] = Idle]
    BY <1>3 DEF Created
  <2> QED BY <1>2, <1>3, <2>1 DEF IInv, ReqShape
<1>4. CASE req[p].op = "pass"
  <2>1. req' = [req EXCEPT ![p] = x]
    BY <1>4 DEF Created
  <2>2. req[p] \in PassShape
    BY <1>4, Kinds
  <2>3. /\ x \in PassShape /\ x.listed = req[p].listed /\ x.at = req[p].at
        /\ x.todo = req[p].todo \ {req[p].plan.slot}
        /\ x.plan = None /\ x.failed = req[p].failed \cup failed
    BY <2>2 DEF PassShape
  <2> HIDE DEF x
  <2>4. x \in ReqShape /\ req'[p] = x
    BY <2>1, <2>3 DEF ReqShape, IInv
  <2>5. req' \in [Requests -> ReqShape] /\ \A q \in Requests \ {p} : req'[q] = req[q]
    BY <2>1, <2>4 DEF IInv
  <2> QED BY <1>2, <1>4, <2>1, <2>3, <2>4, <2>5
<1> QED BY <1>1, <1>3, <1>4

LEMMA CreateEndsKeepIInv ==
    ASSUME IInv, NEW p \in Requests, CreateIsRefused(p) \/ CreateFails(p)
    PROVE  IInv'
<1>1. Creating(p) /\ UNCHANGED <<now, slot, run, link, revived, late, slotLock>>
  BY DEF CreateIsRefused, CreateFails, rows
<1>2. PICK failed \in SUBSET Slots :
          /\ req' = Created(p, failed)
          /\ req[p].plan.slot \in failed \/ ~SlotStillHas(req[p].plan)
             \/ Fulfilled(req[p].plan.slot, req[p].plan.window)
  <2>1. req[p].plan.slot \in Slots
    BY <1>1, Kinds DEF Creating, PassShape, CreateShape, Plans
  <2>2. {req[p].plan.slot} \in SUBSET Slots /\ {} \in SUBSET Slots
    BY <2>1
  <2> QED BY <2>2 DEF CreateIsRefused, CreateFails
<1>3. CASE req[p].op = "createRun"
  BY <1>1, <1>2, <1>3, CreatedRequest, EndKeepsIInv
<1>4. CASE req[p].op = "pass"
  <2>1. PICK x \in PassShape : /\ req' = [req EXCEPT ![p] = x]
                               /\ x.listed = req[p].listed /\ x.at = req[p].at
                               /\ x.todo = req[p].todo \ {req[p].plan.slot}
                               /\ x.plan = None /\ x.failed = req[p].failed \cup failed
    BY <1>1, <1>2, <1>4, CreatedRequest
  <2> DEFINE s == req[p].plan.slot
  <2>2. /\ s \in req[p].todo /\ s \in DOMAIN req[p].listed
        /\ req[p].plan.window = ReleasedWindow(req[p].at)
        /\ req[p].plan.time = req[p].listed[s].time
        /\ ~IsBeforeScheduleStart(req[p].listed[s], req[p].plan.window)
        /\ req[p].listed[s].there /\ req[p].listed[s].isActive
    BY <1>1, <1>4 DEF Creating, IInv, ReqOK, PassOK, ListedOK
  <2>3. s \in failed \/ Covered(p, s)
    BY <1>2, <2>2 DEF SlotStillHas, Covered
  <2> QED BY <1>1, <1>4, <2>1, <2>3, PassGoesOn
<1> QED BY <1>1, <1>3, <1>4 DEF Creating

-----------------------------------------------------------------------------
(* Changes and attachments up to their commits. *)

\* What the two larger steps of a change do to the request and the rows.
LEMMA UpdateSlotBegins ==
    ASSUME NEW p \in Requests, NEW s \in Slots, NEW time \in Times, NEW from \in Windows,
           LoadUpdateSlot(p, s, time, from)
    PROVE  BeginChange(p, "updateSlot", {s}, [slot[s] EXCEPT !.time = time, !.from = from])
BY DEF LoadUpdateSlot

LEMMA CommitWrites ==
    ASSUME NEW p \in Requests, CommitChange(p)
    PROVE  /\ req[p].op \in Changes /\ req' = [req EXCEPT ![p] = Idle]
           /\ slot' = [s \in Slots |-> IF s \in req[p].held THEN ChangedSlot(p, s) ELSE slot[s]]
           /\ run' = [r \in Runs |-> IF r \in req[p].retire
                                     THEN [run[r] EXCEPT !.status = "CANCELLED", !.archived = TRUE]
                                     ELSE run[r]]
           /\ link' = [r \in Runs |-> FreedLink(p, r)]
           /\ UNCHANGED <<now, jobLock, changes>>
BY DEF CommitChange

LEMMA BeginChangeKeepsIInv ==
    ASSUME IInv, NEW p \in Requests, NEW op \in Changes, NEW S \in SUBSET Slots,
           NEW new \in SlotShape \cup {None}, op = "updateSlot" => new \in SlotShape,
           BeginChange(p, op, S, new)
    PROVE  IInv'
<1> DEFINE x == [op |-> op, at |-> now, order |-> [s \in S |-> slot[s].time], todo |-> S,
                 held |-> {}, new |-> new, retire |-> {}]
<1>1. req' = [req EXCEPT ![p] = x]
  BY DEF BeginChange, Begin
<1>2. UNCHANGED <<now, slot, run, link, revived, late, slotLock>>
  BY DEF BeginChange, rows
<1>3. Shape
  BY DEF IInv, Rows
<1>4. x \in ReqShape
  <2>1. x.order \in Orders /\ now \in Nat
    BY <1>3, SomeListing DEF Shape
  <2> QED BY <2>1 DEF ReqShape, ChangeShape
<1>5. req'[p] = x
  BY <1>1 DEF IInv
<1>6. ReqOK(p)'
  <2>1. /\ x.op = op /\ x.at = now /\ x.held = {} /\ x.new = new /\ x.retire = {}
        /\ op # "pass" /\ op # "attach"
    BY DEF Changes
  <2> HIDE DEF x
  <2>2. RetireOK(p)' /\ CoversOrphans(p)'
    BY <1>2, <1>3, <1>5, <2>1 DEF RetireOK, CoversOrphans, Shape
  <2>3. AttachOK(p)' /\ PassOK(p)' /\ \A s \in Slots : ~Holds(p, s)'
    BY <1>5, <2>1 DEF AttachOK, PassOK, Holds
  <2> QED BY <2>2, <2>3 DEF ReqOK
<1> QED BY <1>1, <1>2, <1>4, <1>6, RequestAloneKeepsIInv

LEMMA LoadsKeepIInv ==
    ASSUME IInv, NEW p \in Requests,
           \/ LoadDeleteRunSetup(p)
           \/ \E s \in Slots : \/ LoadDeactivateSlot(p, s) \/ LoadDeleteSlot(p, s)
                               \/ \E time \in Times, from \in Windows : LoadUpdateSlot(p, s, time, from)
    PROVE  IInv'
<1>1. {"updateSlot", "deactivateSlot", "deleteSlot", "deleteRunSetup"} \subseteq Changes
  BY DEF Changes
<1>2. CASE LoadDeleteRunSetup(p)
  <2> DEFINE S == {s \in Slots : slot[s].there}
  <2>1. BeginChange(p, "deleteRunSetup", S, None)
    BY <1>2 DEF LoadDeleteRunSetup
  <2> QED BY <1>1, <2>1, BeginChangeKeepsIInv
<1>3. ASSUME NEW s \in Slots, LoadDeactivateSlot(p, s) \/ LoadDeleteSlot(p, s) PROVE IInv'
  <2>1. {s} \in SUBSET Slots
    OBVIOUS
  <2>2. \E op \in {"deactivateSlot", "deleteSlot"} : BeginChange(p, op, {s}, None)
    BY <1>3 DEF LoadDeactivateSlot, LoadDeleteSlot
  <2> QED BY <1>1, <2>1, <2>2, BeginChangeKeepsIInv
<1>4. ASSUME NEW s \in Slots, NEW time \in Times, NEW from \in Windows, LoadUpdateSlot(p, s, time, from)
      PROVE  IInv'
  <2> DEFINE new == [slot[s] EXCEPT !.time = time, !.from = from]
  <2>1. new \in SlotShape
    <3>1. from \in Nat
      BY DEF Windows
    <3>2. slot[s] \in SlotShape
      BY DEF IInv, Rows, Shape
    <3> QED BY <3>1, <3>2 DEF SlotShape
  <2>2. BeginChange(p, "updateSlot", {s}, new) /\ {s} \in SUBSET Slots
    BY <1>4 DEF LoadUpdateSlot
  <2> HIDE DEF new
  <2> QED BY <1>1, <2>1, <2>2, BeginChangeKeepsIInv
<1> QED BY <1>2, <1>3, <1>4

LEMMA LockSlotKeepsIInv ==
    ASSUME IInv, NEW p \in Requests, NEW s \in Slots, LockSlot(p, s)
    PROVE  IInv'
<1> DEFINE owned == {r \in Runs : link[r] # None /\ link[r].slot = s}
           retire == {r \in owned : Affects(p, s, link[r].window) /\ MayRetire(r, req[p].at)}
           x == [req[p] EXCEPT !.todo = @ \ {s}, !.held = @ \cup {s}, !.retire = @ \cup retire]
<1>1. /\ req[p].op \in Changes /\ slotLock[s] = None /\ slotLock' = [slotLock EXCEPT ![s] = p]
      /\ req' = [req EXCEPT ![p] = x]
      /\ UNCHANGED <<now, slot, run, link, revived, late>>
  BY DEF LockSlot, SlotFree, rows
<1>2. req[p] \in ChangeShape
  BY <1>1, Kinds
<1>3. /\ x \in ChangeShape /\ x.op = req[p].op /\ x.at = req[p].at /\ x.new = req[p].new
      /\ x.held = req[p].held \cup {s} /\ x.retire = req[p].retire \cup retire
  BY <1>2 DEF ChangeShape
<1>4. /\ \A r \in retire : /\ r \in Runs /\ link[r] # None /\ link[r].slot = s
                           /\ link[r].origin = "MATERIALIZED" /\ ~run[r].used
      /\ \A r \in Runs : /\ link[r] # None /\ link[r].slot = s /\ Affects(p, s, link[r].window)
                         /\ MayRetire(r, req[p].at)
                         => r \in retire
  BY DEF MayRetire
<1> HIDE DEF x, retire, owned
<1>5. req'[p] = x /\ x \in ReqShape
  BY <1>1, <1>3 DEF IInv, ReqShape
<1>6. /\ req' \in [Requests -> ReqShape] /\ \A q \in Requests \ {p} : req'[q] = req[q]
  BY <1>1, <1>5 DEF IInv
<1>7. /\ slotLock' \in [Slots -> Requests \cup {None}]
      /\ slotLock'[s] = p /\ \A u \in Slots \ {s} : slotLock'[u] = slotLock[u]
  BY <1>1 DEF IInv, Rows, Shape
<1>8. \A u \in Slots, q \in Requests \ {p} : slotLock[u] = q => slotLock'[u] = q
  BY <1>1, <1>7, NoneAssumption
<1>9. x.op # "pass" /\ x.op # "attach" /\ ReqOK(p)
  BY <1>1, <1>3 DEF Changes, IInv
<1>10. ReqOK(p)'
  <2>1. \A u \in Slots : Holds(p, u)' => slotLock'[u] = p
    BY <1>1, <1>3, <1>5, <1>7, <1>9 DEF ReqOK, Holds
  <2>2. RetireOK(p)'
    <3>1. RetireOK(p)
      BY <1>9 DEF ReqOK
    <3>2. \A r \in x.retire : /\ link[r] # None /\ link[r].slot \in x.held
                              /\ link[r].origin = "MATERIALIZED"
                              /\ run[r].used => r \in late
      BY <1>1, <1>3, <1>4, <3>1 DEF RetireOK
    <3> QED BY <1>1, <1>3, <1>5, <3>1, <3>2 DEF RetireOK
  <2>3. CoversOrphans(p)'
    <3>1. ASSUME NEW u \in Slots, NEW r \in Runs, u \in x.held, WouldBeOrphan(p, u, r)
          PROVE  r \in x.retire
      <4>1. CASE u \in req[p].held
        BY <1>1, <1>3, <1>9, <3>1, <4>1 DEF ReqOK, CoversOrphans
      <4>2. CASE u = s
        <5>1. req[p].at <= now /\ req[p].at \in Nat /\ now \in Nat /\ run[r].start \in Nat
          BY <1>1, <1>2, <1>9 DEF ReqOK, RetireOK, ChangeShape, IInv, Rows, Shape, RunShape
        <5>2. MayRetire(r, req[p].at)
          BY <3>1, <4>2, <5>1 DEF WouldBeOrphan, MayRetire
        <5> QED BY <1>3, <1>4, <3>1, <4>2, <5>2 DEF WouldBeOrphan
      <4> QED BY <1>3, <3>1, <4>1, <4>2
    <3>2. \A u, r : WouldBeOrphan(p, u, r)' => WouldBeOrphan(p, u, r)
      BY <1>1, <1>3, <1>5 DEF WouldBeOrphan, Affects, IsLive
    <3>3. x.held \subseteq Slots
      BY <1>3 DEF ChangeShape
    <3> QED BY <1>5, <3>1, <3>2, <3>3 DEF CoversOrphans
  <2> QED BY <1>5, <1>9, <2>1, <2>2, <2>3 DEF ReqOK, AttachOK, PassOK
<1> QED BY <1>1, <1>6, <1>7, <1>8, <1>10, QuietKeepsIInv

LEMMA AttachBeginsKeepIInv ==
    ASSUME IInv, NEW p \in Requests, NEW s \in Slots, NEW r \in Runs,
           NEW row \in SlotShape, row.there, IsLive(r),
           slot[s] = row \/ (~slot[s].there /\ slot[s].rev = 0 /\ row.rev = 0),
           SlotFree(s), Begin(p, [op |-> "attach", slot |-> s, row |-> row, run |-> r]),
           slotLock' = [slotLock EXCEPT ![s] = p],
           UNCHANGED <<now, slot, run, link, revived, late>>
    PROVE  IInv'
<1> DEFINE x == [op |-> "attach", slot |-> s, row |-> row, run |-> r]
<1>1. req' = [req EXCEPT ![p] = x] /\ x \in ReqShape
  BY DEF Begin, ReqShape, AttachShape
<1>2. x.op = "attach" /\ x.slot = s /\ x.row = row /\ x.run = r /\ "attach" \notin Changes
  BY DEF Changes
<1> HIDE DEF x
<1>3. /\ req' \in [Requests -> ReqShape] /\ (\A q \in Requests \ {p} : req'[q] = req[q])
      /\ req'[p] = x
  BY <1>1 DEF IInv
<1>4. /\ slotLock' \in [Slots -> Requests \cup {None}] /\ slotLock'[s] = p
      /\ \A u \in Slots, q \in Requests \ {p} : slotLock[u] = q => slotLock'[u] = q
  BY NoneAssumption DEF IInv, Rows, Shape, SlotFree
<1>5. AttachOK(p)'
  BY <1>2, <1>3 DEF AttachOK, IsLive
<1>6. ReqOK(p)'
  BY <1>2, <1>3, <1>4, <1>5 DEF ReqOK, Holds, RetireOK, CoversOrphans, PassOK
<1> QED BY <1>3, <1>4, <1>6, QuietKeepsIInv

LEMMA AttachLoadsKeepIInv ==
    ASSUME IInv, NEW p \in Requests, NEW s \in Slots, NEW r \in Runs,
           \/ AttachReads(p, s, r)
           \/ \E time \in Times, from \in Windows : CreateSlotReads(p, s, r, time, from)
    PROVE  IInv'
<1>1. CASE AttachReads(p, s, r)
  <2>1. PICK row \in SlotShape : row = slot[s]
    BY DEF IInv, Rows, Shape
  <2>2. /\ slot[s] = row /\ row.there /\ IsLive(r) /\ SlotFree(s)
        /\ Begin(p, [op |-> "attach", slot |-> s, row |-> row, run |-> r])
        /\ slotLock' = [slotLock EXCEPT ![s] = p]
        /\ UNCHANGED <<now, slot, run, link, revived, late>>
    BY <1>1, <2>1 DEF AttachReads, Attachable, rows
  <2> QED BY <2>1, <2>2, AttachBeginsKeepIInv
<1>2. ASSUME NEW time \in Times, NEW from \in Windows, CreateSlotReads(p, s, r, time, from)
      PROVE  IInv'
  <2> DEFINE row == [there |-> TRUE, isActive |-> TRUE, time |-> time, from |-> from, rev |-> 0]
  <2>1. row \in SlotShape /\ row.there /\ row.rev = 0
    <3>1. from \in Nat
      BY DEF Windows
    <3> QED BY <3>1 DEF SlotShape
  <2>2. /\ Attachable(row, s, r) /\ SlotFree(s) /\ ~slot[s].there /\ slot[s].rev = 0
        /\ Begin(p, [op |-> "attach", slot |-> s, row |-> row, run |-> r])
        /\ slotLock' = [slotLock EXCEPT ![s] = p]
        /\ UNCHANGED <<now, slot, run, link, revived, late>>
    BY <1>2 DEF CreateSlotReads, rows
  <2> HIDE DEF row
  <2> QED BY <2>1, <2>2, AttachBeginsKeepIInv DEF Attachable
<1> QED BY <1>1, <1>2

-----------------------------------------------------------------------------
(* The Runs and the clock. *)

\* Runs are used, end, or come back; time passes.
LEMMA RunsChangeKeepsIInv ==
    ASSUME IInv, UNCHANGED <<slot, link, slotLock, req>>,
           now' \in Nat, now <= now', run' \in [Runs -> RunShape],
           revived \subseteq revived', revived' \subseteq Runs,
           late \subseteq late', late' \subseteq Runs,
           \A r \in Runs : /\ run[r].status # "NONE" => run'[r].status # "NONE"
                           /\ run'[r].start = run[r].start
                           /\ run[r].used => run'[r].used
                           /\ r \notin revived' /\ IsLive(r)' => IsLive(r)
                           /\ run'[r].used => \/ run[r].used \/ r \in late' \/ RosterFree(r)
    PROVE  IInv'
<1>1. /\ Shape /\ now \in Nat /\ \A r \in Runs : LinkOK(r) /\ FreedOK(r) /\ run[r].start \in Nat
  BY DEF IInv, Rows, Shape, RunShape
<1>2. Shape'
  BY <1>1 DEF Shape
<1>3. \A r \in Runs : LinkOK(r)' /\ FreedOK(r)'
  BY <1>1 DEF LinkOK, FreedOK
<1>4. OneRunPerOccurrence'
  BY DEF IInv, Rows, OneRunPerOccurrence
<1>5. NoOrphan'
  <2>1. \A r \in Runs : run'[r].start > now' => run[r].start > now
    BY <1>1
  <2> QED BY <2>1 DEF IInv, Rows, NoOrphan
<1>6. ASSUME NEW p \in Requests PROVE ReqOK(p)'
  <2>1. ReqOK(p)
    BY DEF IInv
  <2>2. RetireOK(p)'
    <3> SUFFICES ASSUME req[p].op \in Changes PROVE RetireOK(p)'
      BY DEF RetireOK
    <3>1. req[p] \in ChangeShape
      BY Kinds
    <3>2. req[p].at \in Nat /\ req[p].retire \subseteq Runs /\ RetireOK(p)
      BY <2>1, <3>1 DEF ChangeShape, ReqOK
    <3>3. req[p].at <= now'
      BY <1>1, <3>2 DEF RetireOK
    <3>4. \A r \in req[p].retire : ~RosterFree(r)
      BY DEF RosterFree
    <3>5. \A r \in req[p].retire : run'[r].used => r \in late'
      BY <3>2, <3>4 DEF RetireOK
    <3> QED BY <3>2, <3>3, <3>5 DEF RetireOK
  <2>3. CoversOrphans(p)'
    <3>1. \A s \in Slots, r \in Runs : WouldBeOrphan(p, s, r)' => WouldBeOrphan(p, s, r)
      <4>1. \A r \in Runs : run'[r].start > now' => run[r].start > now
        BY <1>1
      <4> QED BY <4>1 DEF WouldBeOrphan, Affects
    <3>2. req[p].op \in Changes => req[p].held \subseteq Slots
      BY Kinds DEF ChangeShape
    <3> QED BY <2>1, <3>1, <3>2 DEF ReqOK, CoversOrphans
  <2>4. AttachOK(p)'
    <3>1. req[p].op = "attach" => req[p].run \in Runs
      BY Kinds DEF AttachShape
    <3> QED BY <2>1, <3>1 DEF ReqOK, AttachOK
  <2>5. PassOK(p)'
    BY <2>1 DEF ReqOK, PassOK, ListedOK, Covered, Fulfilled, Fulfils
  <2> QED BY <2>1, <2>2, <2>3, <2>4, <2>5 DEF ReqOK, Holds
<1> QED BY <1>2, <1>3, <1>4, <1>5, <1>6 DEF IInv, Rows

LEMMA RunStepsKeepIInv ==
    ASSUME IInv, Tick \/ \E r \in Runs : SignUp(r) \/ CancelRun(r) \/ ReactivateRun(r)
    PROVE  IInv'
<1>1. /\ now \in Nat /\ run \in [Runs -> RunShape] /\ revived \subseteq Runs /\ late \subseteq Runs
  BY DEF IInv, Rows, Shape
<1>2. CASE Tick
  <2>1. UNCHANGED <<slot, link, slotLock, req, run, revived, late>>
    BY <1>2 DEF Tick, rows
  <2>2. now' \in Nat /\ now <= now'
    BY <1>1, <1>2 DEF Tick
  <2> QED BY <1>1, <2>1, <2>2, RunsChangeKeepsIInv DEF IsLive
<1>3. ASSUME NEW r \in Runs, SignUp(r) \/ CancelRun(r) \/ ReactivateRun(r)
      PROVE  IInv'
  <2>1. UNCHANGED <<now, slot, link, slotLock, req>> /\ now' \in Nat /\ now <= now'
    <3>1. UNCHANGED <<now, slot, link, slotLock, req>>
      BY <1>3, Zenon DEF SignUp, CancelRun, ReactivateRun, SetRun
    <3> QED BY <1>1, <3>1
  <2>2. run[r] \in RunShape
    BY <1>1
  <2>3. CASE SignUp(r)
    <3>1. /\ IsLive(r) /\ run' = [run EXCEPT ![r] = [run[r] EXCEPT !.used = TRUE]]
          /\ revived' = revived /\ late' = IF RosterFree(r) THEN late ELSE late \cup {r}
      BY <2>3 DEF SignUp, SetRun
    <3>2. run' \in [Runs -> RunShape] /\ run'[r] = [run[r] EXCEPT !.used = TRUE]
          /\ \A q \in Runs \ {r} : run'[q] = run[q]
      BY <1>1, <2>2, <3>1 DEF RunShape
    <3>3. /\ run'[r].status = run[r].status /\ run'[r].archived = run[r].archived
          /\ run'[r].start = run[r].start /\ run'[r].used
      BY <2>2, <3>2 DEF RunShape
    <3> QED BY <1>1, <2>1, <3>1, <3>2, <3>3, RunsChangeKeepsIInv DEF IsLive
  <2>4. CASE CancelRun(r)
    <3>1. /\ IsLive(r) /\ run' = [run EXCEPT ![r] = [run[r] EXCEPT !.status = "CANCELLED"]]
          /\ revived' = revived /\ late' = late
      BY <2>4 DEF CancelRun, SetRun
    <3>2. run' \in [Runs -> RunShape] /\ run'[r] = [run[r] EXCEPT !.status = "CANCELLED"]
          /\ \A q \in Runs \ {r} : run'[q] = run[q]
      BY <1>1, <2>2, <3>1 DEF RunShape
    <3>3. /\ run'[r].status = "CANCELLED" /\ run'[r].archived = run[r].archived
          /\ run'[r].start = run[r].start /\ run'[r].used = run[r].used
      BY <2>2, <3>2 DEF RunShape
    <3> QED BY <1>1, <2>1, <3>1, <3>2, <3>3, RunsChangeKeepsIInv DEF IsLive
  <2>5. CASE ReactivateRun(r)
    <3>1. /\ run' = [run EXCEPT ![r] = [run[r] EXCEPT !.status = "OPEN", !.archived = FALSE]]
          /\ revived' = revived \cup {r} /\ late' = late
      BY <2>5 DEF ReactivateRun, SetRun
    <3>2. run' \in [Runs -> RunShape] /\ run'[r] = [run[r] EXCEPT !.status = "OPEN", !.archived = FALSE]
          /\ \A q \in Runs \ {r} : run'[q] = run[q]
      BY <1>1, <2>2, <3>1 DEF RunShape
    <3>3. /\ run'[r].status = "OPEN"
          /\ run'[r].start = run[r].start /\ run'[r].used = run[r].used
      BY <2>2, <3>2 DEF RunShape
    <3> QED BY <1>1, <2>1, <3>1, <3>2, <3>3, RunsChangeKeepsIInv DEF IsLive
  <2> QED BY <1>3, <2>3, <2>4, <2>5
<1> QED BY <1>2, <1>3

-----------------------------------------------------------------------------
(* Slots, links and Runs together. *)

\* What the other requests know stays true while nobody touches the slots they
\* hold, and a slot that is changed counts it.
LEMMA OthersKnowOfSlots ==
    ASSUME IInv, Shape', NEW q \in Requests, req'[q] = req[q],
           UNCHANGED <<now, revived, late>>,
           \A s \in Slots : slotLock[s] = q => slotLock'[s] = q,
           \A s \in Slots : Holds(q, s) => slot'[s] = slot[s],
           \A s \in Slots : \/ slot'[s] = slot[s] \/ slot'[s].rev > slot[s].rev
                            \/ (~slot[s].there /\ slot[s].rev = 0),
           \A r \in Runs : run[r].status # "NONE" => run'[r].status # "NONE",
           \A r \in Runs : link[r] # None /\ link[r].slot \in Slots
                           /\ slot'[link[r].slot] = slot[link[r].slot]
                           => link'[r] = link[r] /\ run'[r] = run[r],
           \A r \in Runs, s \in Slots :
               Holds(q, s) /\ link'[r] # None /\ link'[r].slot = s
               => link'[r].origin = "ATTACHED" \/ (link'[r] = link[r] /\ run'[r] = run[r])
    PROVE  ReqOK(q)'
<1>1. ReqOK(q) /\ Shape /\ Shape' /\ req[q] \in ReqShape
  BY DEF IInv, Rows
<1>2. \A s \in Slots : Holds(q, s)' => slotLock'[s] = q
  BY <1>1 DEF ReqOK, Holds
<1>3. RetireOK(q)' /\ CoversOrphans(q)'
  <2> SUFFICES ASSUME req[q].op \in Changes PROVE RetireOK(q)' /\ CoversOrphans(q)'
    BY DEF RetireOK, CoversOrphans
  <2>1. req[q].held \subseteq Slots /\ req[q].retire \subseteq Runs
    BY Kinds DEF ChangeShape
  <2>2. \A s \in req[q].held : Holds(q, s) /\ slot'[s] = slot[s]
    BY <2>1 DEF Holds
  <2>3. \A r \in req[q].retire : link'[r] = link[r] /\ run'[r] = run[r]
    BY <1>1, <2>1, <2>2 DEF ReqOK, RetireOK
  <2>4. RetireOK(q)'
    BY <1>1, <2>1, <2>3 DEF ReqOK, RetireOK
  <2>5. ASSUME NEW s \in req[q].held, NEW r \in Runs, WouldBeOrphan(q, s, r)'
        PROVE  r \in req[q].retire
    <3>1. link'[r] # None /\ link'[r].slot = s /\ link'[r].origin = "MATERIALIZED"
      BY <2>5 DEF WouldBeOrphan
    <3>2. link'[r] = link[r] /\ run'[r] = run[r]
      BY <2>1, <2>2, <3>1
    <3>3. slot'[s] = slot[s]
      BY <2>2
    <3>4. WouldBeOrphan(q, s, r)
      BY <2>5, <3>2, <3>3 DEF WouldBeOrphan, Affects, IsLive
    <3> QED BY <1>1, <3>4 DEF ReqOK, CoversOrphans
  <2> QED BY <2>4, <2>5 DEF CoversOrphans
<1>4. AttachOK(q)'
  <2> SUFFICES ASSUME req[q].op = "attach" PROVE AttachOK(q)'
    BY DEF AttachOK
  <2>1. req[q].slot \in Slots /\ req[q].run \in Runs /\ Holds(q, req[q].slot)
    BY Kinds DEF AttachShape, Holds
  <2> QED BY <1>1, <2>1 DEF ReqOK, AttachOK
<1>5. PassOK(q)'
  <2> SUFFICES ASSUME req[q].op = "pass" PROVE PassOK(q)'
    BY DEF PassOK
  <2>1. req[q] \in PassShape /\ PassOK(q)
    BY <1>1, Kinds DEF ReqOK
  <2>2. DOMAIN req[q].listed \subseteq Slots /\ \A s \in DOMAIN req[q].listed : req[q].listed[s] \in SlotShape
    BY <2>1, ListedShape DEF PassShape
  <2>3. ASSUME NEW s \in DOMAIN req[q].listed
        PROVE  ListedOK(q, s)' /\ (Covered(q, s) => Covered(q, s)')
    <3>1. ListedOK(q, s) /\ s \in Slots
      BY <2>1, <2>2 DEF PassOK
    <3>2. /\ slot[s] \in SlotShape /\ slot'[s] \in SlotShape /\ req[q].listed[s] \in SlotShape
      BY <1>1, <2>2, <3>1 DEF Shape
    <3>3. slot[s].rev \in Nat /\ slot'[s].rev \in Nat /\ req[q].listed[s].rev \in Nat
      BY <3>2 DEF SlotShape
    <3>4. ~(~slot[s].there /\ slot[s].rev = 0)
      BY <3>1, <3>3 DEF ListedOK
    <3>5. CASE slot'[s] = slot[s]
      <4>1. ListedOK(q, s)'
        BY <3>1, <3>5 DEF ListedOK
      <4>2. \A w : Fulfilled(s, w) => Fulfilled(s, w)'
        BY <3>1, <3>5 DEF Fulfilled, Fulfils
      <4>3. Covered(q, s) => Covered(q, s)'
        BY <3>5, <4>2 DEF Covered
      <4> QED BY <4>1, <4>3
    <3>6. CASE slot'[s].rev > slot[s].rev
      <4>1. slot'[s].rev > req[q].listed[s].rev
        BY <3>1, <3>3, <3>6 DEF ListedOK
      <4>2. slot'[s] # req[q].listed[s] /\ slot'[s].rev # req[q].listed[s].rev
        BY <3>3, <4>1
      <4> QED BY <3>1, <3>3, <4>1, <4>2 DEF ListedOK, Covered
    <3> QED BY <3>1, <3>4, <3>5, <3>6
  <2> QED BY <2>1, <2>3 DEF PassOK
<1> QED BY <1>2, <1>3, <1>4, <1>5 DEF ReqOK

LEMMA SlotsStayShaped ==
    ASSUME Shape, NEW s \in Slots, NEW row \in SlotShape, slot' = [slot EXCEPT ![s] = row]
    PROVE  /\ slot' \in [Slots -> SlotShape] /\ slot'[s] = row
           /\ \A u \in Slots \ {s} : slot'[u] = slot[u]
  BY DEF Shape

\* A free slot is switched on again, or written anew.
LEMMA FreeSlotKeepsIInv ==
    ASSUME IInv, NEW s \in Slots, SlotFree(s), NEW row \in SlotShape, slot' = [slot EXCEPT ![s] = row],
           UNCHANGED <<now, run, link, slotLock, req, revived, late>>,
           \/ /\ slot[s].there /\ row.there /\ row.isActive /\ row.time = slot[s].time
              /\ row.from = slot[s].from /\ row.rev > slot[s].rev
           \/ ~slot[s].there /\ slot[s].rev = 0
    PROVE  IInv'
<1>1. Shape /\ slot[s] \in SlotShape /\ \A r \in Runs : LinkOK(r) /\ FreedOK(r)
  BY DEF IInv, Rows, Shape
<1>2. Shape' /\ slot'[s] = row /\ \A u \in Slots \ {s} : slot'[u] = slot[u]
  BY <1>1, SlotsStayShaped DEF Shape
<1>3. \/ /\ slot[s].there /\ row.there /\ row.isActive /\ row.time = slot[s].time
         /\ row.from = slot[s].from /\ row.rev > slot[s].rev
      \/ ~slot[s].there /\ slot[s].rev = 0
  OBVIOUS
<1>4. ASSUME NEW r \in Runs PROVE LinkOK(r)' /\ FreedOK(r)'
  <2>1. link[r] # None => link[r].of \in Slots
    BY <1>1 DEF Shape, LinkRows
  <2>2. LinkOK(r) /\ FreedOK(r)
    BY <1>1
  <2>3. LinkOK(r)'
    <3> SUFFICES ASSUME link[r] # None, link[r].slot # None PROVE slot'[link[r].slot].there
      BY <2>2 DEF LinkOK
    <3>1. link[r].slot \in Slots /\ slot[link[r].slot].there
      BY <2>1, <2>2 DEF LinkOK
    <3> QED BY <1>2, <1>3, <3>1
  <2>4. FreedOK(r)'
    <3> SUFFICES ASSUME link[r] # None, link[r].slot = None, IsLive(r), r \notin revived
                 PROVE  ~slot'[link[r].of].there /\ slot'[link[r].of].rev > 0
      BY DEF FreedOK, IsLive
    <3>1. ~slot[link[r].of].there /\ slot[link[r].of].rev > 0
      BY <2>2 DEF FreedOK
    <3>2. link[r].of # s
      BY <1>1, <1>3, <3>1 DEF SlotShape
    <3> QED BY <1>2, <2>1, <3>1, <3>2
  <2> QED BY <2>3, <2>4
<1>5. OneRunPerOccurrence'
  BY DEF IInv, Rows, OneRunPerOccurrence, IsLive
<1>6. NoOrphan'
  <2> SUFFICES ASSUME NEW r \in Runs, link[r] # None, link[r].origin = "MATERIALIZED",
                      IsLive(r), ~run[r].used, run[r].start > now, r \notin revived
               PROVE  /\ link[r].slot # None
                      /\ LET u == slot'[link[r].slot] IN
                         u.there /\ u.isActive /\ u.time = link[r].time
                         /\ ~IsBeforeScheduleStart(u, link[r].window)
    BY DEF NoOrphan, IsLive, IsBeforeScheduleStart
  <2>1. /\ link[r].slot # None
        /\ LET u == slot[link[r].slot] IN
           u.there /\ u.isActive /\ u.time = link[r].time
           /\ ~IsBeforeScheduleStart(u, link[r].window)
    BY DEF IInv, Rows, NoOrphan
  <2>2. link[r].slot \in Slots
    BY <1>1, <2>1 DEF Shape, LinkRows
  <2>3. CASE link[r].slot = s
    BY <1>2, <1>3, <2>1, <2>3 DEF IsBeforeScheduleStart
  <2>4. CASE link[r].slot # s
    BY <1>2, <2>1, <2>2, <2>4
  <2> QED BY <2>3, <2>4
<1>7. ASSUME NEW q \in Requests PROVE ReqOK(q)'
  <2>1. ~Holds(q, s)
    BY NoneAssumption DEF SlotFree, IInv, ReqOK
  <2>2. \A u \in Slots : Holds(q, u) => slot'[u] = slot[u]
    BY <1>2, <2>1
  <2>3. \A u \in Slots : \/ slot'[u] = slot[u] \/ slot'[u].rev > slot[u].rev
                         \/ (~slot[u].there /\ slot[u].rev = 0)
    BY <1>2, <1>3
  <2> QED BY <1>2, <2>2, <2>3, OthersKnowOfSlots
<1> QED BY <1>2, <1>4, <1>5, <1>6, <1>7 DEF IInv, Rows

LEMMA SlotStepsKeepIInv ==
    ASSUME IInv, NEW s \in Slots,
           \/ ReactivateSlot(s)
           \/ \E time \in Times, from \in Windows : CreateSlot(s, time, from)
    PROVE  IInv'
<1>1. slot[s] \in SlotShape
  BY DEF IInv, Rows, Shape
<1>2. CASE ReactivateSlot(s)
  <2> DEFINE row == [slot[s] EXCEPT !.isActive = TRUE, !.rev = @ + 1]
  <2>1. /\ row \in SlotShape /\ row.isActive /\ row.there = slot[s].there
        /\ row.time = slot[s].time /\ row.from = slot[s].from /\ row.rev > slot[s].rev
    <3>1. slot[s].rev + 1 \in Nat /\ slot[s].rev + 1 > slot[s].rev
      BY <1>1 DEF SlotShape
    <3> QED BY <1>1, <3>1 DEF SlotShape
  <2>2. /\ slot[s].there /\ SlotFree(s) /\ slot' = [slot EXCEPT ![s] = row]
        /\ UNCHANGED <<now, run, link, slotLock, req, revived, late>>
    BY <1>2 DEF ReactivateSlot
  <2> HIDE DEF row
  <2> QED BY <2>1, <2>2, FreeSlotKeepsIInv
<1>3. ASSUME NEW time \in Times, NEW from \in Windows, CreateSlot(s, time, from)
      PROVE  IInv'
  <2> DEFINE row == [there |-> TRUE, isActive |-> TRUE, time |-> time, from |-> from, rev |-> 0]
  <2>1. row \in SlotShape
    <3>1. from \in Nat
      BY DEF Windows
    <3> QED BY <3>1 DEF SlotShape
  <2>2. /\ ~slot[s].there /\ slot[s].rev = 0 /\ SlotFree(s) /\ slot' = [slot EXCEPT ![s] = row]
        /\ UNCHANGED <<now, run, link, slotLock, req, revived, late>>
    BY <1>3 DEF CreateSlot
  <2> HIDE DEF row
  <2> QED BY <2>1, <2>2, FreeSlotKeepsIInv
<1> QED BY <1>2, <1>3

\* A Run gets the link of an occurrence that no Run has, of a slot that is there.
LEMMA LinkWrittenKeepsRows ==
    ASSUME Rows, Shape', NEW r \in Runs, link[r] = None, NEW l \in LinkRows(Nat), link' = [link EXCEPT ![r] = l],
           UNCHANGED <<now, revived>>, \A q \in Runs \ {r} : run'[q] = run[q],
           run'[r].status # "NONE",
           l.slot = l.of, ~Fulfilled(l.slot, l.window),
           slot'[l.slot].there, \A u \in Slots \ {l.slot} : slot'[u] = slot[u],
           slot'[l.slot] = slot[l.slot] \/ (~slot[l.slot].there /\ slot[l.slot].rev = 0),
           l.origin = "MATERIALIZED" => /\ slot'[l.slot].isActive /\ slot'[l.slot].time = l.time
                                        /\ ~IsBeforeScheduleStart(slot'[l.slot], l.window)
    PROVE  Rows'
<1> DEFINE s == l.slot
<1>1. /\ Shape /\ \A q \in Runs : LinkOK(q) /\ FreedOK(q)
      /\ OneRunPerOccurrence /\ NoOrphan
  BY DEF Rows
<1>2. /\ s \in Slots /\ s # None /\ l # None
  <2>1. l.slot \in Slots
    <3>1. l.of \in Slots
      BY DEF LinkRows
    <3> QED BY <3>1
  <2> QED BY <2>1, NoneAssumption
<1>3. link'[r] = l /\ \A q \in Runs \ {r} : link'[q] = link[q] /\ run'[q] = run[q]
  BY <1>1 DEF Shape
<1>4. slot[s] \in SlotShape /\ \A q \in Runs : link[q] # None => link[q].of \in Slots
  BY <1>1, <1>2 DEF Shape, LinkRows
\* No other Run has anything to do with a slot that was not there.
<1>5. ASSUME NEW q \in Runs, link[q] # None, link[q].slot # None
      PROVE  /\ slot[link[q].slot].there /\ link[q].slot \in Slots
             /\ slot'[link[q].slot] = slot[link[q].slot]
  <2>1. LinkOK(q)
    BY <1>1
  <2>2. slot[link[q].slot].there /\ link[q].slot \in Slots
    BY <1>4, <1>5, <2>1 DEF LinkOK
  <2> QED BY <2>2
<1>6. ASSUME NEW q \in Runs PROVE LinkOK(q)' /\ FreedOK(q)'
  <2>1. CASE q = r
    BY <1>2, <1>3, <2>1 DEF LinkOK, FreedOK
  <2>2. CASE q # r
    <3>1. LinkOK(q) /\ FreedOK(q)
      BY <1>1
    <3>2. LinkOK(q)'
      BY <1>3, <1>5, <2>2, <3>1 DEF LinkOK
    <3>3. FreedOK(q)'
      <4> SUFFICES ASSUME link[q] # None, link[q].slot = None, IsLive(q), q \notin revived
                   PROVE  ~slot'[link[q].of].there /\ slot'[link[q].of].rev > 0
        BY <1>3, <2>2 DEF FreedOK, IsLive
      <4>1. ~slot[link[q].of].there /\ slot[link[q].of].rev > 0
        BY <3>1 DEF FreedOK
      <4>2. CASE link[q].of # s
        BY <1>4, <4>1, <4>2
      <4>3. CASE link[q].of = s
        <5>1. slot'[s] = slot[s]
          BY <1>4, <4>1, <4>3 DEF SlotShape
        <5> QED BY <4>1, <4>3, <5>1
      <4> QED BY <4>2, <4>3
    <3> QED BY <3>2, <3>3
  <2> QED BY <2>1, <2>2
<1>7. ASSUME NEW q \in Runs \ {r}, q \notin revived, link[q] # None, link[q].of = s, link[q].window = l.window
      PROVE  ~IsLive(q)
  <2>1. LinkOK(q) /\ FreedOK(q)
    BY <1>1
  <2>2. CASE link[q].slot # None
    <3>1. Fulfils(q, s, l.window)
      BY <1>7, <2>1, <2>2 DEF LinkOK, Fulfils
    <3> QED BY <3>1 DEF Fulfilled
  <2>3. CASE link[q].slot = None
    <3> SUFFICES ASSUME IsLive(q) PROVE FALSE
      OBVIOUS
    <3>1. ~slot[s].there /\ slot[s].rev > 0
      BY <1>7, <2>1, <2>3 DEF FreedOK
    <3> QED BY <1>4, <3>1 DEF SlotShape
  <2> QED BY <2>2, <2>3
<1>8. OneRunPerOccurrence'
  <2> SUFFICES ASSUME NEW a \in Runs \ revived, NEW b \in Runs \ revived, a # b,
                      link'[a] # None, link'[b] # None, link'[a].of = link'[b].of,
                      link'[a].window = link'[b].window, IsLive(a)', IsLive(b)'
               PROVE  FALSE
    BY DEF OneRunPerOccurrence
  <2>1. CASE a # r /\ b # r
    BY <1>1, <1>3, <2>1 DEF OneRunPerOccurrence, IsLive
  <2>2. CASE a = r
    <3>1. b \in Runs \ {r} /\ link[b] # None /\ link[b].of = s /\ link[b].window = l.window /\ IsLive(b)
      BY <1>3, <2>2 DEF IsLive
    <3> QED BY <1>7, <3>1
  <2>3. CASE b = r
    <3>1. a \in Runs \ {r} /\ link[a] # None /\ link[a].of = s /\ link[a].window = l.window /\ IsLive(a)
      BY <1>3, <2>3 DEF IsLive
    <3> QED BY <1>7, <3>1
  <2> QED BY <2>1, <2>2, <2>3
<1>9. NoOrphan'
  <2> SUFFICES ASSUME NEW q \in Runs, link'[q] # None, link'[q].origin = "MATERIALIZED",
                      IsLive(q)', ~run'[q].used, run'[q].start > now, q \notin revived
               PROVE  /\ link'[q].slot # None
                      /\ LET u == slot'[link'[q].slot] IN
                         u.there /\ u.isActive /\ u.time = link'[q].time
                         /\ ~IsBeforeScheduleStart(u, link'[q].window)
    BY DEF NoOrphan, IsBeforeScheduleStart
  <2>1. CASE q = r
    BY <1>2, <1>3, <2>1
  <2>2. CASE q # r
    <3>1. link'[q] = link[q] /\ run'[q] = run[q]
      BY <1>3, <2>2
    <3>2. IsLive(q)
      BY <3>1 DEF IsLive
    <3>3. /\ link[q].slot # None
          /\ LET u == slot[link[q].slot] IN
             u.there /\ u.isActive /\ u.time = link[q].time
             /\ ~IsBeforeScheduleStart(u, link[q].window)
      BY <1>1, <3>1, <3>2 DEF NoOrphan
    <3> QED BY <1>5, <3>1, <3>3
  <2> QED BY <2>1, <2>2
<1> QED BY <1>6, <1>8, <1>9 DEF Rows

LEMMA AttachCommitsKeepsIInv ==
    ASSUME IInv, NEW p \in Requests, AttachCommits(p)
    PROVE  IInv'
<1> DEFINE s == req[p].slot
           r == req[p].run
           w == WindowOf(run[r].start)
           row == req[p].row
           l == [slot |-> s, of |-> s, window |-> w, time |-> row.time, origin |-> "ATTACHED"]
<1>1. /\ req[p].op = "attach" /\ link[r] = None /\ ~Fulfilled(s, w)
      /\ slot' = [slot EXCEPT ![s] = row] /\ link' = [link EXCEPT ![r] = l]
      /\ Unlock(p) /\ req' = [req EXCEPT ![p] = Idle]
      /\ UNCHANGED <<now, run, revived, late>>
  BY DEF AttachCommits
<1>2. s \in Slots /\ r \in Runs /\ row \in SlotShape
  BY <1>1, Kinds DEF AttachShape
<1>3. /\ row.there /\ run[r].status # "NONE"
      /\ slot[s] = row \/ (~slot[s].there /\ slot[s].rev = 0)
      /\ slotLock[s] = p
  BY <1>1, <1>2 DEF IInv, ReqOK, AttachOK, Holds
<1>4. Shape /\ Rows
  BY DEF IInv, Rows
<1>5. l \in LinkRows(Nat)
  <2>1. w \in Nat
    BY <1>2, <1>4, WindowsAreNumbers DEF Shape, RunShape
  <2>2. row.time \in Times
    BY <1>2 DEF SlotShape
  <2> QED BY <1>2, <2>1, <2>2 DEF LinkRows
<1>6. l.slot = s /\ l.of = s /\ l.window = w /\ l.origin = "ATTACHED"
  OBVIOUS
<1>7. l # None
  BY <1>5, NoneAssumption
<1> HIDE DEF l, row, w
<1>8. /\ slot' \in [Slots -> SlotShape] /\ slot'[s] = row /\ \A u \in Slots \ {s} : slot'[u] = slot[u]
  BY <1>1, <1>2, <1>4, SlotsStayShaped
<1>9. link' \in [Runs -> LinkRows(Nat) \cup {None}] /\ link'[r] = l
      /\ \A q \in Runs \ {r} : link'[q] = link[q]
  BY <1>1, <1>2, <1>4, <1>5 DEF Shape
<1>10. slotLock' \in [Slots -> Requests \cup {None}]
  BY <1>1, <1>4 DEF Shape, Unlock
<1>11. Shape'
  BY <1>1, <1>4, <1>8, <1>9, <1>10 DEF Shape
<1>12. Rows'
  BY <1>1, <1>2, <1>3, <1>4, <1>5, <1>6, <1>8, <1>11, LinkWrittenKeepsRows
<1>13. ASSUME NEW q \in Requests \ {p} PROVE ReqOK(q)'
  <2>1. req'[q] = req[q]
    BY <1>1
  <2>2. ~Holds(q, s)
    BY <1>2, <1>3 DEF IInv, ReqOK
  <2>3. \A u \in Slots : slotLock[u] = q => slotLock'[u] = q
    BY <1>1 DEF Unlock
  <2>4. \A u \in Slots : Holds(q, u) => slot'[u] = slot[u]
    BY <1>8, <2>2
  <2>5. \A u \in Slots : \/ slot'[u] = slot[u] \/ slot'[u].rev > slot[u].rev
                         \/ (~slot[u].there /\ slot[u].rev = 0)
    BY <1>3, <1>8
  <2>6. \A x \in Runs : link[x] # None => link'[x] = link[x] /\ run'[x] = run[x]
    BY <1>1, <1>9
  <2>7. \A x \in Runs, u \in Slots :
            Holds(q, u) /\ link'[x] # None /\ link'[x].slot = u
            => link'[x].origin = "ATTACHED" \/ (link'[x] = link[x] /\ run'[x] = run[x])
    BY <1>1, <1>6, <1>9
  <2> QED BY <1>1, <1>11, <2>1, <2>3, <2>4, <2>5, <2>6, <2>7, OthersKnowOfSlots
<1>14. req' \in [Requests -> ReqShape] /\ ReqOK(p)'
  BY <1>1, IdleIsOK DEF IInv, ReqShape
<1> QED BY <1>12, <1>13, <1>14 DEF IInv

LEMMA CreateScheduleRunKeepsIInv ==
    ASSUME IInv, NEW p \in Requests, NEW r \in Runs, CreateScheduleRun(p, r)
    PROVE  IInv'
<1> DEFINE plan == req[p].plan
           s == plan.slot
           w == plan.window
           l == [slot |-> s, of |-> s, window |-> w, time |-> plan.time, origin |-> "MATERIALIZED"]
           new == [status |-> "OPEN", archived |-> FALSE, used |-> FALSE,
                   start |-> StartOf(plan.time, w)]
<1>1. /\ Creating(p) /\ SlotFree(s) /\ SlotStillHas(plan) /\ ~Fulfilled(s, w)
      /\ run[r].status = "NONE"
      /\ run' = [run EXCEPT ![r] = new] /\ link' = [link EXCEPT ![r] = l]
      /\ req' = Created(p, {})
      /\ UNCHANGED <<now, slot, slotLock, revived, late>>
  BY DEF CreateScheduleRun
<1>2. plan \in Plans(Nat) /\ plan = req[p].plan
  BY <1>1, CreatedRequest
<1>3. s \in Slots /\ w \in Nat /\ plan.time \in Times
  BY <1>2 DEF Plans
<1>4. Shape /\ Rows /\ LinkOK(r)
  BY DEF IInv, Rows
<1>5. link[r] = None
  BY <1>1, <1>4 DEF LinkOK
<1>6. l \in LinkRows(Nat) /\ l.slot = s /\ l.of = s /\ l.window = w /\ l.time = plan.time
      /\ l.origin = "MATERIALIZED"
  BY <1>3 DEF LinkRows
<1>7. new \in RunShape /\ new.status = "OPEN"
  BY <1>3, StartsAreNumbers DEF RunShape
<1>8. /\ slot[s].there /\ slot[s].isActive /\ slot[s].time = plan.time
      /\ ~IsBeforeScheduleStart(slot[s], w)
  BY <1>1 DEF SlotStillHas
<1> HIDE DEF l, new, plan
<1>9. link' \in [Runs -> LinkRows(Nat) \cup {None}] /\ link'[r] = l
      /\ \A q \in Runs \ {r} : link'[q] = link[q]
  BY <1>1, <1>4, <1>6 DEF Shape
<1>10. run' \in [Runs -> RunShape] /\ run'[r] = new /\ \A q \in Runs \ {r} : run'[q] = run[q]
  BY <1>1, <1>4, <1>7 DEF Shape
<1>11. Shape'
  BY <1>1, <1>4, <1>9, <1>10 DEF Shape
<1>12. Rows'
  BY <1>1, <1>3, <1>4, <1>5, <1>6, <1>7, <1>8, <1>10, <1>11, LinkWrittenKeepsRows
<1>13. \A x \in Runs : link[x] # None => link'[x] = link[x] /\ run'[x] = run[x]
  BY <1>5, <1>9, <1>10
<1>14. /\ req' \in [Requests -> ReqShape] /\ \A q \in Requests \ {p} : req'[q] = req[q]
  BY <1>1, CreatedRequest
<1>15. ASSUME NEW q \in Requests \ {p} PROVE ReqOK(q)'
  <2>1. ~Holds(q, s)
    BY <1>1, <1>3, NoneAssumption DEF SlotFree, IInv, ReqOK
  <2>2. \A x \in Runs, u \in Slots :
            Holds(q, u) /\ link'[x] # None /\ link'[x].slot = u
            => link'[x].origin = "ATTACHED" \/ (link'[x] = link[x] /\ run'[x] = run[x])
    BY <1>6, <1>9, <1>10, <2>1
  <2>3. \A x \in Runs : run[x].status # "NONE" => run'[x].status # "NONE"
    BY <1>7, <1>10
  <2> QED BY <1>1, <1>11, <1>13, <1>14, <2>2, <2>3, OthersKnowOfSlots
<1>16. ReqOK(p)'
  <2>1. CASE req[p].op = "createRun"
    <3>1. req'[p] = Idle
      BY <1>1, <2>1, CreatedRequest DEF IInv
    <3> QED BY <3>1, IdleIsOK
  <2>2. CASE req[p].op = "pass"
    <3>1. PICK x \in PassShape : /\ req'[p] = x
                                 /\ x.listed = req[p].listed /\ x.at = req[p].at
                                 /\ x.todo = req[p].todo \ {s}
                                 /\ x.plan = None /\ x.failed = req[p].failed \cup {}
      <4>1. {} \in SUBSET Slots
        OBVIOUS
      <4>2. \E x \in PassShape : /\ req' = [req EXCEPT ![p] = x] /\ req'[p] = x
                                 /\ x.listed = req[p].listed /\ x.at = req[p].at
                                 /\ x.todo = req[p].todo \ {req[p].plan.slot}
                                 /\ x.plan = None /\ x.failed = req[p].failed \cup {}
        BY <1>1, <2>2, <4>1, CreatedRequest
      <4>3. s = req[p].plan.slot
        BY <1>2
      <4> QED BY <4>2, <4>3
    <3>2. PassOK(p) /\ plan # None
      BY <1>1, <1>2 DEF IInv, ReqOK, Creating
    <3>3. w = ReleasedWindow(req[p].at)
      BY <1>2, <2>2, <3>2 DEF PassOK
    <3>4. link'[r] # None /\ link'[r].slot = s /\ link'[r].window = w
      BY <1>6, <1>9, NoneAssumption
    <3>5. \A u, v : Fulfilled(u, v) => Fulfilled(u, v)'
      BY <1>13 DEF Fulfilled, Fulfils
    <3>6. ASSUME NEW u \in DOMAIN x.listed \ (x.todo \cup x.failed) PROVE Covered(p, u)'
      <4>1. CASE u = s
        <5>1. Fulfilled(u, ReleasedWindow(x.at))'
          BY <3>1, <3>3, <3>4, <4>1 DEF Fulfilled, Fulfils
        <5> QED BY <3>1, <5>1 DEF Covered
      <4>2. CASE u # s
        <5>1. Covered(p, u)
          BY <2>2, <3>1, <3>2, <3>6, <4>2 DEF PassOK
        <5> QED BY <1>1, <3>1, <3>5, <5>1 DEF Covered
      <4> QED BY <4>1, <4>2
    <3>7. \A u \in DOMAIN x.listed : ListedOK(p, u)'
      BY <1>1, <2>2, <3>1, <3>2 DEF PassOK, ListedOK
    <3>8. x.todo \subseteq DOMAIN x.listed
      BY <2>2, <3>1, <3>2 DEF PassOK
    <3>9. PassOK(p)'
      BY <3>1, <3>6, <3>7, <3>8 DEF PassOK
    <3>10. req'[p].op = "pass" /\ "pass" \notin Changes /\ "pass" # "attach"
      BY <3>1 DEF PassShape, Changes
    <3> QED BY <3>9, <3>10 DEF ReqOK, Holds, RetireOK, CoversOrphans, AttachOK
  <2> QED BY <1>1, <2>1, <2>2 DEF Creating
<1> QED BY <1>12, <1>14, <1>15, <1>16 DEF IInv

\* The row a change writes for a slot it holds.
LEMMA ChangedRows ==
    ASSUME IInv, NEW p \in Requests, req[p].op \in Changes, NEW s \in req[p].held
    PROVE  /\ ChangedSlot(p, s) \in SlotShape /\ ChangedSlot(p, s).rev = slot[s].rev + 1
           /\ req[p].op \in {"updateSlot", "deactivateSlot"} => ChangedSlot(p, s).there = slot[s].there
           /\ req[p].op \notin {"updateSlot", "deactivateSlot"} => ~ChangedSlot(p, s).there
           /\ req[p].op = "updateSlot" => /\ ChangedSlot(p, s).time = req[p].new.time
                                          /\ ChangedSlot(p, s).from = req[p].new.from
                                          /\ ChangedSlot(p, s).isActive = slot[s].isActive
           /\ req[p].op = "deactivateSlot" => ~ChangedSlot(p, s).isActive
<1> DEFINE op == req[p].op
           new == req[p].new
<1>1. slot[s] \in SlotShape
  <2>1. req[p].held \subseteq Slots
    BY Kinds DEF ChangeShape
  <2> QED BY <2>1 DEF IInv, Rows, Shape
<1>2. slot[s].rev + 1 \in Nat
  BY <1>1 DEF SlotShape
<1>3. CASE op = "updateSlot"
  <2>1. new.time \in Times /\ new.from \in Nat
    BY <1>3 DEF IInv, ReqOK, RetireOK, SlotShape
  <2>2. ChangedSlot(p, s) = [slot[s] EXCEPT !.time = new.time, !.from = new.from, !.rev = @ + 1]
    BY <1>3 DEF ChangedSlot
  <2> QED BY <1>1, <1>2, <1>3, <2>1, <2>2 DEF SlotShape
<1>4. CASE op = "deactivateSlot"
  <2>1. ChangedSlot(p, s) = [slot[s] EXCEPT !.isActive = FALSE, !.rev = @ + 1]
    BY <1>4 DEF ChangedSlot
  <2> QED BY <1>1, <1>2, <1>4, <2>1 DEF SlotShape
<1>5. CASE op \notin {"updateSlot", "deactivateSlot"}
  <2>1. ChangedSlot(p, s) = [slot[s] EXCEPT !.there = FALSE, !.rev = @ + 1]
    BY <1>5 DEF ChangedSlot
  <2> QED BY <1>1, <1>2, <1>5, <2>1 DEF SlotShape
<1> QED BY <1>3, <1>4, <1>5

\* A change commits: it retires what would be an orphan of the slots it holds,
\* and nobody else has looked at those.
LEMMA CommitChangeKeepsIInv ==
    ASSUME IInv, NEW p \in Requests, CommitChange(p)
    PROVE  IInv'
<1> DEFINE held == req[p].held
           retire == req[p].retire
           op == req[p].op
           new == req[p].new
<1>1. /\ op \in Changes /\ Unlock(p) /\ req' = [req EXCEPT ![p] = Idle]
      /\ slot' = [s \in Slots |-> IF s \in held THEN ChangedSlot(p, s) ELSE slot[s]]
      /\ run' = [r \in Runs |-> IF r \in retire
                                THEN [run[r] EXCEPT !.status = "CANCELLED", !.archived = TRUE]
                                ELSE run[r]]
      /\ link' = [r \in Runs |-> FreedLink(p, r)]
      /\ UNCHANGED <<now, revived, late>>
  BY DEF CommitChange
<1>2. held \subseteq Slots /\ retire \subseteq Runs
  BY <1>1, Kinds DEF ChangeShape
<1>3. /\ Shape /\ Rows /\ ReqOK(p) /\ \A r \in Runs : LinkOK(r) /\ FreedOK(r)
  BY DEF IInv, Rows
<1>4. /\ op = "updateSlot" => new \in SlotShape
      /\ \A r \in retire : link[r] # None /\ link[r].slot \in held /\ link[r].origin = "MATERIALIZED"
  BY <1>1, <1>3 DEF ReqOK, RetireOK
<1>5. \A s \in held : slotLock[s] = p
  BY <1>1, <1>2, <1>3 DEF ReqOK, Holds
\* The slots.
<1>6. ASSUME NEW s \in held
      PROVE  /\ ChangedSlot(p, s) \in SlotShape /\ ChangedSlot(p, s).rev = slot[s].rev + 1
             /\ op \in {"updateSlot", "deactivateSlot"} => ChangedSlot(p, s).there = slot[s].there
             /\ op \notin {"updateSlot", "deactivateSlot"} => ~ChangedSlot(p, s).there
             /\ op = "updateSlot" => /\ ChangedSlot(p, s).time = new.time
                                     /\ ChangedSlot(p, s).from = new.from
                                     /\ ChangedSlot(p, s).isActive = slot[s].isActive
  BY <1>1, ChangedRows
<1>7. /\ slot' \in [Slots -> SlotShape]
      /\ \A s \in held : slot'[s] = ChangedSlot(p, s)
      /\ \A s \in Slots \ held : slot'[s] = slot[s]
  BY <1>1, <1>2, <1>3, <1>6 DEF Shape
\* The Runs and the links.
<1>8. ASSUME NEW r \in Runs
      PROVE  /\ run'[r] \in RunShape /\ (run[r].status # "NONE" => run'[r].status # "NONE")
             /\ r \in retire => run'[r].status = "CANCELLED"
             /\ r \notin retire => run'[r] = run[r]
  <2>1. run[r] \in RunShape
    BY <1>3 DEF Shape
  <2>2. CASE r \in retire
    <3>1. run'[r] = [run[r] EXCEPT !.status = "CANCELLED", !.archived = TRUE]
      BY <1>1, <2>2
    <3> QED BY <2>1, <2>2, <3>1 DEF RunShape
  <2>3. CASE r \notin retire
    BY <1>1, <2>1, <2>3
  <2> QED BY <2>2, <2>3
<1>9. ASSUME NEW r \in Runs
      PROVE  /\ link[r] = None => link'[r] = None
             /\ link[r] # None =>
                   /\ link'[r] \in LinkRows(Nat) /\ link'[r].of = link[r].of
                   /\ link'[r].window = link[r].window /\ link'[r].time = link[r].time
                   /\ link'[r].origin = link[r].origin
                   /\ link'[r].slot \in {link[r].slot, None}
                   /\ link[r].slot \notin held => link'[r] = link[r]
                   /\ r \notin retire /\ link'[r] # link[r] =>
                          link[r].slot \in held /\ op \in {"deleteSlot", "deleteRunSetup"}
                   /\ link[r].slot \in held /\ op \in {"deleteSlot", "deleteRunSetup"} => link'[r].slot = None
  <2>1. link[r] \in LinkRows(Nat) \cup {None} /\ link'[r] = FreedLink(p, r)
    BY <1>1, <1>3 DEF Shape
  <2>2. CASE link[r] = None
    BY <1>4, <2>1, <2>2 DEF FreedLink
  <2>3. CASE link[r] # None
    <3>1. link[r] \in LinkRows(Nat)
      BY <2>1, <2>3
    <3>2. CASE link'[r] = [link[r] EXCEPT !.slot = None]
      <4>1. /\ link'[r] \in LinkRows(Nat) /\ link'[r].of = link[r].of
            /\ link'[r].window = link[r].window /\ link'[r].time = link[r].time
            /\ link'[r].origin = link[r].origin /\ link'[r].slot = None
        BY <3>1, <3>2 DEF LinkRows
      <4>2. CASE r \in retire
        BY <1>4, <2>3, <4>1, <4>2
      <4>3. CASE r \notin retire
        BY <2>1, <2>3, <4>1, <4>3 DEF FreedLink
      <4> QED BY <4>2, <4>3
    <3>3. CASE link'[r] = link[r] /\ ~(link[r].slot \in held /\ op \in {"deleteSlot", "deleteRunSetup"})
      BY <2>3, <3>1, <3>3
    <3> QED BY <2>1, <2>3, <3>2, <3>3 DEF FreedLink
  <2> QED BY <2>2, <2>3
<1>10. \A r \in Runs : link'[r] # None <=> link[r] # None
  BY <1>9, NoneAssumption
<1>11. Shape'
  <2>1. run' \in [Runs -> RunShape]
    BY <1>1, <1>8
  <2>2. link' \in [Runs -> LinkRows(Nat) \cup {None}]
    BY <1>1, <1>9
  <2>3. slotLock' \in [Slots -> Requests \cup {None}]
    BY <1>1, <1>3 DEF Shape, Unlock
  <2> QED BY <1>1, <1>3, <1>7, <2>1, <2>2, <2>3 DEF Shape
<1>12. \A r \in Runs : IsLive(r)' => IsLive(r) /\ r \notin retire
  BY <1>8 DEF IsLive
<1>13. \A r \in Runs : link[r] # None => link[r].of \in Slots /\ link[r].slot \in Slots \cup {None}
  BY <1>3 DEF Shape, LinkRows
<1> HIDE DEF held, retire, new
<1>14. ASSUME NEW r \in Runs PROVE LinkOK(r)' /\ FreedOK(r)'
  <2>1. LinkOK(r) /\ FreedOK(r)
    BY <1>3
  <2>2. LinkOK(r)'
    <3> SUFFICES ASSUME link[r] # None
                 PROVE  /\ link'[r].slot \in {link'[r].of, None}
                        /\ link'[r].slot # None => slot'[link'[r].slot].there
      BY <1>8, <1>10, <2>1 DEF LinkOK
    <3>1. link'[r].slot \in {link'[r].of, None}
      BY <1>9, <2>1 DEF LinkOK
    <3>2. ASSUME link'[r].slot # None PROVE slot'[link'[r].slot].there
      <4>1. link'[r].slot = link[r].slot /\ link[r].slot \in Slots /\ slot[link[r].slot].there
        BY <1>9, <1>13, <2>1, <3>2 DEF LinkOK
      <4>2. CASE link[r].slot \in held
        <5>1. op \notin {"deleteSlot", "deleteRunSetup"}
          BY <1>9, <3>2, <4>2
        <5>2. op \in {"updateSlot", "deactivateSlot"}
          BY <1>1, <5>1 DEF Changes
        <5> QED BY <1>6, <1>7, <4>1, <4>2, <5>2
      <4>3. CASE link[r].slot \notin held
        BY <1>7, <4>1, <4>3
      <4> QED BY <4>2, <4>3
    <3> QED BY <3>1, <3>2
  <2>3. FreedOK(r)'
    <3> SUFFICES ASSUME link[r] # None, link'[r].slot = None, IsLive(r), r \notin retire, r \notin revived
                 PROVE  ~slot'[link[r].of].there /\ slot'[link[r].of].rev > 0
      BY <1>1, <1>9, <1>10, <1>12 DEF FreedOK
    <3>1. link[r].of \in Slots /\ slot[link[r].of] \in SlotShape
      BY <1>3, <1>13 DEF Shape
    <3>2. slot[link[r].of].rev \in Nat
      BY <3>1 DEF SlotShape
    <3>3. CASE link[r].slot = None
      <4>1. ~slot[link[r].of].there /\ slot[link[r].of].rev > 0
        BY <2>1, <3>3 DEF FreedOK
      <4>2. CASE link[r].of \in held
        <5>1. ~ChangedSlot(p, link[r].of).there /\ ChangedSlot(p, link[r].of).rev = slot[link[r].of].rev + 1
          BY <1>6, <4>1, <4>2
        <5> QED BY <1>7, <3>2, <4>2, <5>1
      <4>3. CASE link[r].of \notin held
        BY <1>7, <3>1, <4>1, <4>3
      <4> QED BY <4>2, <4>3
    <3>4. CASE link[r].slot # None
      <4>1. link'[r] # link[r]
        BY <3>4
      <4>2. link[r].slot \in held /\ op \in {"deleteSlot", "deleteRunSetup"} /\ link[r].of = link[r].slot
        BY <1>9, <2>1, <3>4, <4>1 DEF LinkOK
      <4>3. ~ChangedSlot(p, link[r].of).there /\ ChangedSlot(p, link[r].of).rev = slot[link[r].of].rev + 1
        BY <1>6, <4>2
      <4> QED BY <1>7, <3>2, <4>2, <4>3
    <3> QED BY <3>3, <3>4
  <2> QED BY <2>2, <2>3
<1>15. OneRunPerOccurrence'
  <2> SUFFICES ASSUME NEW a \in Runs \ revived, NEW b \in Runs \ revived, a # b,
                      link'[a] # None, link'[b] # None, link'[a].of = link'[b].of,
                      link'[a].window = link'[b].window, IsLive(a)', IsLive(b)'
               PROVE  FALSE
    BY <1>1 DEF OneRunPerOccurrence
  <2> QED BY <1>3, <1>9, <1>10, <1>12 DEF Rows, OneRunPerOccurrence
<1>16. NoOrphan'
  <2> SUFFICES ASSUME NEW r \in Runs, link'[r] # None, link'[r].origin = "MATERIALIZED",
                      IsLive(r)', ~run'[r].used, run'[r].start > now, r \notin revived
               PROVE  /\ link'[r].slot # None
                      /\ LET u == slot'[link'[r].slot] IN
                         u.there /\ u.isActive /\ u.time = link'[r].time
                         /\ ~IsBeforeScheduleStart(u, link'[r].window)
    BY <1>1 DEF NoOrphan, IsBeforeScheduleStart
  <2> DEFINE s == link[r].slot
  <2>1. /\ link[r] # None /\ link[r].origin = "MATERIALIZED" /\ IsLive(r) /\ r \notin retire
        /\ run'[r] = run[r]
    BY <1>8, <1>9, <1>10, <1>12
  <2>2. /\ s # None
        /\ slot[s].there /\ slot[s].isActive /\ slot[s].time = link[r].time
        /\ ~IsBeforeScheduleStart(slot[s], link[r].window)
    BY <1>3, <2>1 DEF Rows, NoOrphan
  <2>3. s \in Slots /\ slot[s] \in SlotShape /\ link[r].window \in Nat
    BY <1>3, <1>13, <2>1, <2>2 DEF Shape, LinkRows
  <2>4. CASE s \notin held
    BY <1>7, <1>9, <2>1, <2>2, <2>3, <2>4
  <2>5. CASE s \in held
    <3>1. ~WouldBeOrphan(p, s, r)
      BY <1>1, <1>2, <1>3, <2>1, <2>3, <2>5 DEF ReqOK, CoversOrphans, held, retire
    <3>2. ~Affects(p, s, link[r].window)
      BY <2>1, <3>1 DEF WouldBeOrphan
    <3>3. /\ op = "updateSlot" /\ new.time = slot[s].time
          /\ ~(new.from > slot[s].from /\ IsBeforeScheduleStart(new, link[r].window))
      BY <3>2 DEF Affects, new
    <3>4. link'[r] = link[r]
      BY <1>9, <2>1, <3>3
    <3>5. /\ slot'[s].there /\ slot'[s].isActive /\ slot'[s].time = link[r].time
          /\ slot'[s].from = new.from
      BY <1>6, <1>7, <2>2, <2>5, <3>3
    <3>6. ~(link[r].window < new.from)
      <4>1. new.from \in Nat /\ slot[s].from \in Nat
        BY <1>4, <2>3, <3>3 DEF SlotShape
      <4> QED BY <2>2, <2>3, <3>3, <4>1 DEF IsBeforeScheduleStart
    <3> QED BY <2>2, <3>4, <3>5, <3>6 DEF IsBeforeScheduleStart
  <2> QED BY <2>4, <2>5
<1>17. Rows'
  BY <1>11, <1>14, <1>15, <1>16 DEF Rows
<1>18. ASSUME NEW q \in Requests \ {p} PROVE ReqOK(q)'
  <2>1. \A u \in Slots : Holds(q, u) => u \notin held
    BY <1>5 DEF IInv, ReqOK
  <2>2. \A u \in Slots : Holds(q, u) => slot'[u] = slot[u]
    BY <1>7, <2>1
  <2>3. \A u \in held : slot'[u].rev = slot[u].rev + 1 /\ slot[u].rev \in Nat
    BY <1>2, <1>3, <1>6, <1>7 DEF Shape, SlotShape
  <2>4. \A u \in Slots : slot'[u] = slot[u] \/ slot'[u].rev > slot[u].rev
    BY <1>7, <2>3
  <2>5. \A r \in Runs : link[r] # None /\ link[r].slot \notin held => link'[r] = link[r] /\ run'[r] = run[r]
    BY <1>4, <1>8, <1>9
  <2>6. \A r \in Runs : link[r] # None /\ link[r].slot \in Slots
                        /\ slot'[link[r].slot] = slot[link[r].slot]
                        => link'[r] = link[r] /\ run'[r] = run[r]
    BY <2>3, <2>5
  <2>7. ASSUME NEW r \in Runs, NEW u \in Slots, Holds(q, u), link'[r] # None, link'[r].slot = u
        PROVE  link'[r] = link[r] /\ run'[r] = run[r]
    <3>1. link[r] # None /\ u # None /\ link[r].slot = u
      BY <1>9, <1>10, <2>7, NoneAssumption
    <3> QED BY <2>1, <2>5, <2>7, <3>1
  <2>8. req'[q] = req[q]
    <3>1. req' = [req EXCEPT ![p] = Idle]
      BY DEF CommitChange
    <3> QED BY <3>1 DEF IInv
  <2>9. \A u \in Slots : slotLock[u] = q => slotLock'[u] = q
    <3>1. Unlock(p)
      BY DEF CommitChange
    <3> QED BY <3>1 DEF Unlock
  <2> QED BY <1>1, <1>8, <1>11, <2>2, <2>4, <2>6, <2>7, <2>8, <2>9, OthersKnowOfSlots
<1>19. req' \in [Requests -> ReqShape] /\ ReqOK(p)'
  BY <1>1, IdleIsOK DEF IInv, ReqShape
<1> QED BY <1>17, <1>18, <1>19 DEF IInv

-----------------------------------------------------------------------------
(* The invariant, and what follows from it. *)

LEMMA InitEstablishesIInv == Init => IInv
<1> SUFFICES ASSUME Init PROVE IInv
  OBVIOUS
<1>1. SlotRows \subseteq SlotShape
  <2>1. Windows \subseteq Nat /\ 0 .. MaxChanges \subseteq Nat
    BY DEF Windows
  <2> QED BY <2>1 DEF SlotRows, SlotShape
<1>2. RunRows \subseteq RunShape
  <2>1. \A n : 0 .. n \subseteq Nat
    OBVIOUS
  <2> QED BY <2>1 DEF RunRows, RunShape
<1>3. /\ now \in 0 .. MaxNow /\ slot \in [Slots -> SlotRows] /\ run \in [Runs -> RunRows]
      /\ link = [r \in Runs |-> None] /\ slotLock = [s \in Slots |-> None]
      /\ req = [p \in Requests |-> Idle] /\ revived = {} /\ late = {}
  BY DEF Init
<1>4. now \in Nat
  BY <1>3
<1>5. slot \in [Slots -> SlotShape] /\ run \in [Runs -> RunShape]
  BY <1>1, <1>2, <1>3
<1>6. link \in [Runs -> LinkRows(Nat) \cup {None}] /\ slotLock \in [Slots -> Requests \cup {None}]
      /\ \A r \in Runs : link[r] = None
  BY <1>3
<1>7. Shape
  BY <1>3, <1>4, <1>5, <1>6 DEF Shape
<1>8. Rows
  BY <1>6, <1>7 DEF Rows, LinkOK, FreedOK, OneRunPerOccurrence, NoOrphan
<1>9. req \in [Requests -> ReqShape] /\ \A p \in Requests : req[p] = Idle
  BY <1>3 DEF ReqShape
<1>10. Idle.op = "idle" /\ "idle" \notin Changes
  BY DEF Idle, Changes
<1>11. \A p \in Requests : ReqOK(p)
  BY <1>9, <1>10 DEF ReqOK, Holds, RetireOK, CoversOrphans, AttachOK, PassOK
<1> QED BY <1>8, <1>9, <1>11 DEF IInv

LEMMA NextKeepsIInv ==
    ASSUME IInv, [Next]_vars
    PROVE  IInv'
<1>1. ASSUME NEW p \in Requests, PassStep(p) PROVE IInv'
  <2>1. CASE EndPass(p)
    BY <2>1, EndKeepsIInv DEF EndPass, rows
  <2> QED BY <1>1, <2>1, StartPassKeepsIInv, CreateEndsKeepIInv, PassStepsKeepIInv,
             CreateScheduleRunKeepsIInv, LoadCreateRunKeepsIInv DEF PassStep
<1>2. ASSUME NEW p \in Requests, ChangeStep(p) PROVE IInv'
  BY <1>2, CommitChangeKeepsIInv, LoadsKeepIInv, LockSlotKeepsIInv DEF ChangeStep
<1>3. ASSUME NEW p \in Requests, AttachStep(p) PROVE IInv'
  BY <1>3, AttachCommitsKeepsIInv, AttachLoadsKeepIInv DEF AttachStep
<1>4. ASSUME NEW p \in Requests, Die(p) PROVE IInv'
  BY <1>4, EndKeepsIInv DEF Die, rows
<1>5. ASSUME NEW s \in Slots,
             ReactivateSlot(s) \/ \E time \in Times, from \in Windows : CreateSlot(s, time, from)
      PROVE  IInv'
  BY <1>5, SlotStepsKeepIInv
<1>6. CASE Tick \/ \E r \in Runs : SignUp(r) \/ CancelRun(r) \/ ReactivateRun(r)
  BY <1>6, RunStepsKeepIInv
<1>7. CASE UNCHANGED vars
  <2>1. /\ UNCHANGED <<now, slot, run, link, revived, late, slotLock, req>>
    BY <1>7 DEF vars, rows
  <2>2. Rows'
    BY <2>1, RowsStay DEF IInv, Rows, Shape
  <2>3. ASSUME NEW q \in Requests PROVE ReqOK(q)'
    BY <2>1, OthersKnow DEF IInv
  <2> QED BY <2>1, <2>2, <2>3 DEF IInv
<1> QED BY <1>1, <1>2, <1>3, <1>4, <1>5, <1>6, <1>7 DEF Next

LEMMA IInvHolds == Spec => []IInv
<1>1. Init => IInv
  BY InitEstablishesIInv
<1>2. IInv /\ [Next]_vars => IInv'
  BY NextKeepsIInv
<1> QED BY <1>1, <1>2, PTL DEF Spec

\* A Run the schedule made, that is still to come and that nobody signed up for,
\* always is the occurrence of an active slot at that time, unless it was brought
\* back after a cancellation: LockSlot decides under the lock of the slot, and
\* CreateScheduleRun reads the slot again under that lock.
THEOREM ScheduleLeavesNoOrphan == Spec => []NoOrphan
<1>1. IInv => NoOrphan
  BY DEF IInv, Rows
<1> QED BY <1>1, IInvHolds, PTL

\* No occurrence ever has two live Runs that were never cancelled, whatever
\* passes, creations, attachments and slot changes overlap
\* (createOpenRunWithScheduleLink, attachExistingRunInTx).
THEOREM AtMostOneRunPerOccurrence == Spec => []OneRunPerOccurrence
<1>1. IInv => OneRunPerOccurrence
  BY DEF IInv, Rows
<1> QED BY <1>1, IInvHolds, PTL

\* A pass covers every slot it is done with: the released window of a slot that
\* stayed as it was listed has its Run, or needs none, or creating it failed
\* (materializeSlotWindowsInternal).
THEOREM PassesLeaveNoGap == Spec => []PassLeavesNoGap
<1>1. ASSUME IInv PROVE PassLeavesNoGap
  <2> SUFFICES ASSUME NEW p \in Requests, req[p].op = "pass",
                      NEW s \in DOMAIN req[p].listed \ (req[p].todo \cup req[p].failed),
                      NEW w \in Windows, IsReleased(w, req[p].at), slot[s] = req[p].listed[s]
               PROVE  \/ Fulfilled(s, w)
                      \/ StartOf(slot[s].time, w) < req[p].at
                      \/ IsBeforeScheduleStart(slot[s], w)
    BY DEF PassLeavesNoGap
  <2>1. Covered(p, s)
    BY <1>1 DEF IInv, ReqOK, PassOK
  <2>2. req[p].at \in Nat /\ w \in Nat
    BY <1>1, Kinds DEF PassShape, Windows
  <2>3. w = ReleasedWindow(req[p].at)
    BY <2>2, ReleasedIsTheOne
  <2> QED BY <2>1, <2>3 DEF Covered
<1> QED BY <1>1, IInvHolds, PTL

\* A slot change takes away no Run that was attached, and none that had a signup
\* when the change looked (retireOwnedDraftsInTx).
THEOREM SignedUpRunsAlwaysSurvive == Spec => SignedUpRunsSurvive
<1> DEFINE Survive == \A r \in Runs :
               IsLive(r) /\ run'[r].archived =>
                   link[r].origin = "MATERIALIZED" /\ (run[r].used => r \in late)
<1>1. ASSUME IInv, Next PROVE Survive \/ UNCHANGED vars
  <2> SUFFICES ASSUME NEW r \in Runs, IsLive(r), run'[r].archived
               PROVE  link[r].origin = "MATERIALIZED" /\ (run[r].used => r \in late)
    OBVIOUS
  <2>1. run \in [Runs -> RunShape] /\ ~run[r].archived
    BY <1>1 DEF IInv, Rows, Shape, IsLive
  <2>2. ASSUME NEW x \in Runs, NEW row, run' = [run EXCEPT ![x] = row], ~row.archived \/ row.archived = run[x].archived
        PROVE  FALSE
    <3>1. run'[r] = run[r] \/ (x = r /\ run'[r] = row)
      BY <2>1, <2>2
    <3> QED BY <2>1, <2>2, <3>1
  <2>3. run' # run
    BY <2>1
  <2>4. \E p \in Requests : CommitChange(p)
    <3>1. \A x \in Runs : ~SignUp(x) /\ ~CancelRun(x) /\ ~ReactivateRun(x)
      <4> SUFFICES ASSUME NEW x \in Runs, SignUp(x) \/ CancelRun(x) \/ ReactivateRun(x) PROVE FALSE
        OBVIOUS
      <4>1. run[x] \in RunShape
        BY <2>1
      <4>2. CASE SignUp(x)
        <5> DEFINE row == [run[x] EXCEPT !.used = TRUE]
        <5>1. run' = [run EXCEPT ![x] = row] /\ row.archived = run[x].archived
          BY <4>1, <4>2 DEF SignUp, SetRun, RunShape
        <5> QED BY <2>2, <5>1
      <4>3. CASE CancelRun(x)
        <5> DEFINE row == [run[x] EXCEPT !.status = "CANCELLED"]
        <5>1. run' = [run EXCEPT ![x] = row] /\ row.archived = run[x].archived
          BY <4>1, <4>3 DEF CancelRun, SetRun, RunShape
        <5> QED BY <2>2, <5>1
      <4>4. CASE ReactivateRun(x)
        <5> DEFINE row == [run[x] EXCEPT !.status = "OPEN", !.archived = FALSE]
        <5>1. run' = [run EXCEPT ![x] = row] /\ ~row.archived
          BY <4>1, <4>4 DEF ReactivateRun, SetRun, RunShape
        <5> QED BY <2>2, <5>1
      <4> QED BY <4>2, <4>3, <4>4
    <3>2. \A p \in Requests, x \in Runs : ~CreateScheduleRun(p, x)
      <4> SUFFICES ASSUME NEW p \in Requests, NEW x \in Runs, CreateScheduleRun(p, x) PROVE FALSE
        OBVIOUS
      <4> DEFINE row == [status |-> "OPEN", archived |-> FALSE, used |-> FALSE,
                         start |-> StartOf(req[p].plan.time, req[p].plan.window)]
      <4>1. run' = [run EXCEPT ![x] = row] /\ ~row.archived
        BY DEF CreateScheduleRun
      <4> HIDE DEF row
      <4> QED BY <2>2, <4>1
    <3>3. \A p \in Requests : PassStep(p) => \E x \in Runs : CreateScheduleRun(p, x)
      BY <2>3 DEF PassStep, StartPass, EndPass, CreateIsRefused, CreateFails, PassSkips, PassPlans,
                  LoadCreateRun, rows
    <3>4. \A p \in Requests : ChangeStep(p) => CommitChange(p)
      <4>1. ASSUME NEW p, NEW op, NEW S, NEW new, BeginChange(p, op, S, new) PROVE FALSE
        BY <2>3, <4>1 DEF BeginChange, rows
      <4>2. \A p, s : ~LockSlot(p, s)
        BY <2>3 DEF LockSlot, rows
      <4>3. \A p, s : ~LoadDeactivateSlot(p, s) /\ ~LoadDeleteSlot(p, s) /\ ~LoadDeleteRunSetup(p)
        BY <4>1 DEF LoadDeactivateSlot, LoadDeleteSlot, LoadDeleteRunSetup
      <4>4. \A p, s, time, from : ~LoadUpdateSlot(p, s, time, from)
        BY <4>1 DEF LoadUpdateSlot
      <4> QED BY <4>2, <4>3, <4>4 DEF ChangeStep
    <3>5. \A p \in Requests : ~AttachStep(p) /\ ~Die(p)
      <4>1. \A p : ~AttachCommits(p) /\ ~Die(p)
        BY <2>3 DEF AttachCommits, Die, rows
      <4>2. \A p, s, x : ~AttachReads(p, s, x)
        BY <2>3 DEF AttachReads, rows
      <4>3. \A p, s, x, time, from : ~CreateSlotReads(p, s, x, time, from)
        BY <2>3 DEF CreateSlotReads, rows
      <4> QED BY <4>1, <4>2, <4>3 DEF AttachStep
    <3>6. /\ ~Tick /\ \A s \in Slots : /\ ~ReactivateSlot(s)
                                      /\ \A time \in Times, from \in Windows : ~CreateSlot(s, time, from)
      BY <2>3 DEF Tick, ReactivateSlot, CreateSlot, rows
    <3> QED BY <1>1, <3>1, <3>2, <3>3, <3>4, <3>5, <3>6 DEF Next
  <2>5. PICK p \in Requests : CommitChange(p)
    BY <2>4
  <2>6. req[p].op \in Changes /\ r \in req[p].retire
    <3>1. run'[r] = IF r \in req[p].retire
                    THEN [run[r] EXCEPT !.status = "CANCELLED", !.archived = TRUE] ELSE run[r]
      BY <2>5 DEF CommitChange
    <3> QED BY <2>1, <2>5, <3>1 DEF CommitChange
  <2> QED BY <1>1, <2>6 DEF IInv, ReqOK, RetireOK
<1>2. IInv /\ [Next]_vars => [Survive]_vars
  BY <1>1
<1>3. Spec => [][Survive]_vars
  BY <1>2, IInvHolds, PTL DEF Spec
<1> QED BY <1>3 DEF SignedUpRunsSurvive
=============================================================================
