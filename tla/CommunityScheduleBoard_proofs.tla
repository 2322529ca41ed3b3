------------------- MODULE CommunityScheduleBoard_proofs -------------------
(***************************************************************************)
(* TLAPS proofs about CommunitySchedule: every variable keeps its type, and *)
(* the schedule implements ScheduleBoard.                                   *)
(*                                                                         *)
(* The shapes come from CommunitySchedule_proofs; what is left of the types *)
(* are the bounds.  Windows are bounded by the clock: whoever makes a       *)
(* window looks at most one past the current one, and a Run starts in the   *)
(* window it is made for.  The version of a slot is bounded by the changes: *)
(* it counts those that were committed, and a change under way has been     *)
(* counted.                                                                 *)
(*                                                                         *)
(* A request implements one step of the board, its commit.  What it decided *)
(* before, under the lock of the slot, is right for the board as it is then *)
(* (Decided), because nobody else changes the slot or links a Run to it.    *)
(***************************************************************************)
EXTENDS CommunitySchedule_proofs, FiniteSetTheorems

LastWindow == (MaxNow \div Week) + 1
RowInBounds(row) == row.from <= LastWindow /\ row.rev <= MaxChanges

RowsInBounds ==
    /\ now <= MaxNow
    /\ jobLock \in Requests \cup {None}
    /\ \A s \in Slots : slot[s].from <= LastWindow
    /\ \A r \in Runs : run[r].start < (LastWindow + 1) * Week
    /\ \A r \in Runs : link[r] # None => link[r].window <= LastWindow

RequestInBounds(p) ==
    /\ req[p].op = "pass" => /\ req[p].at <= MaxNow
                             /\ \A s \in DOMAIN req[p].listed : RowInBounds(req[p].listed[s])
    /\ req[p].op \in {"pass", "createRun"} /\ req[p].plan # None => req[p].plan.window <= LastWindow
    /\ req[p].op = "updateSlot" => RowInBounds(req[p].new)
    /\ req[p].op \in Changes \ {"updateSlot"} => req[p].new = None
    /\ req[p].op = "attach" => RowInBounds(req[p].row)

Changing == {p \in Requests : req[p].op \in Changes}
ChangesCounted ==
    /\ IsFiniteSet(Changing)
    /\ changes \in 0 .. MaxChanges
    /\ \A s \in Slots : slot[s].rev + Cardinality(Changing) <= changes

InBounds == RowsInBounds /\ (\A p \in Requests : RequestInBounds(p)) /\ ChangesCounted

LEMMA ClockIsNumbered ==
    /\ Week \in Nat \ {0} /\ MaxNow \in Nat /\ MaxChanges \in Nat
    /\ LastWindow \in Nat /\ Windows = 0 .. LastWindow
    /\ MaxNow < LastWindow * Week
<1>1. Week \in Nat \ {0} /\ MaxNow \in Nat /\ MaxChanges \in Nat
  BY ScheduleAssumption
<1> DEFINE q == MaxNow \div Week
<1>2. q \in Nat /\ MaxNow < q * Week + Week
  BY <1>1, DivFacts
<1>3. LastWindow = q + 1 /\ Windows = 0 .. LastWindow
  BY DEF LastWindow, Windows
<1> HIDE DEF q
<1>4. (q + 1) * Week = q * Week + Week
  BY <1>1, <1>2
<1> QED BY <1>1, <1>2, <1>3, <1>4

\* A time before the end of window n lies in window n or earlier.
LEMMA WindowsBelow ==
    ASSUME NEW t \in Nat, NEW n \in Nat, t < (n + 1) * Week
    PROVE  WindowOf(t) \in Nat /\ WindowOf(t) <= n
<1> DEFINE w == WindowOf(t)
<1>1. Week \in Nat \ {0}
  BY ScheduleAssumption
<1>2. w \in Nat /\ w * Week <= t
  BY <1>1, DivFacts DEF WindowOf
<1> HIDE DEF w
<1>3. ~(n < w)
  <2> SUFFICES ASSUME n < w PROVE FALSE
    OBVIOUS
  <2>1. n * Week + Week <= w * Week /\ n * Week \in Int /\ w * Week \in Int
    BY <1>2, WeeksInOrder
  <2>2. (n + 1) * Week = n * Week + Week
    BY <1>1
  <2> QED BY <1>1, <1>2, <2>1, <2>2
<1>4. w \in Nat /\ w <= n
  BY <1>2, <1>3
<1> QED BY <1>4 DEF w

\* From the clock nobody sees further than the last window.
LEMMA WindowsInSight ==
    ASSUME NEW t \in Nat, t <= MaxNow
    PROVE  /\ WindowOf(t) + 1 \in Nat /\ WindowOf(t) + 1 <= LastWindow
           /\ ReleasedWindow(t) <= LastWindow
<1>1. /\ LastWindow - 1 \in Nat /\ (LastWindow - 1) + 1 = LastWindow /\ MaxNow \in Nat
      /\ LastWindow * Week \in Int
  <2>1. MaxNow \div Week \in Nat
    BY DivFacts, ClockIsNumbered
  <2> QED BY <2>1, ClockIsNumbered DEF LastWindow
<1>2. t < ((LastWindow - 1) + 1) * Week
  BY <1>1, ClockIsNumbered
<1>3. WindowOf(t) \in Nat /\ WindowOf(t) <= LastWindow - 1
  BY <1>1, <1>2, WindowsBelow
<1>4. LastWindow \in Nat
  BY ClockIsNumbered
<1> QED BY <1>3, <1>4, WindowsAreNumbers

\* An occurrence lies in its window.
LEMMA StartsInBounds ==
    ASSUME NEW time \in Times, NEW w \in Nat, w <= LastWindow
    PROVE  StartOf(time, w) < (LastWindow + 1) * Week
<1>1. Week \in Nat \ {0} /\ LastWindow \in Nat
  BY ClockIsNumbered
<1>2. time \in Nat /\ time < Week
  BY ScheduleAssumption
<1>3. w * Week + Week <= (LastWindow + 1) * Week /\ w * Week \in Int /\ (LastWindow + 1) * Week \in Int
  BY <1>1, WeeksInOrder
<1> QED BY <1>1, <1>2, <1>3 DEF StartOf

\* The version of a slot stays below the bound.
LEMMA RevsInBounds ==
    ASSUME IInv, ChangesCounted, NEW s \in Slots
    PROVE  slot[s].rev \in Nat /\ slot[s].rev <= MaxChanges
<1>1. slot[s].rev \in Nat
  BY DEF IInv, Rows, Shape, SlotShape
<1>2. Cardinality(Changing) \in Nat
  BY FS_CardinalityType DEF ChangesCounted
<1>3. /\ changes \in Nat /\ changes <= MaxChanges /\ slot[s].rev + Cardinality(Changing) <= changes
      /\ MaxChanges \in Nat
  BY ClockIsNumbered DEF ChangesCounted
<1> QED BY <1>1, <1>2, <1>3

\* Nobody begins or ends a change: a slot gets a new version only when a change
\* is counted with it.
LEMMA CountStays ==
    ASSUME IInv, ChangesCounted, Changing' = Changing,
           \/ changes' = changes /\ \A s \in Slots : slot'[s].rev = slot[s].rev
           \/ /\ changes < MaxChanges /\ changes' = changes + 1
              /\ \A s \in Slots : slot'[s].rev \in {slot[s].rev, slot[s].rev + 1}
    PROVE  ChangesCounted'
<1>1. Cardinality(Changing) \in Nat
  BY FS_CardinalityType DEF ChangesCounted
<1>2. \A s \in Slots : slot[s].rev \in Nat
  BY RevsInBounds
<1>3. changes \in Nat /\ MaxChanges \in Nat
  BY ClockIsNumbered DEF ChangesCounted
<1>4. changes' \in 0 .. MaxChanges
  BY <1>3 DEF ChangesCounted
<1>5. ASSUME NEW s \in Slots PROVE slot'[s].rev + Cardinality(Changing) <= changes'
  BY <1>1, <1>2, <1>3 DEF ChangesCounted
<1> QED BY <1>4, <1>5 DEF ChangesCounted

LEMMA CountBegins ==
    ASSUME IInv, ChangesCounted, NEW p \in Requests, Changing' = Changing \cup {p},
           changes < MaxChanges, changes' = changes + 1, UNCHANGED slot
    PROVE  ChangesCounted'
<1>1. /\ IsFiniteSet(Changing') /\ Cardinality(Changing) \in Nat
      /\ Cardinality(Changing') \in {Cardinality(Changing), Cardinality(Changing) + 1}
  BY FS_CardinalityType, FS_AddElement DEF ChangesCounted
<1>2. \A s \in Slots : slot[s].rev \in Nat
  BY RevsInBounds
<1>3. changes \in Nat /\ MaxChanges \in Nat
  BY ClockIsNumbered DEF ChangesCounted
<1>4. changes' \in 0 .. MaxChanges
  BY <1>3
<1> HIDE DEF Changing
<1>5. ASSUME NEW s \in Slots PROVE slot'[s].rev + Cardinality(Changing') <= changes'
  <2>1. slot[s].rev + Cardinality(Changing) <= changes
    BY DEF ChangesCounted
  <2> QED BY <1>1, <1>2, <1>3, <2>1
<1> QED BY <1>1, <1>4, <1>5 DEF ChangesCounted

\* A change ends, with a new version of its slots or without.
LEMMA CountEnds ==
    ASSUME IInv, ChangesCounted, NEW p \in Requests, Changing' = Changing \ {p}, UNCHANGED changes,
           \A s \in Slots : slot'[s].rev = slot[s].rev \/ (p \in Changing /\ slot'[s].rev = slot[s].rev + 1)
    PROVE  ChangesCounted'
<1>1. /\ IsFiniteSet(Changing') /\ Cardinality(Changing) \in Nat
      /\ Cardinality(Changing') = IF p \in Changing THEN Cardinality(Changing) - 1 ELSE Cardinality(Changing)
  BY FS_CardinalityType, FS_RemoveElement DEF ChangesCounted
<1>2. \A s \in Slots : slot[s].rev \in Nat
  BY RevsInBounds
<1>3. changes \in Nat /\ MaxChanges \in Nat
  BY ClockIsNumbered DEF ChangesCounted
<1> HIDE DEF Changing
<1>4. ASSUME NEW s \in Slots PROVE slot'[s].rev + Cardinality(Changing') <= changes'
  <2>1. slot[s].rev + Cardinality(Changing) <= changes
    BY DEF ChangesCounted
  <2> QED BY <1>1, <1>2, <1>3, <2>1
<1> QED BY <1>1, <1>4 DEF ChangesCounted

\* A request that is no change goes on, and writes no row.
LEMMA QuietKeepsBounds ==
    ASSUME IInv, InBounds, NEW p \in Requests, req[p].op \notin Changes, req'[p].op \notin Changes,
           \A q \in Requests \ {p} : req'[q] = req[q],
           UNCHANGED <<now, slot, run, link, changes>>, jobLock' \in Requests \cup {None},
           RequestInBounds(p)'
    PROVE  InBounds'
<1>1. RowsInBounds'
  BY DEF InBounds, RowsInBounds
<1>2. \A q \in Requests : RequestInBounds(q)'
  BY DEF InBounds, RequestInBounds
<1>3. Changing' = Changing
  BY DEF Changing
<1>4. ChangesCounted'
  BY <1>3, CountStays DEF InBounds
<1> QED BY <1>1, <1>2, <1>4 DEF InBounds

LEMMA PassKeepsBounds ==
    ASSUME IInv, InBounds, NEW p \in Requests,
           StartPass(p) \/ EndPass(p) \/ \E s \in Slots : PassSkips(p, s) \/ PassPlans(p, s)
    PROVE  InBounds'
<1>0. "pass" \notin Changes /\ "idle" \notin Changes /\ Idle.op = "idle"
  BY DEF Changes, Idle
<1>1. req[p] = Idle \/ (req[p].op = "pass" /\ req[p] \in PassShape)
  BY Kinds DEF StartPass, Begin, EndPass, PassSkips, PassPlans, NextInPass
<1>2. UNCHANGED <<now, slot, run, link, changes>> /\ jobLock' \in Requests \cup {None}
  BY DEF StartPass, EndPass, PassSkips, PassPlans, rows, InBounds, RowsInBounds
<1>3. \A q \in Requests \ {p} : req'[q] = req[q]
  BY DEF StartPass, Begin, EndPass, PassSkips, PassPlans, IInv
<1>4. CASE StartPass(p)
  <2> DEFINE due == {u \in Slots : slot[u].there /\ slot[u].isActive}
             x == [op |-> "pass", at |-> now, listed |-> [u \in due |-> slot[u]], todo |-> due,
                   failed |-> {}, plan |-> None]
  <2>1. req'[p] = x
    BY <1>4 DEF StartPass, Begin, IInv
  <2>2. \A u \in Slots : RowInBounds(slot[u])
    BY RevsInBounds DEF RowInBounds, InBounds, RowsInBounds
  <2>3. x.op = "pass" /\ x.at = now /\ x.plan = None /\ \A u \in DOMAIN x.listed : RowInBounds(x.listed[u])
    BY <2>2
  <2> HIDE DEF x
  <2>4. RequestInBounds(p)'
    BY <1>0, <2>1, <2>3 DEF RequestInBounds, InBounds, RowsInBounds
  <2> QED BY <1>0, <1>1, <1>2, <1>3, <2>1, <2>3, <2>4, QuietKeepsBounds
<1>5. CASE EndPass(p)
  <2>1. req'[p] = Idle
    BY <1>5 DEF EndPass, IInv
  <2>2. RequestInBounds(p)'
    BY <1>0, <2>1 DEF RequestInBounds
  <2> QED BY <1>0, <1>1, <1>2, <1>3, <2>1, <2>2, QuietKeepsBounds
<1>6. ASSUME NEW s \in Slots, PassSkips(p, s) \/ PassPlans(p, s) PROVE InBounds'
  <2>1. req[p].op = "pass" /\ req[p] \in PassShape /\ req[p].plan = None
    BY <1>6, Kinds DEF PassSkips, PassPlans, NextInPass
  <2>2. req[p].at \in Nat /\ req[p].at <= MaxNow /\ \A u \in DOMAIN req[p].listed : RowInBounds(req[p].listed[u])
    BY <2>1 DEF InBounds, RequestInBounds, PassShape
  <2>3. ReleasedWindow(req[p].at) <= LastWindow
    BY <2>2, WindowsInSight
  <2>4. /\ req'[p].op = "pass" /\ req'[p].at = req[p].at /\ req'[p].listed = req[p].listed
        /\ req'[p].plan # None => req'[p].plan.window = ReleasedWindow(req[p].at)
    BY <1>6, <2>1 DEF PassSkips, PassPlans, IInv, PassShape
  <2>5. RequestInBounds(p)'
    BY <1>0, <2>2, <2>3, <2>4 DEF RequestInBounds
  <2> QED BY <1>0, <1>2, <1>3, <2>1, <2>4, <2>5, QuietKeepsBounds
<1> QED BY <1>4, <1>5, <1>6

\* The outcome of a creation.
LEMMA CreatedInBounds ==
    ASSUME IInv, InBounds, NEW p \in Requests, Creating(p), NEW failed \in SUBSET Slots,
           req' = Created(p, failed)
    PROVE  /\ \A q \in Requests \ {p} : req'[q] = req[q]
           /\ req[p].op \notin Changes /\ req'[p].op \notin Changes
           /\ req[p].plan \in Plans(Nat) /\ req[p].plan.window <= LastWindow
           /\ RequestInBounds(p)'
<1>0. "pass" \notin Changes /\ "createRun" \notin Changes /\ "idle" \notin Changes /\ Idle.op = "idle"
  BY DEF Changes, Idle
<1>1. req[p].op \in {"pass", "createRun"} /\ req[p].plan # None /\ req[p].plan.window <= LastWindow
  BY DEF Creating, InBounds, RequestInBounds
<1>2. req[p].plan \in Plans(Nat) /\ \A q \in Requests \ {p} : req'[q] = req[q]
  BY CreatedRequest
<1>3. CASE req[p].op = "createRun"
  <2>1. req'[p] = Idle
    BY <1>3, CreatedRequest DEF IInv
  <2> QED BY <1>0, <1>1, <1>2, <2>1 DEF RequestInBounds
<1>4. CASE req[p].op = "pass"
  <2>1. PICK x \in PassShape : req'[p] = x /\ x.listed = req[p].listed /\ x.at = req[p].at /\ x.plan = None
    BY <1>4, CreatedRequest
  <2>2. req'[p].op = "pass"
    BY <2>1 DEF PassShape
  <2>3. RequestInBounds(p)'
    BY <1>0, <1>4, <2>1, <2>2 DEF RequestInBounds, InBounds
  <2> QED BY <1>0, <1>1, <1>2, <1>4, <2>2, <2>3
<1> QED BY <1>1, <1>3, <1>4

LEMMA CreateEndsKeepBounds ==
    ASSUME IInv, InBounds, NEW p \in Requests, CreateIsRefused(p) \/ CreateFails(p)
    PROVE  InBounds'
<1>1. Creating(p) /\ UNCHANGED <<now, slot, run, link, jobLock, changes>>
  BY DEF CreateIsRefused, CreateFails, rows
<1>2. PICK failed \in SUBSET Slots : req' = Created(p, failed)
  <2>1. req[p].plan.slot \in Slots
    BY <1>1, Kinds DEF Creating, PassShape, CreateShape, Plans
  <2>2. {req[p].plan.slot} \in SUBSET Slots /\ {} \in SUBSET Slots
    BY <2>1
  <2> QED BY <2>2 DEF CreateIsRefused, CreateFails
<1>3. jobLock' \in Requests \cup {None}
  BY <1>1 DEF InBounds, RowsInBounds
<1> QED BY <1>1, <1>2, <1>3, CreatedInBounds, QuietKeepsBounds

LEMMA CreateScheduleRunKeepsBounds ==
    ASSUME IInv, InBounds, NEW p \in Requests, NEW r \in Runs, CreateScheduleRun(p, r)
    PROVE  InBounds'
<1> DEFINE plan == req[p].plan
           w == plan.window
<1>1. Creating(p) /\ req' = Created(p, {}) /\ UNCHANGED <<now, slot, jobLock, changes>>
  BY DEF CreateScheduleRun
<1>2. /\ \A q \in Requests \ {p} : req'[q] = req[q]
      /\ req[p].op \notin Changes /\ req'[p].op \notin Changes
      /\ plan \in Plans(Nat) /\ w <= LastWindow
      /\ RequestInBounds(p)'
  BY <1>1, CreatedInBounds
<1>3. StartOf(plan.time, w) < (LastWindow + 1) * Week
  BY <1>2, StartsInBounds DEF Plans
<1>4. \A x \in Runs : run'[x].start = run[x].start \/ run'[x].start = StartOf(plan.time, w)
  BY DEF CreateScheduleRun, IInv, Rows, Shape
<1>5. \A x \in Runs : link'[x] = link[x] \/ link'[x].window = w
  BY DEF CreateScheduleRun, IInv, Rows, Shape
<1>6. RowsInBounds'
  BY <1>1, <1>2, <1>3, <1>4, <1>5 DEF InBounds, RowsInBounds
<1>7. \A q \in Requests : RequestInBounds(q)'
  BY <1>2 DEF InBounds, RequestInBounds
<1>8. Changing' = Changing
  BY <1>2 DEF Changing
<1>9. ChangesCounted'
  BY <1>1, <1>8, CountStays DEF InBounds
<1> QED BY <1>6, <1>7, <1>9 DEF InBounds

LEMMA LoadCreateRunKeepsBounds ==
    ASSUME IInv, InBounds, NEW p \in Requests, NEW s \in Slots, NEW w \in Windows, LoadCreateRun(p, s, w)
    PROVE  InBounds'
<1> DEFINE x == [op |-> "createRun", plan |-> [slot |-> s, window |-> w, time |-> slot[s].time]]
<1>1. /\ req[p] = Idle /\ req'[p] = x /\ \A q \in Requests \ {p} : req'[q] = req[q]
      /\ UNCHANGED <<now, slot, run, link, jobLock, changes>>
  BY DEF LoadCreateRun, Begin, rows, IInv
<1>2. w <= LastWindow
  BY ClockIsNumbered
<1>3. x.op = "createRun" /\ x.plan.window <= LastWindow
  BY <1>2
<1> HIDE DEF x
<1>4. Idle.op \notin Changes /\ "createRun" \notin Changes
  BY DEF Changes, Idle
<1>5. RequestInBounds(p)' /\ jobLock' \in Requests \cup {None}
  BY <1>1, <1>3, <1>4 DEF RequestInBounds, InBounds, RowsInBounds
<1> QED BY <1>1, <1>3, <1>4, <1>5, QuietKeepsBounds

LEMMA BeginChangeKeepsBounds ==
    ASSUME IInv, InBounds, NEW p \in Requests, NEW op \in Changes, NEW S \in SUBSET Slots, NEW new,
           IF op = "updateSlot" THEN RowInBounds(new) ELSE new = None, BeginChange(p, op, S, new)
    PROVE  InBounds'
<1> DEFINE x == [op |-> op, at |-> now, order |-> [s \in S |-> slot[s].time], todo |-> S,
                 held |-> {}, new |-> new, retire |-> {}]
<1>1. /\ req[p] = Idle /\ req'[p] = x /\ \A q \in Requests \ {p} : req'[q] = req[q]
      /\ changes < MaxChanges /\ changes' = changes + 1
      /\ UNCHANGED <<now, slot, run, link, jobLock>>
  BY DEF BeginChange, CanChange, Begin, rows, IInv
<1>2. x.op = op /\ x.new = new
  OBVIOUS
<1> HIDE DEF x
<1>3. "pass" \notin Changes /\ "createRun" \notin Changes /\ "attach" \notin Changes
  BY DEF Changes
<1>4. RequestInBounds(p)'
  BY <1>1, <1>2, <1>3 DEF RequestInBounds
<1>5. \A q \in Requests : RequestInBounds(q)'
  BY <1>1, <1>4 DEF InBounds, RequestInBounds
<1>6. RowsInBounds'
  BY <1>1 DEF InBounds, RowsInBounds
<1>7. Changing' = Changing \cup {p}
  BY <1>1, <1>2 DEF Changing
<1>8. ChangesCounted'
  BY <1>1, <1>7, CountBegins DEF InBounds
<1> QED BY <1>5, <1>6, <1>8 DEF InBounds

LEMMA LoadsKeepBounds ==
    ASSUME IInv, InBounds, NEW p \in Requests,
           \/ LoadDeleteRunSetup(p)
           \/ \E s \in Slots : \/ LoadDeactivateSlot(p, s) \/ LoadDeleteSlot(p, s)
                               \/ \E time \in Times, from \in Windows : LoadUpdateSlot(p, s, time, from)
    PROVE  InBounds'
<1>1. {"updateSlot", "deactivateSlot", "deleteSlot", "deleteRunSetup"} \subseteq Changes
  BY DEF Changes
<1>2. CASE LoadDeleteRunSetup(p)
  <2> DEFINE S == {s \in Slots : slot[s].there}
  <2>1. BeginChange(p, "deleteRunSetup", S, None)
    BY <1>2 DEF LoadDeleteRunSetup
  <2> QED BY <1>1, <2>1, BeginChangeKeepsBounds
<1>3. ASSUME NEW s \in Slots, LoadDeactivateSlot(p, s) \/ LoadDeleteSlot(p, s) PROVE InBounds'
  <2>1. {s} \in SUBSET Slots
    OBVIOUS
  <2>2. \E op \in {"deactivateSlot", "deleteSlot"} : BeginChange(p, op, {s}, None)
    BY <1>3 DEF LoadDeactivateSlot, LoadDeleteSlot
  <2> QED BY <1>1, <2>1, <2>2, BeginChangeKeepsBounds
<1>4. ASSUME NEW s \in Slots, NEW time \in Times, NEW from \in Windows, LoadUpdateSlot(p, s, time, from)
      PROVE  InBounds'
  <2> DEFINE new == [slot[s] EXCEPT !.time = time, !.from = from]
  <2>1. new.from = from /\ new.rev = slot[s].rev
    BY DEF IInv, Rows, Shape, SlotShape
  <2>2. BeginChange(p, "updateSlot", {s}, new) /\ {s} \in SUBSET Slots
    BY <1>4, UpdateSlotBegins
  <2> HIDE DEF new
  <2>3. from <= LastWindow /\ slot[s].rev <= MaxChanges
    BY ClockIsNumbered, RevsInBounds DEF InBounds
  <2>4. RowInBounds(new)
    BY <2>1, <2>3 DEF RowInBounds
  <2> QED BY <1>1, <2>2, <2>4, BeginChangeKeepsBounds
<1> QED BY <1>2, <1>3, <1>4

LEMMA LockSlotKeepsBounds ==
    ASSUME IInv, InBounds, NEW p \in Requests, NEW s \in Slots, LockSlot(p, s)
    PROVE  InBounds'
<1>1. req[p].op \in Changes /\ req[p] \in ChangeShape
  BY Kinds DEF LockSlot
<1>2. /\ req'[p].op = req[p].op /\ req'[p].new = req[p].new
      /\ \A q \in Requests \ {p} : req'[q] = req[q]
      /\ UNCHANGED <<now, slot, run, link, jobLock, changes>>
  BY <1>1 DEF LockSlot, rows, IInv, ChangeShape
<1>3. "pass" \notin Changes /\ "createRun" \notin Changes /\ "attach" \notin Changes
  BY DEF Changes
<1>4. \A q \in Requests : RequestInBounds(q)'
  BY <1>1, <1>2, <1>3 DEF InBounds, RequestInBounds
<1>5. RowsInBounds'
  BY <1>2 DEF InBounds, RowsInBounds
<1>6. Changing' = Changing
  BY <1>1, <1>2 DEF Changing
<1>7. ChangesCounted'
  BY <1>2, <1>6, CountStays DEF InBounds
<1> QED BY <1>4, <1>5, <1>7 DEF InBounds

\* A commit writes what the request was loaded with, and counts each slot once.
LEMMA CommitChangeKeepsBounds ==
    ASSUME IInv, InBounds, NEW p \in Requests, CommitChange(p)
    PROVE  InBounds'
<1>0. /\ req[p].op \in Changes /\ req' = [req EXCEPT ![p] = Idle]
      /\ slot' = [s \in Slots |-> IF s \in req[p].held THEN ChangedSlot(p, s) ELSE slot[s]]
      /\ run' = [r \in Runs |-> IF r \in req[p].retire
                                THEN [run[r] EXCEPT !.status = "CANCELLED", !.archived = TRUE]
                                ELSE run[r]]
      /\ link' = [r \in Runs |-> FreedLink(p, r)]
      /\ UNCHANGED <<now, jobLock, changes>>
  BY CommitWrites
<1>1. req[p].op \in Changes /\ req[p] \in ChangeShape
  BY <1>0, Kinds
<1>2. req'[p] = Idle /\ \A q \in Requests \ {p} : req'[q] = req[q]
  BY <1>0 DEF IInv
<1>3. Idle.op = "idle" /\ "idle" \notin Changes
  BY DEF Idle, Changes
<1>4. \A q \in Requests : RequestInBounds(q)'
  BY <1>2, <1>3 DEF InBounds, RequestInBounds
<1>5. ASSUME NEW s \in Slots
      PROVE  /\ slot'[s].from <= LastWindow
             /\ slot'[s].rev = slot[s].rev \/ (p \in Changing /\ slot'[s].rev = slot[s].rev + 1)
  <2>1. slot'[s] = IF s \in req[p].held THEN ChangedSlot(p, s) ELSE slot[s]
    BY <1>0
  <2>2. slot[s] \in SlotShape /\ slot[s].from <= LastWindow
    BY DEF IInv, Rows, Shape, InBounds, RowsInBounds
  <2>3. ASSUME s \in req[p].held
        PROVE  ChangedSlot(p, s).rev = slot[s].rev + 1 /\ ChangedSlot(p, s).from <= LastWindow
    <3>1. CASE req[p].op = "updateSlot"
      <4>1. req[p].new.from <= LastWindow
        BY <3>1 DEF InBounds, RequestInBounds, RowInBounds
      <4> QED BY <2>2, <3>1, <4>1 DEF ChangedSlot, SlotShape
    <3>2. CASE req[p].op # "updateSlot"
      BY <2>2, <3>2 DEF ChangedSlot, SlotShape
    <3> QED BY <3>1, <3>2
  <2> QED BY <1>1, <2>1, <2>2, <2>3 DEF Changing
<1>6. \A r \in Runs : run'[r].start = run[r].start
  BY <1>0 DEF IInv, Rows, Shape, RunShape
<1>7. \A r \in Runs : link'[r] # None => link[r] # None /\ link'[r].window = link[r].window
  <2>1. \A r \in req[p].retire : link[r] # None
    BY <1>1 DEF IInv, ReqOK, RetireOK
  <2>2. ASSUME NEW r \in Runs, link'[r] # None
        PROVE  link[r] # None /\ link'[r].window = link[r].window
    <3>1. link'[r] = FreedLink(p, r)
      BY <1>0
    <3>2. link[r] # None => link[r] \in LinkRows(Nat)
      BY DEF IInv, Rows, Shape
    <3> QED BY <2>1, <2>2, <3>1, <3>2 DEF FreedLink, LinkRows
  <2> QED BY <2>2
<1>8. RowsInBounds'
  BY <1>0, <1>5, <1>6, <1>7 DEF InBounds, RowsInBounds
<1>9. Changing' = Changing \ {p}
  BY <1>2, <1>3 DEF Changing
<1>10. ChangesCounted'
  BY <1>0, <1>5, <1>9, CountEnds DEF InBounds
<1> QED BY <1>4, <1>8, <1>10 DEF InBounds

\* The slot of an attachment is what it read, or its own new one.
LEMMA AttachKeepsBounds ==
    ASSUME IInv, InBounds, NEW p \in Requests, AttachCommits(p)
    PROVE  InBounds'
<1> DEFINE s == req[p].slot
           r == req[p].run
<1>1. /\ req[p].op = "attach" /\ req' = [req EXCEPT ![p] = Idle]
      /\ slot' = [slot EXCEPT ![s] = req[p].row]
      /\ link' = [link EXCEPT ![r] = [slot |-> s, of |-> s, window |-> WindowOf(run[r].start),
                                      time |-> req[p].row.time, origin |-> "ATTACHED"]]
      /\ UNCHANGED <<now, run, jobLock, changes>>
  BY DEF AttachCommits
<1>2. req[p] \in AttachShape /\ req[p].op \notin Changes
  BY <1>1, Kinds
<1>3. s \in Slots /\ r \in Runs
  BY <1>2 DEF AttachShape
<1>4. Idle.op = "idle" /\ "idle" \notin Changes
  BY DEF Idle, Changes
<1>5. req'[p] = Idle /\ \A q \in Requests \ {p} : req'[q] = req[q]
  BY <1>1 DEF IInv
<1>6. \A q \in Requests : RequestInBounds(q)'
  BY <1>4, <1>5 DEF InBounds, RequestInBounds
<1>7. req[p].row.from <= LastWindow /\ req[p].row.rev = slot[s].rev
  BY <1>1, <1>3 DEF InBounds, RequestInBounds, RowInBounds, IInv, ReqOK, AttachOK
<1>8. \A u \in Slots : slot'[u] = IF u = s THEN req[p].row ELSE slot[u]
  BY <1>1 DEF IInv, Rows, Shape
<1>9. WindowOf(run[r].start) <= LastWindow
  <2>1. run[r].start \in Nat /\ run[r].start < (LastWindow + 1) * Week
    BY <1>3 DEF IInv, Rows, Shape, RunShape, InBounds, RowsInBounds
  <2> QED BY <2>1, WindowsBelow, ClockIsNumbered
<1>10. \A x \in Runs : link'[x] = link[x] \/ link'[x].window = WindowOf(run[r].start)
  BY <1>1 DEF IInv, Rows, Shape
<1>11. RowsInBounds'
  BY <1>1, <1>7, <1>8, <1>9, <1>10 DEF InBounds, RowsInBounds
<1>12. Changing' = Changing
  BY <1>2, <1>4, <1>5 DEF Changing
<1>13. ChangesCounted'
  BY <1>1, <1>7, <1>8, <1>12, CountStays DEF InBounds
<1> QED BY <1>6, <1>11, <1>13 DEF InBounds

\* Attachments read the slot they lock, or make a new one.
LEMMA AttachLoadsKeepBounds ==
    ASSUME IInv, InBounds, NEW p \in Requests, NEW s \in Slots, NEW r \in Runs,
           AttachReads(p, s, r) \/ \E time \in Times, from \in Windows : CreateSlotReads(p, s, r, time, from)
    PROVE  InBounds'
<1>1. PICK row : /\ Begin(p, [op |-> "attach", slot |-> s, row |-> row, run |-> r])
                 /\ RowInBounds(row)
  <2>1. CASE AttachReads(p, s, r)
    <3>1. RowInBounds(slot[s])
      BY RevsInBounds DEF RowInBounds, InBounds, RowsInBounds
    <3> QED BY <2>1, <3>1 DEF AttachReads
  <2>2. ASSUME NEW time \in Times, NEW from \in Windows, CreateSlotReads(p, s, r, time, from)
        PROVE  \E row : /\ Begin(p, [op |-> "attach", slot |-> s, row |-> row, run |-> r])
                        /\ RowInBounds(row)
    <3> DEFINE row == [there |-> TRUE, isActive |-> TRUE, time |-> time, from |-> from, rev |-> 0]
    <3>1. Begin(p, [op |-> "attach", slot |-> s, row |-> row, run |-> r])
      BY <2>2 DEF CreateSlotReads
    <3>2. row.from <= LastWindow /\ row.rev <= MaxChanges
      BY ClockIsNumbered
    <3> QED BY <3>1, <3>2 DEF RowInBounds
  <2> QED BY <2>1, <2>2
<1> DEFINE x == [op |-> "attach", slot |-> s, row |-> row, run |-> r]
<1>2. req[p] = Idle /\ req'[p] = x /\ \A q \in Requests \ {p} : req'[q] = req[q]
  BY <1>1 DEF Begin, IInv
<1>3. x.op = "attach" /\ x.row = row
  OBVIOUS
<1> HIDE DEF x
<1>4. Idle.op = "idle" /\ "idle" \notin Changes /\ "attach" \notin Changes
  BY DEF Idle, Changes
<1>5. RequestInBounds(p)'
  BY <1>1, <1>2, <1>3, <1>4 DEF RequestInBounds
<1>6. \A q \in Requests : RequestInBounds(q)'
  BY <1>2, <1>5 DEF InBounds, RequestInBounds
<1>7. /\ UNCHANGED <<now, slot, run, link, jobLock>>
      /\ changes' = changes \/ (changes < MaxChanges /\ changes' = changes + 1)
  BY DEF AttachReads, CreateSlotReads, CanChange, rows
<1>8. RowsInBounds'
  BY <1>7 DEF InBounds, RowsInBounds
<1>9. Changing' = Changing
  BY <1>2, <1>3, <1>4 DEF Changing
<1>10. ChangesCounted'
  BY <1>7, <1>9, CountStays DEF InBounds
<1> QED BY <1>6, <1>8, <1>10 DEF InBounds

\* No request takes part in these.
LEMMA RestKeepsBounds ==
    ASSUME IInv, InBounds, UNCHANGED <<req, jobLock, link>>, now' <= MaxNow,
           \A r \in Runs : run'[r].start = run[r].start,
           \A s \in Slots : slot'[s].from <= LastWindow,
           \/ changes' = changes /\ \A s \in Slots : slot'[s].rev = slot[s].rev
           \/ /\ changes < MaxChanges /\ changes' = changes + 1
              /\ \A s \in Slots : slot'[s].rev \in {slot[s].rev, slot[s].rev + 1}
    PROVE  InBounds'
<1>1. RowsInBounds'
  BY DEF InBounds, RowsInBounds
<1>2. \A q \in Requests : RequestInBounds(q)'
  BY DEF InBounds, RequestInBounds
<1>3. Changing' = Changing
  BY DEF Changing
<1>4. ChangesCounted'
  BY <1>3, CountStays DEF InBounds
<1> QED BY <1>1, <1>2, <1>4 DEF InBounds

LEMMA ReactivateSlotKeepsBounds ==
    ASSUME IInv, InBounds, NEW s \in Slots, ReactivateSlot(s)
    PROVE  InBounds'
<1>1. /\ slot' = [slot EXCEPT ![s].isActive = TRUE, ![s].rev = @ + 1]
      /\ changes < MaxChanges /\ changes' = changes + 1
      /\ UNCHANGED <<now, run, req, jobLock, link>>
  BY DEF ReactivateSlot
<1>2. \A u \in Slots : /\ slot[u] \in SlotShape /\ slot[u].from <= LastWindow
                       /\ slot'[u].from = slot[u].from
                       /\ slot'[u].rev \in {slot[u].rev, slot[u].rev + 1}
  BY <1>1 DEF IInv, Rows, Shape, SlotShape, InBounds, RowsInBounds
<1> QED BY <1>1, <1>2, RestKeepsBounds DEF InBounds, RowsInBounds

LEMMA CreateSlotKeepsBounds ==
    ASSUME IInv, InBounds, NEW s \in Slots, NEW time \in Times, NEW from \in Windows,
           CreateSlot(s, time, from)
    PROVE  InBounds'
<1>1. /\ slot' = [slot EXCEPT ![s] = [there |-> TRUE, isActive |-> TRUE, time |-> time,
                                      from |-> from, rev |-> 0]]
      /\ slot[s].rev = 0 /\ changes < MaxChanges /\ changes' = changes + 1
      /\ UNCHANGED <<now, run, req, jobLock, link>>
  BY DEF CreateSlot
<1>2. from <= LastWindow
  BY ClockIsNumbered
<1>3. \A u \in Slots : slot'[u].from <= LastWindow /\ slot'[u].rev = slot[u].rev
  BY <1>1, <1>2 DEF IInv, Rows, Shape, InBounds, RowsInBounds
<1> QED BY <1>1, <1>3, RestKeepsBounds DEF InBounds, RowsInBounds

LEMMA RunStepsKeepBounds ==
    ASSUME IInv, InBounds, NEW r \in Runs, SignUp(r) \/ CancelRun(r) \/ ReactivateRun(r)
    PROVE  InBounds'
<1>1. PICK row : SetRun(r, row) /\ row.start = run[r].start
  <2>1. run[r] \in RunShape
    BY DEF IInv, Rows, Shape
  <2>2. CASE SignUp(r)
    <3> DEFINE row == [run[r] EXCEPT !.used = TRUE]
    <3>1. row.start = run[r].start
      BY <2>1 DEF RunShape
    <3>2. SetRun(r, row)
      BY <2>2 DEF SignUp
    <3> QED BY <3>1, <3>2
  <2>3. CASE CancelRun(r)
    <3> DEFINE row == [run[r] EXCEPT !.status = "CANCELLED"]
    <3>1. row.start = run[r].start
      BY <2>1 DEF RunShape
    <3>2. SetRun(r, row)
      BY <2>3 DEF CancelRun
    <3> QED BY <3>1, <3>2
  <2>4. CASE ReactivateRun(r)
    <3> DEFINE row == [run[r] EXCEPT !.status = "OPEN", !.archived = FALSE]
    <3>1. row.start = run[r].start
      BY <2>1 DEF RunShape
    <3>2. SetRun(r, row)
      BY <2>4 DEF ReactivateRun
    <3> QED BY <3>1, <3>2
  <2> QED BY <2>2, <2>3, <2>4
<1>2. \A x \in Runs : run'[x].start = run[x].start
  BY <1>1 DEF SetRun, IInv, Rows, Shape
<1>3. UNCHANGED <<now, slot, req, jobLock, link>>
  BY <1>1 DEF SetRun
<1>4. changes' = changes \/ (changes < MaxChanges /\ changes' = changes + 1)
  BY DEF SignUp, CancelRun, ReactivateRun
<1> QED BY <1>2, <1>3, <1>4, RestKeepsBounds DEF InBounds, RowsInBounds

LEMMA ClockKeepsBounds ==
    ASSUME IInv, InBounds, Tick \/ UNCHANGED vars
    PROVE  InBounds'
<1>1. UNCHANGED <<slot, run, req, jobLock, link, changes>>
  BY DEF Tick, vars, rows
<1>2. now' <= MaxNow
  BY ClockIsNumbered DEF Tick, vars, InBounds, RowsInBounds, IInv, Rows, Shape
<1> QED BY <1>1, <1>2, RestKeepsBounds DEF InBounds, RowsInBounds

LEMMA DieKeepsBounds ==
    ASSUME IInv, InBounds, NEW p \in Requests, Die(p)
    PROVE  InBounds'
<1>1. /\ req'[p] = Idle /\ \A q \in Requests \ {p} : req'[q] = req[q]
      /\ UNCHANGED <<now, slot, run, link, changes>> /\ jobLock' \in {jobLock, None}
  BY DEF Die, rows, IInv
<1>2. Idle.op = "idle" /\ "idle" \notin Changes
  BY DEF Idle, Changes
<1>3. RowsInBounds'
  BY <1>1 DEF InBounds, RowsInBounds
<1>4. \A q \in Requests : RequestInBounds(q)'
  BY <1>1, <1>2 DEF InBounds, RequestInBounds
<1>5. Changing' = Changing \ {p}
  BY <1>1, <1>2 DEF Changing
<1>6. ChangesCounted'
  BY <1>1, <1>5, CountEnds DEF InBounds
<1> QED BY <1>3, <1>4, <1>6 DEF InBounds

LEMMA InitInBounds ==
    ASSUME Init, IInv
    PROVE  InBounds
<1>1. /\ now \in 0 .. MaxNow /\ slot \in [Slots -> SlotRows] /\ run \in [Runs -> RunRows]
      /\ \A s \in Slots : slot[s].rev = 0
      /\ link = [r \in Runs |-> None] /\ jobLock = None /\ req = [p \in Requests |-> Idle]
      /\ changes = 0
  BY DEF Init
<1>2. Idle.op = "idle" /\ "idle" \notin Changes
  BY DEF Idle, Changes
<1>3. \A q \in Requests : RequestInBounds(q)
  BY <1>1, <1>2 DEF RequestInBounds
<1>4. \A s \in Slots : slot[s].from <= LastWindow
  <2>1. \A s \in Slots : slot[s].from \in Windows
    BY <1>1 DEF SlotRows
  <2> QED BY <2>1, ClockIsNumbered
<1>5. \A r \in Runs : run[r].start < (LastWindow + 1) * Week
  <2>1. /\ LastWindow + 1 = MaxNow \div Week + 2 /\ (LastWindow + 1) * Week \in Int
    <3>1. MaxNow \div Week \in Int
      BY ClockIsNumbered, DivFacts
    <3>2. LastWindow + 1 = MaxNow \div Week + 2
      BY <3>1 DEF LastWindow
    <3> QED BY <3>2, ClockIsNumbered
  <2>2. ASSUME NEW r \in Runs PROVE run[r].start \in 0 .. (LastWindow + 1) * Week - 1
    BY <1>1, <2>1 DEF RunRows
  <2> QED BY <2>1, <2>2
<1>6. RowsInBounds
  BY <1>1, <1>4, <1>5 DEF RowsInBounds
<1>7. Changing = {}
  BY <1>1, <1>2 DEF Changing
<1>8. ChangesCounted
  BY <1>1, <1>7, FS_EmptySet, ClockIsNumbered DEF ChangesCounted
<1> QED BY <1>3, <1>6, <1>8 DEF InBounds

LEMMA NextKeepsBounds ==
    ASSUME IInv, InBounds, [Next]_vars
    PROVE  InBounds'
<1>1. ASSUME NEW p \in Requests, PassStep(p) PROVE InBounds'
  BY <1>1, PassKeepsBounds, CreateEndsKeepBounds, CreateScheduleRunKeepsBounds,
     LoadCreateRunKeepsBounds DEF PassStep
<1>2. ASSUME NEW p \in Requests, ChangeStep(p) PROVE InBounds'
  BY <1>2, CommitChangeKeepsBounds, LoadsKeepBounds, LockSlotKeepsBounds DEF ChangeStep
<1>3. ASSUME NEW p \in Requests, AttachStep(p) PROVE InBounds'
  BY <1>3, AttachKeepsBounds, AttachLoadsKeepBounds DEF AttachStep
<1>4. ASSUME NEW p \in Requests, Die(p) PROVE InBounds'
  BY <1>4, DieKeepsBounds
<1>5. ASSUME NEW s \in Slots,
             ReactivateSlot(s) \/ \E time \in Times, from \in Windows : CreateSlot(s, time, from)
      PROVE  InBounds'
  BY <1>5, ReactivateSlotKeepsBounds, CreateSlotKeepsBounds
<1>6. ASSUME NEW r \in Runs, SignUp(r) \/ CancelRun(r) \/ ReactivateRun(r) PROVE InBounds'
  BY <1>6, RunStepsKeepBounds
<1>7. CASE Tick \/ UNCHANGED vars
  BY <1>7, ClockKeepsBounds
<1> QED BY <1>1, <1>2, <1>3, <1>4, <1>5, <1>6, <1>7 DEF Next

\* A row of a slot in shape and in bounds is typed.
LEMMA SlotsAreTyped ==
    ASSUME NEW row \in SlotShape, RowInBounds(row)
    PROVE  row \in SlotRows
<1>1. row.from \in Windows /\ row.rev \in 0 .. MaxChanges
  BY ClockIsNumbered DEF SlotShape, RowInBounds
<1> QED BY <1>1 DEF SlotShape, SlotRows

LEMMA PlansAreTyped ==
    ASSUME NEW plan \in Plans(Nat), plan.window <= LastWindow
    PROVE  plan \in Plans(Windows)
<1>1. plan.window \in Windows
  BY ClockIsNumbered DEF Plans
<1> QED BY <1>1 DEF Plans

LEMMA RequestsAreTyped ==
    ASSUME IInv, InBounds, NEW p \in Requests
    PROVE  req[p] \in {Idle} \cup PassRows \cup CreateRows \cup ChangeRows \cup AttachRows
<1> DEFINE x == req[p]
<1>1. x \in ReqShape /\ RequestInBounds(p)
  BY DEF IInv, InBounds
<1>2. CASE x \in PassShape
  <2>1. x.op = "pass"
    BY <1>2 DEF PassShape
  <2>2. x.plan = None \/ x.plan \in Plans(Windows)
    BY <1>1, <1>2, <2>1, PlansAreTyped DEF PassShape, RequestInBounds
  <2>3. PICK S \in SUBSET Slots : x.listed \in [S -> SlotShape]
    BY <1>2, ListedShape DEF PassShape, Listings
  <2>4. \A s \in S : x.listed[s] \in SlotRows
    BY <1>1, <2>1, <2>3, SlotsAreTyped DEF RequestInBounds
  <2>5. x.listed \in [S -> SlotRows]
    BY <2>3, <2>4
  <2>6. x.listed \in UNION {[T -> SlotRows] : T \in SUBSET Slots}
    BY <2>5
  <2>7. x \in PassRows
    BY <1>2, <2>2, <2>6 DEF PassShape, PassRows
  <2> QED BY <2>7
<1>3. CASE x \in CreateShape
  <2>1. x.op = "createRun" /\ x.plan \in Plans(Nat)
    BY <1>3 DEF CreateShape
  <2>2. x.plan # None
    BY <2>1, NoneAssumption
  <2>3. x.plan \in Plans(Windows)
    BY <1>1, <2>1, <2>2, PlansAreTyped DEF RequestInBounds
  <2> QED BY <1>3, <2>3 DEF CreateShape, CreateRows
<1>4. CASE x \in ChangeShape
  <2>1. x.op \in Changes
    BY <1>4 DEF ChangeShape
  <2>2. x.op = "updateSlot" => x.new \in SlotShape
    BY <2>1 DEF IInv, ReqOK, RetireOK
  <2>3. x.new \in SlotRows \cup {None}
    BY <1>1, <2>1, <2>2, SlotsAreTyped DEF RequestInBounds
  <2> QED BY <1>4, <2>3 DEF ChangeShape, ChangeRows, Orders
<1>5. CASE x \in AttachShape
  <2>1. x.op = "attach" /\ x.row \in SlotShape
    BY <1>5 DEF AttachShape
  <2>2. x.row \in SlotRows
    BY <1>1, <2>1, SlotsAreTyped DEF RequestInBounds
  <2> QED BY <1>5, <2>2 DEF AttachShape, AttachRows
<1> QED BY <1>1, <1>2, <1>3, <1>4, <1>5 DEF ReqShape

LEMMA BoundsGiveTypes ==
    ASSUME IInv, InBounds
    PROVE  TypeOK
<1>1. Shape /\ RowsInBounds
  BY DEF IInv, Rows, InBounds
<1>2. now \in 0 .. MaxNow /\ changes \in 0 .. MaxChanges /\ jobLock \in Requests \cup {None}
  BY <1>1, ClockIsNumbered DEF Shape, RowsInBounds, InBounds, ChangesCounted
<1>3. slot \in [Slots -> SlotRows]
  <2>1. ASSUME NEW s \in Slots PROVE slot[s] \in SlotRows
    <3>1. slot[s] \in SlotShape /\ RowInBounds(slot[s])
      BY <1>1, RevsInBounds DEF Shape, RowInBounds, RowsInBounds, InBounds
    <3> QED BY <3>1, SlotsAreTyped
  <2> QED BY <1>1, <2>1 DEF Shape
<1>4. run \in [Runs -> RunRows]
  <2> DEFINE starts == 0 .. (MaxNow \div Week + 2) * Week - 1
  <2>1. ASSUME NEW r \in Runs PROVE run[r] \in RunRows
    <3>1. run[r] \in RunShape /\ run[r].start < (LastWindow + 1) * Week
      BY <1>1 DEF Shape, RowsInBounds
    <3>2. LastWindow + 1 = MaxNow \div Week + 2 /\ (LastWindow + 1) * Week \in Int
      <4>1. MaxNow \div Week \in Int
        BY ClockIsNumbered, DivFacts
      <4>2. LastWindow + 1 = MaxNow \div Week + 2
        BY <4>1 DEF LastWindow
      <4> QED BY <4>2, ClockIsNumbered
    <3>3. run[r].start \in 0 .. (LastWindow + 1) * Week - 1
      BY <3>1, <3>2 DEF RunShape
    <3>4. run[r].start \in starts
      BY <3>2, <3>3
    <3> HIDE DEF starts
    <3>5. RunRows = [status : {"NONE", "OPEN", "CANCELLED"}, archived : BOOLEAN, used : BOOLEAN,
                     start : starts]
      BY DEF RunRows, starts
    <3> QED BY <3>1, <3>4, <3>5 DEF RunShape
  <2> QED BY <1>1, <2>1 DEF Shape
<1>5. link \in [Runs -> Links \cup {None}]
  <2>1. ASSUME NEW r \in Runs PROVE link[r] \in Links \cup {None}
    <3>1. link[r] # None => link[r] \in LinkRows(Nat) /\ link[r].window <= LastWindow
      BY <1>1 DEF Shape, RowsInBounds
    <3>2. link[r] # None => link[r].window \in Windows
      BY <3>1, ClockIsNumbered DEF LinkRows
    <3> QED BY <3>1, <3>2 DEF LinkRows, Links
  <2> QED BY <1>1, <2>1 DEF Shape
<1>6. \A p \in Requests :
         req[p] \in {Idle} \cup PassRows \cup CreateRows \cup ChangeRows \cup AttachRows
  BY RequestsAreTyped
<1>7. slotLock \in [Slots -> Requests \cup {None}] /\ revived \subseteq Runs /\ late \subseteq Runs
  BY <1>1 DEF Shape
<1> QED BY <1>2, <1>3, <1>4, <1>5, <1>6, <1>7 DEF TypeOK

\* Every variable keeps its type: no window beyond the clock's horizon ever gets
\* into a slot, a link or a request (ReleasedWindow, StartChoices, Attachable),
\* and no row gets more versions than there were changes.
THEOREM ScheduleIsTyped == Spec => []TypeOK
<1>1. Init => IInv /\ InBounds
  BY InitEstablishesIInv, InitInBounds
<1>2. IInv /\ InBounds /\ [Next]_vars => (IInv /\ InBounds)'
  BY NextKeepsIInv, NextKeepsBounds
<1>3. IInv /\ InBounds => TypeOK
  BY BoundsGiveTypes
<1> QED BY <1>1, <1>2, <1>3, PTL DEF Spec
-----------------------------------------------------------------------------
(* The board: what a request has decided still is right when it commits. *)

\* A change takes a Run that nobody signed up for only from a slot that will not
\* cover it any more.
RetiresOrphans(p) ==
    req[p].op \in Changes =>
        \A r \in req[p].retire : Board!Idling(r) => Affects(p, link[r].slot, link[r].window)

\* An attachment puts the Run into an active slot that has begun by its window.
AttachFits(p) ==
    req[p].op = "attach" =>
        req[p].row.isActive /\ req[p].row.from <= WindowOf(run[req[p].run].start)

Decided(p) == RetiresOrphans(p) /\ AttachFits(p)

LEMMA IdlingRuns ==
    ASSUME NEW r
    PROVE  Board!Idling(r) <=> /\ link[r] # None /\ link[r].origin = "MATERIALIZED"
                               /\ IsLive(r) /\ ~run[r].used /\ run[r].start > now
                               /\ r \notin revived
  BY DEF Board!Idling, Board!IsLive, IsLive

\* Requests whose slots, Runs and links stay as they are keep what they decided.
LEMMA OthersDecided ==
    ASSUME IInv, NEW q \in Requests, Decided(q), req'[q] = req[q],
           \A s \in Slots : Holds(q, s) => slot'[s] = slot[s],
           \A r \in Runs : link[r] # None /\ Holds(q, link[r].slot) =>
               link'[r] = link[r] /\ (Board!Idling(r)' => Board!Idling(r)),
           \A r \in Runs : run[r].status # "NONE" => run'[r].start = run[r].start
    PROVE  Decided(q)'
<1>1. ReqOK(q)
  BY DEF IInv
<1>2. RetiresOrphans(q)'
  <2> SUFFICES ASSUME req[q].op \in Changes, NEW r \in req[q].retire, Board!Idling(r)'
               PROVE  Affects(q, link[r].slot, link[r].window)'
    BY DEF RetiresOrphans
  <2>1. r \in Runs /\ req[q].held \subseteq Slots
    BY Kinds DEF ChangeShape
  <2>2. link[r] # None /\ link[r].slot \in Slots /\ Holds(q, link[r].slot)
    BY <1>1, <2>1 DEF ReqOK, RetireOK, Holds
  <2>3. link'[r] = link[r] /\ slot'[link[r].slot] = slot[link[r].slot] /\ Board!Idling(r)
    BY <2>1, <2>2
  <2>4. Affects(q, link[r].slot, link[r].window)
    BY <2>3 DEF Decided, RetiresOrphans
  <2> QED BY <2>3, <2>4 DEF Affects
<1>3. AttachFits(q)'
  <2> SUFFICES ASSUME req[q].op = "attach" PROVE AttachFits(q)'
    BY DEF AttachFits
  <2>1. req[q].run \in Runs /\ run[req[q].run].status # "NONE"
    BY <1>1, Kinds DEF AttachShape, ReqOK, AttachOK
  <2>2. run'[req[q].run].start = run[req[q].run].start
    BY <2>1
  <2> QED BY <2>2 DEF Decided, AttachFits
<1> QED BY <1>2, <1>3 DEF Decided

\* The rows stay, and one request goes on.
LEMMA QuietKeepsDecided ==
    ASSUME IInv, \A q \in Requests : Decided(q), NEW p \in Requests,
           UNCHANGED <<now, slot, run, link, revived>>,
           \A q \in Requests \ {p} : req'[q] = req[q], Decided(p)'
    PROVE  \A q \in Requests : Decided(q)'
<1>1. \A r : Board!Idling(r)' <=> Board!Idling(r)
  BY DEF Board!Idling, Board!IsLive
<1> QED BY <1>1, OthersDecided

\* A request that neither retires a Run nor attaches one has nothing to decide.
LEMMA NothingDecided ==
    ASSUME IInv, \A q \in Requests : Decided(q), NEW p \in Requests, NEW x,
           req' = [req EXCEPT ![p] = x], UNCHANGED <<now, slot, run, link, revived>>,
           x.op # "attach", x.op \in Changes => x.retire = {}
    PROVE  \A q \in Requests : Decided(q)'
<1>1. req'[p] = x /\ \A q \in Requests \ {p} : req'[q] = req[q]
  BY DEF IInv
<1>2. Decided(p)'
  BY <1>1 DEF Decided, RetiresOrphans, AttachFits
<1> QED BY <1>1, <1>2, QuietKeepsDecided

LEMMA LockSlotKeepsDecided ==
    ASSUME IInv, \A q \in Requests : Decided(q), NEW p \in Requests, NEW s \in Slots, LockSlot(p, s)
    PROVE  \A q \in Requests : Decided(q)'
<1> DEFINE retire == {r \in Runs : /\ link[r] # None /\ link[r].slot = s
                                   /\ Affects(p, s, link[r].window) /\ MayRetire(r, req[p].at)}
           x == [req[p] EXCEPT !.todo = @ \ {s}, !.held = @ \cup {s}, !.retire = @ \cup retire]
<1>1. /\ req[p].op \in Changes /\ UNCHANGED <<now, slot, run, link, revived>>
      /\ req' = [req EXCEPT ![p] = x]
  <2>1. {r \in {r \in Runs : link[r] # None /\ link[r].slot = s} :
             Affects(p, s, link[r].window) /\ MayRetire(r, req[p].at)} = retire
    OBVIOUS
  <2> QED BY <2>1 DEF LockSlot, rows
<1>2. x.op = req[p].op /\ x.new = req[p].new /\ x.retire = req[p].retire \cup retire
  BY <1>1, Kinds DEF ChangeShape
<1>3. \A r \in retire : link[r].slot = s /\ Affects(p, s, link[r].window)
  OBVIOUS
<1> HIDE DEF x, retire
<1>4. req'[p] = x /\ \A q \in Requests \ {p} : req'[q] = req[q]
  BY <1>1 DEF IInv
<1>5. \A r : Board!Idling(r)' <=> Board!Idling(r)
  BY <1>1 DEF Board!Idling, Board!IsLive
<1>6. \A u, w : Affects(p, u, w)' <=> Affects(p, u, w)
  BY <1>1, <1>2, <1>4 DEF Affects
<1>7. RetiresOrphans(p)'
  BY <1>1, <1>2, <1>3, <1>4, <1>5, <1>6 DEF Decided, RetiresOrphans
<1>8. AttachFits(p)'
  BY <1>1, <1>2, <1>4 DEF AttachFits, Changes
<1> QED BY <1>1, <1>4, <1>7, <1>8, QuietKeepsDecided DEF Decided

LEMMA AttachLoadsKeepDecided ==
    ASSUME IInv, \A q \in Requests : Decided(q), NEW p \in Requests, NEW s \in Slots, NEW r \in Runs,
           AttachReads(p, s, r) \/ \E time \in Times, from \in Windows : CreateSlotReads(p, s, r, time, from)
    PROVE  \A q \in Requests : Decided(q)'
<1>1. PICK row \in SlotShape : /\ Begin(p, [op |-> "attach", slot |-> s, row |-> row, run |-> r])
                               /\ row.isActive /\ Attachable(row, s, r)
  <2>1. CASE AttachReads(p, s, r)
    <3>1. slot[s] \in SlotShape
      BY DEF IInv, Rows, Shape
    <3> QED BY <2>1, <3>1 DEF AttachReads
  <2>2. ASSUME NEW time \in Times, NEW from \in Windows, CreateSlotReads(p, s, r, time, from)
        PROVE  \E row \in SlotShape : /\ Begin(p, [op |-> "attach", slot |-> s, row |-> row, run |-> r])
                                      /\ row.isActive /\ Attachable(row, s, r)
    <3> DEFINE row == [there |-> TRUE, isActive |-> TRUE, time |-> time, from |-> from, rev |-> 0]
    <3>1. from \in Nat
      BY DEF Windows
    <3>2. row \in SlotShape /\ row.isActive
      BY <3>1 DEF SlotShape
    <3>3. Begin(p, [op |-> "attach", slot |-> s, row |-> row, run |-> r]) /\ Attachable(row, s, r)
      BY <2>2 DEF CreateSlotReads
    <3> QED BY <3>2, <3>3
  <2> QED BY <2>1, <2>2
<1> DEFINE x == [op |-> "attach", slot |-> s, row |-> row, run |-> r]
<1>2. /\ UNCHANGED <<now, slot, run, link, revived>>
      /\ req'[p] = x /\ \A q \in Requests \ {p} : req'[q] = req[q]
  BY <1>1 DEF AttachReads, CreateSlotReads, rows, Begin, IInv
<1>3. x.op = "attach" /\ x.row = row /\ x.run = r /\ "attach" \notin Changes
  BY DEF Changes
<1> HIDE DEF x
<1>4. row.from <= WindowOf(run[r].start)
  <2>1. run[r].start \in Nat /\ row.from \in Nat
    BY DEF IInv, Rows, Shape, RunShape, SlotShape
  <2>2. WindowOf(run[r].start) \in Nat
    BY <2>1, WindowsAreNumbers
  <2> QED BY <1>1, <2>1, <2>2 DEF Attachable, IsBeforeScheduleStart
<1>5. Decided(p)'
  BY <1>1, <1>2, <1>3, <1>4 DEF Decided, RetiresOrphans, AttachFits
<1> QED BY <1>2, <1>5, QuietKeepsDecided

LEMMA EndedDecided ==
    ASSUME NEW p \in Requests, req'[p] = Idle
    PROVE  Decided(p)'
<1>1. Idle.op = "idle" /\ "idle" \notin Changes
  BY DEF Idle, Changes
<1> QED BY <1>1 DEF Decided, RetiresOrphans, AttachFits

\* What a request does while it decides: the rows stay.
LEMMA QuietStepsKeepDecided ==
    ASSUME IInv, \A q \in Requests : Decided(q), NEW p \in Requests,
           \/ PassStep(p) /\ ~\E r \in Runs : CreateScheduleRun(p, r)
           \/ ChangeStep(p) /\ ~CommitChange(p)
           \/ AttachStep(p) /\ ~AttachCommits(p)
           \/ Die(p)
    PROVE  UNCHANGED Board!boardVars /\ \A q \in Requests : Decided(q)'
<1>1. "pass" \notin Changes /\ "createRun" \notin Changes /\ Idle.op = "idle" /\ "idle" \notin Changes
  BY DEF Idle, Changes
<1>2. CASE StartPass(p)
  <2> DEFINE due == {s \in Slots : slot[s].there /\ slot[s].isActive}
             x == [op |-> "pass", at |-> now, listed |-> [s \in due |-> slot[s]], todo |-> due,
                   failed |-> {}, plan |-> None]
  <2>1. req' = [req EXCEPT ![p] = x] /\ x.op = "pass" /\ UNCHANGED Board!boardVars
    BY <1>2 DEF StartPass, Begin, rows, Board!boardVars
  <2> HIDE DEF x
  <2> QED BY <1>1, <2>1, NothingDecided DEF Board!boardVars
<1>3. CASE EndPass(p) \/ Die(p)
  <2>1. req' = [req EXCEPT ![p] = Idle] /\ UNCHANGED Board!boardVars
    BY <1>3 DEF EndPass, Die, rows, Board!boardVars
  <2> QED BY <1>1, <2>1, NothingDecided DEF Board!boardVars
<1>4. CASE CreateIsRefused(p) \/ CreateFails(p)
  <2>1. Creating(p) /\ UNCHANGED Board!boardVars
    BY <1>4 DEF CreateIsRefused, CreateFails, rows, Board!boardVars
  <2>2. PICK failed \in SUBSET Slots : req' = Created(p, failed)
    <3>1. req[p].plan.slot \in Slots
      BY <2>1, Kinds DEF Creating, PassShape, CreateShape, Plans
    <3>2. {req[p].plan.slot} \in SUBSET Slots /\ {} \in SUBSET Slots
      BY <3>1
    <3> QED BY <1>4, <3>2 DEF CreateIsRefused, CreateFails
  <2>3. \E x : req' = [req EXCEPT ![p] = x] /\ x.op \in {"pass", "idle"}
    BY <1>1, <2>1, <2>2, CreatedRequest DEF Creating, PassShape
  <2> QED BY <1>1, <2>1, <2>3, NothingDecided DEF Board!boardVars
<1>5. ASSUME NEW s \in Slots, PassSkips(p, s) \/ PassPlans(p, s)
      PROVE  UNCHANGED Board!boardVars /\ \A q \in Requests : Decided(q)'
  <2>1. req[p].op = "pass" /\ UNCHANGED Board!boardVars
    BY <1>5 DEF PassSkips, PassPlans, NextInPass, rows, Board!boardVars
  <2>2. req[p] \in PassShape
    BY <2>1, Kinds
  <2>3. \E x : req' = [req EXCEPT ![p] = x] /\ x.op = "pass"
    BY <1>5, <2>2 DEF PassSkips, PassPlans, PassShape
  <2> QED BY <1>1, <2>1, <2>3, NothingDecided DEF Board!boardVars
<1>6. ASSUME NEW s \in Slots, NEW w \in Windows, LoadCreateRun(p, s, w)
      PROVE  UNCHANGED Board!boardVars /\ \A q \in Requests : Decided(q)'
  <2> DEFINE x == [op |-> "createRun", plan |-> [slot |-> s, window |-> w, time |-> slot[s].time]]
  <2>1. req' = [req EXCEPT ![p] = x] /\ x.op = "createRun" /\ UNCHANGED Board!boardVars
    BY <1>6 DEF LoadCreateRun, Begin, rows, Board!boardVars
  <2> HIDE DEF x
  <2> QED BY <1>1, <2>1, NothingDecided DEF Board!boardVars
<1>7. ASSUME NEW op \in Changes, NEW S, NEW new, BeginChange(p, op, S, new)
      PROVE  UNCHANGED Board!boardVars /\ \A q \in Requests : Decided(q)'
  <2> DEFINE x == [op |-> op, at |-> now, order |-> [s \in S |-> slot[s].time], todo |-> S,
                   held |-> {}, new |-> new, retire |-> {}]
  <2>1. req' = [req EXCEPT ![p] = x] /\ x.op = op /\ x.retire = {} /\ UNCHANGED Board!boardVars
    BY <1>7 DEF BeginChange, Begin, rows, Board!boardVars
  <2>2. op # "attach"
    BY DEF Changes
  <2> HIDE DEF x
  <2> QED BY <2>1, <2>2, NothingDecided DEF Board!boardVars
<1>8. ASSUME NEW s \in Slots, LockSlot(p, s)
      PROVE  UNCHANGED Board!boardVars /\ \A q \in Requests : Decided(q)'
  BY <1>8, LockSlotKeepsDecided DEF LockSlot, rows, Board!boardVars
<1>9. ASSUME ChangeStep(p), ~CommitChange(p)
      PROVE  UNCHANGED Board!boardVars /\ \A q \in Requests : Decided(q)'
  <2>1. CASE \E op \in Changes : \E S, new : BeginChange(p, op, S, new)
    BY <1>7, <2>1
  <2>2. {"updateSlot", "deactivateSlot", "deleteSlot", "deleteRunSetup"} \subseteq Changes
    BY DEF Changes
  <2>3. LoadDeleteRunSetup(p) => \E op \in Changes : \E S, new : BeginChange(p, op, S, new)
    BY <2>2 DEF LoadDeleteRunSetup
  <2>4. \A s : LoadDeactivateSlot(p, s) \/ LoadDeleteSlot(p, s)
               => \E op \in Changes : \E S, new : BeginChange(p, op, S, new)
    BY <2>2 DEF LoadDeactivateSlot, LoadDeleteSlot
  <2>5. \A s, time, from : LoadUpdateSlot(p, s, time, from)
               => \E op \in Changes : \E S, new : BeginChange(p, op, S, new)
    BY <2>2 DEF LoadUpdateSlot
  <2> QED BY <1>8, <1>9, <2>1, <2>3, <2>4, <2>5 DEF ChangeStep
<1>10. ASSUME AttachStep(p), ~AttachCommits(p)
       PROVE  UNCHANGED Board!boardVars /\ \A q \in Requests : Decided(q)'
  <2>1. PICK s \in Slots, r \in Runs :
            AttachReads(p, s, r) \/ \E time \in Times, from \in Windows : CreateSlotReads(p, s, r, time, from)
    BY <1>10 DEF AttachStep
  <2>2. UNCHANGED Board!boardVars
    BY <2>1 DEF AttachReads, CreateSlotReads, rows, Board!boardVars
  <2> QED BY <2>1, <2>2, AttachLoadsKeepDecided
<1> QED BY <1>2, <1>3, <1>4, <1>5, <1>6, <1>9, <1>10 DEF PassStep

-----------------------------------------------------------------------------
(* The steps the board sees. *)

\* The Runs themselves and the clock.
LEMMA RunStepsOnBoard ==
    ASSUME IInv, \A q \in Requests : Decided(q),
           Tick \/ \E r \in Runs : SignUp(r) \/ CancelRun(r) \/ ReactivateRun(r)
    PROVE  Board!Next /\ \A q \in Requests : Decided(q)'
<1>1. /\ now \in Nat /\ run \in [Runs -> RunShape] /\ revived \subseteq Runs
  BY DEF IInv, Rows, Shape
<1>2. ASSUME UNCHANGED <<slot, link, req>>,
             \A x \in Runs : /\ run'[x].start = run[x].start
                             /\ Board!Idling(x)' => Board!Idling(x)
      PROVE  \A q \in Requests : Decided(q)'
  BY <1>2, OthersDecided
<1>3. CASE Tick
  <2>1. UNCHANGED <<slot, run, link, req, revived, late>> /\ now' = now + 1
    BY <1>3 DEF Tick, rows
  <2>2. \A x \in Runs : run[x].start > now' => run[x].start > now
    BY <1>1, <2>1 DEF RunShape
  <2>3. \A x \in Runs : Board!Idling(x)' => Board!Idling(x)
    BY <2>1, <2>2 DEF Board!Idling, Board!IsLive
  <2>4. Board!Tick
    BY <2>1 DEF Board!Tick
  <2> QED BY <1>2, <2>1, <2>3, <2>4 DEF Board!Next
<1>4. ASSUME NEW r \in Runs, SignUp(r)
      PROVE  Board!SignUp(r) /\ \A q \in Requests : Decided(q)'
  <2>1. /\ IsLive(r) /\ UNCHANGED <<now, slot, link, req, revived>>
        /\ run' = [run EXCEPT ![r] = [run[r] EXCEPT !.used = TRUE]]
        /\ late' = IF RosterFree(r) THEN late ELSE late \cup {r}
    BY <1>4 DEF SignUp, SetRun
  <2>2. /\ run'[r].used /\ run'[r].start = run[r].start
        /\ \A x \in Runs \ {r} : run'[x] = run[x]
    BY <1>1, <2>1 DEF RunShape
  <2>3. \A x \in Runs : Board!Idling(x)' => Board!Idling(x)
    BY <2>1, <2>2 DEF Board!Idling, Board!IsLive
  <2>4. Board!SignUp(r)
    BY <2>1 DEF Board!SignUp, Board!IsLive, IsLive
  <2> QED BY <1>2, <2>1, <2>2, <2>3, <2>4
<1>5. ASSUME NEW r \in Runs, CancelRun(r)
      PROVE  Board!Cancel(r) /\ \A q \in Requests : Decided(q)'
  <2>1. /\ IsLive(r) /\ UNCHANGED <<now, slot, link, req, revived, late>>
        /\ run' = [run EXCEPT ![r] = [run[r] EXCEPT !.status = "CANCELLED"]]
    BY <1>5 DEF CancelRun, SetRun
  <2>2. /\ run'[r].status = "CANCELLED" /\ run'[r].start = run[r].start
        /\ \A x \in Runs \ {r} : run'[x] = run[x]
    BY <1>1, <2>1 DEF RunShape
  <2>3. \A x \in Runs : Board!Idling(x)' => Board!Idling(x)
    BY <2>1, <2>2 DEF Board!Idling, Board!IsLive
  <2>4. Board!Cancel(r)
    BY <2>1 DEF Board!Cancel, Board!IsLive, IsLive
  <2> QED BY <1>2, <2>1, <2>2, <2>3, <2>4
<1>6. ASSUME NEW r \in Runs, ReactivateRun(r)
      PROVE  Board!Reactivate(r) /\ \A q \in Requests : Decided(q)'
  <2>1. /\ run[r].status = "CANCELLED" /\ run[r].start > now
        /\ UNCHANGED <<now, slot, link, req, late>> /\ revived' = revived \cup {r}
        /\ run' = [run EXCEPT ![r] = [run[r] EXCEPT !.status = "OPEN", !.archived = FALSE]]
    BY <1>6 DEF ReactivateRun, SetRun
  <2>2. run'[r].start = run[r].start /\ \A x \in Runs \ {r} : run'[x] = run[x]
    BY <1>1, <2>1 DEF RunShape
  <2>3. \A x \in Runs : Board!Idling(x)' => Board!Idling(x)
    BY <2>1, <2>2 DEF Board!Idling, Board!IsLive
  <2>4. Board!Reactivate(r)
    BY <2>1 DEF Board!Reactivate
  <2> QED BY <1>2, <2>1, <2>2, <2>3, <2>4
<1> QED BY <1>3, <1>4, <1>5, <1>6 DEF Board!Next

\* A Run gets an occurrence that is free and that its slot has.
LEMMA OccurrenceGiven ==
    ASSUME NEW r \in Runs, NEW s \in Slots, NEW w \in Windows, NEW time, NEW origin,
           link \in [Runs -> LinkRows(Nat) \cup {None}], link[r] = None,
           ~Fulfilled(s, w), [slot |-> s, of |-> s, window |-> w, time |-> time, origin |-> origin] # None,
           link' = [link EXCEPT ![r] = [slot |-> s, of |-> s, window |-> w, time |-> time, origin |-> origin]],
           slot'[s].there, slot'[s].isActive, slot'[s].time = time, slot'[s].from <= w
    PROVE  Board!GetsOccurrence(r, origin)
<1> DEFINE occurrence == [slot |-> s, of |-> s, window |-> w, time |-> slot'[s].time, origin |-> origin]
<1>1. ~Board!Occupied(s, w)
  BY DEF Fulfilled, Fulfils, Board!Occupied
<1>2. Board!Covers(slot'[s], occurrence)
  BY DEF Board!Covers
<1>3. link'[r] # None /\ link' = [link EXCEPT ![r] = occurrence]
  OBVIOUS
<1> QED BY <1>1, <1>2, <1>3 DEF Board!GetsOccurrence

LEMMA CreateOnBoard ==
    ASSUME IInv, InBounds, \A q \in Requests : Decided(q), NEW p \in Requests, NEW r \in Runs,
           CreateScheduleRun(p, r)
    PROVE  Board!Create(r) /\ \A q \in Requests : Decided(q)'
<1> DEFINE plan == req[p].plan
           s == plan.slot
           w == plan.window
           l == [slot |-> s, of |-> s, window |-> w, time |-> plan.time, origin |-> "MATERIALIZED"]
           new == [status |-> "OPEN", archived |-> FALSE, used |-> FALSE,
                   start |-> StartOf(plan.time, w)]
<1>1. /\ Creating(p) /\ SlotFree(s) /\ SlotStillHas(plan) /\ ~Fulfilled(s, w)
      /\ run[r].status = "NONE"
      /\ run' = [run EXCEPT ![r] = new] /\ link' = [link EXCEPT ![r] = l]
      /\ req' = Created(p, {})
      /\ UNCHANGED <<now, slot, revived, late>>
  BY DEF CreateScheduleRun
<1>2. plan \in Plans(Nat) /\ \A q \in Requests \ {p} : req'[q] = req[q]
  BY <1>1, CreatedRequest
<1>3. s \in Slots /\ w \in Nat /\ plan.time \in Times
  BY <1>2 DEF Plans
<1>4. Shape /\ link[r] = None
  BY <1>1 DEF IInv, Rows, LinkOK
<1>5. w \in Windows
  BY <1>1, <1>3, ClockIsNumbered DEF Creating, InBounds, RequestInBounds
<1>6. l \in LinkRows(Nat) /\ l # None
  BY <1>3, NoneAssumption DEF LinkRows
<1>7. /\ slot'[s].there /\ slot'[s].isActive /\ slot'[s].time = plan.time /\ slot'[s].from <= w
  BY <1>1, <1>3, <1>4 DEF SlotStillHas, IsBeforeScheduleStart, Shape, SlotShape
<1>8. link'[r] = l /\ l.window = w /\ l.time = plan.time /\ \A x \in Runs \ {r} : link'[x] = link[x]
  BY <1>1, <1>4 DEF Shape
<1>9. run'[r] = new /\ \A x \in Runs \ {r} : run'[x] = run[x]
  BY <1>1, <1>4 DEF Shape
<1>10. Board!GetsOccurrence(r, "MATERIALIZED")
  <2>1. link \in [Runs -> LinkRows(Nat) \cup {None}]
    BY <1>4 DEF Shape
  <2>2. [slot |-> s, of |-> s, window |-> w, time |-> plan.time, origin |-> "MATERIALIZED"] # None
    BY <1>6
  <2> HIDE DEF plan, s, w, new
  <2> QED BY <1>1, <1>3, <1>4, <1>5, <1>7, <2>1, <2>2, OccurrenceGiven
<1>11. new = [status |-> "OPEN", archived |-> FALSE, used |-> FALSE,
              start |-> link'[r].window * Week + link'[r].time]
  BY <1>8 DEF StartOf
<1>12. Board!Create(r)
  BY <1>1, <1>10, <1>11 DEF Board!Create
<1>13. ASSUME NEW q \in Requests \ {p} PROVE Decided(q)'
  <2>1. \A x \in Runs : link[x] # None =>
            link'[x] = link[x] /\ (Board!Idling(x)' => Board!Idling(x))
    BY <1>1, <1>4, <1>8, <1>9 DEF Board!Idling, Board!IsLive
  <2>2. \A x \in Runs : run[x].status # "NONE" => run'[x].start = run[x].start
    BY <1>1, <1>9
  <2> QED BY <1>1, <1>2, <2>1, <2>2, OthersDecided
<1>14. Decided(p)'
  <2>1. {} \in SUBSET Slots
    OBVIOUS
  <2>2. \E x : req' = [req EXCEPT ![p] = x] /\ x.op \in {"pass", "idle"}
    BY <1>1, <2>1, CreatedRequest DEF Creating, PassShape, Idle
  <2>3. req'[p].op \in {"pass", "idle"}
    BY <2>2 DEF IInv
  <2> QED BY <2>3 DEF Decided, RetiresOrphans, AttachFits, Changes
<1> QED BY <1>12, <1>13, <1>14

LEMMA AttachOnBoard ==
    ASSUME IInv, InBounds, \A q \in Requests : Decided(q), NEW p \in Requests, AttachCommits(p)
    PROVE  (\E r \in Runs : Board!Attach(r)) /\ \A q \in Requests : Decided(q)'
<1> DEFINE s == req[p].slot
           r == req[p].run
           w == WindowOf(run[r].start)
           row == req[p].row
           l == [slot |-> s, of |-> s, window |-> w, time |-> row.time, origin |-> "ATTACHED"]
<1>1. /\ req[p].op = "attach" /\ link[r] = None /\ ~Fulfilled(s, w)
      /\ slot' = [slot EXCEPT ![s] = row] /\ link' = [link EXCEPT ![r] = l]
      /\ req' = [req EXCEPT ![p] = Idle]
      /\ UNCHANGED <<now, run, revived, late>>
  BY DEF AttachCommits
<1>2. s \in Slots /\ r \in Runs /\ row \in SlotShape /\ Shape
  BY <1>1, Kinds DEF AttachShape, IInv, Rows
<1>3. /\ row.there /\ run[r].status # "NONE"
      /\ slot[s] = row \/ ~slot[s].there
      /\ slotLock[s] = p
  BY <1>1, <1>2 DEF IInv, ReqOK, AttachOK, Holds
<1>4. row.isActive /\ row.from <= w
  BY <1>1 DEF Decided, AttachFits
<1>5. w \in Windows /\ w \in Nat
  <2>1. run[r].start \in Nat /\ run[r].start < (LastWindow + 1) * Week
    BY <1>2 DEF Shape, RunShape, InBounds, RowsInBounds
  <2> QED BY <2>1, WindowsBelow, ClockIsNumbered
<1>6. l \in LinkRows(Nat) /\ l # None /\ l.slot = s
  BY <1>2, <1>5, NoneAssumption DEF LinkRows, SlotShape
<1>7. slot'[s] = row /\ \A u \in Slots \ {s} : slot'[u] = slot[u]
  BY <1>1, <1>2 DEF Shape
<1>8. link'[r] = l /\ \A x \in Runs \ {r} : link'[x] = link[x]
  BY <1>1, <1>2 DEF Shape
<1>9. Board!GetsOccurrence(r, "ATTACHED")
  <2>1. link \in [Runs -> LinkRows(Nat) \cup {None}]
    BY <1>2 DEF Shape
  <2>2. [slot |-> s, of |-> s, window |-> w, time |-> row.time, origin |-> "ATTACHED"] # None
    BY <1>6
  <2>3. /\ link[r] = None /\ ~Fulfilled(s, w)
        /\ link' = [link EXCEPT ![r] = [slot |-> s, of |-> s, window |-> w, time |-> row.time,
                                        origin |-> "ATTACHED"]]
    BY <1>1
  <2>4. slot'[s].there /\ slot'[s].isActive /\ slot'[s].time = row.time /\ slot'[s].from <= w
    BY <1>3, <1>4, <1>7
  <2>5. s \in Slots /\ r \in Runs /\ w \in Windows
    BY <1>2, <1>5
  <2> HIDE DEF s, r, w, row
  <2> QED BY <2>1, <2>2, <2>3, <2>4, <2>5, OccurrenceGiven
<1>10. \A u \in Slots : slot[u].there \/ u # link'[r].slot => slot'[u] = slot[u]
  BY <1>3, <1>6, <1>7, <1>8
<1>11. Board!Attach(r)
  BY <1>1, <1>3, <1>9, <1>10 DEF Board!Attach
<1>12. ASSUME NEW q \in Requests \ {p} PROVE Decided(q)'
  <2>1. ~Holds(q, s) /\ req'[q] = req[q]
    BY <1>1, <1>2, <1>3 DEF IInv, ReqOK
  <2>2. \A x \in Runs : link[x] # None =>
            link'[x] = link[x] /\ (Board!Idling(x)' => Board!Idling(x))
    BY <1>1, <1>8 DEF Board!Idling, Board!IsLive
  <2> QED BY <1>1, <1>7, <2>1, <2>2, OthersDecided
<1>13. Decided(p)'
  BY <1>1, EndedDecided DEF IInv
<1> QED BY <1>2, <1>11, <1>12, <1>13

\* A change commits.  It took no signed up Run, and what idles in its slots goes
\* exactly if the new rows do not cover it: RetiresOrphans has the one direction,
\* NoOrphan after the step the other.
LEMMA CommitOnBoard ==
    ASSUME IInv, IInv', \A q \in Requests : Decided(q), NEW p \in Requests, CommitChange(p)
    PROVE  /\ UNCHANGED Board!boardVars \/ \E gone \in SUBSET Runs : Board!Change(gone)
           /\ \A q \in Requests : Decided(q)'
<1> DEFINE held == req[p].held
           retire == req[p].retire
           op == req[p].op
           new == req[p].new
<1>1. /\ op \in Changes /\ req' = [req EXCEPT ![p] = Idle]
      /\ slot' = [s \in Slots |-> IF s \in held THEN ChangedSlot(p, s) ELSE slot[s]]
      /\ run' = [r \in Runs |-> IF r \in retire
                                THEN [run[r] EXCEPT !.status = "CANCELLED", !.archived = TRUE]
                                ELSE run[r]]
      /\ link' = [r \in Runs |-> FreedLink(p, r)]
      /\ UNCHANGED <<now, revived, late>>
  BY DEF CommitChange
<1>2. held \subseteq Slots /\ retire \subseteq Runs /\ Shape /\ ReqOK(p) /\ RetiresOrphans(p)
  BY <1>1, Kinds DEF ChangeShape, IInv, Rows, Decided
<1>3. \A r \in retire : /\ link[r] # None /\ link[r].slot \in held
                        /\ link[r].origin = "MATERIALIZED"
                        /\ run[r].used => r \in late
  BY <1>1, <1>2 DEF ReqOK, RetireOK
<1>4. /\ \A s \in held : slot'[s] = ChangedSlot(p, s) /\ slot'[s].rev = slot[s].rev + 1
      /\ \A s \in Slots \ held : slot'[s] = slot[s]
  BY <1>1, <1>2, ChangedRows
<1>5. \A s \in held : slot'[s] # slot[s]
  <2>1. \A s \in held : slot[s].rev \in Nat
    BY <1>2 DEF Shape, SlotShape
  <2>2. \A n \in Nat : n + 1 # n
    OBVIOUS
  <2> QED BY <1>4, <2>1, <2>2
<1>6. Board!Changed = held
  BY <1>2, <1>4, <1>5 DEF Board!Changed
<1>7. ASSUME NEW r \in Runs
      PROVE  /\ run'[r].start = run[r].start
             /\ r \in retire => ~Board!Idling(r)'
             /\ r \notin retire => run'[r] = run[r]
  <2>1. run[r] \in RunShape
    BY <1>2 DEF Shape
  <2>2. CASE r \in retire
    <3>1. run'[r] = [run[r] EXCEPT !.status = "CANCELLED", !.archived = TRUE]
      BY <1>1, <2>2
    <3>2. run'[r].start = run[r].start /\ run'[r].status = "CANCELLED"
      BY <2>1, <3>1 DEF RunShape
    <3> QED BY <2>2, <3>2 DEF Board!Idling, Board!IsLive
  <2>3. CASE r \notin retire
    BY <1>1, <2>3
  <2> QED BY <2>2, <2>3
<1>8. ASSUME NEW r \in Runs
      PROVE  /\ link[r] # None /\ link[r].slot \notin held => link'[r] = link[r]
             /\ link[r] = None => link'[r] = None
  BY <1>1, <1>3 DEF FreedLink
<1>9. op \in Changes /\ UNCHANGED <<now, revived, late>>
  BY <1>1
<1>10. ASSUME NEW s \in held
       PROVE  /\ op = "updateSlot" => slot'[s].time = new.time /\ slot'[s].from = new.from
              /\ op = "deactivateSlot" => ~slot'[s].isActive
              /\ op \notin {"updateSlot", "deactivateSlot"} => ~slot'[s].there
  <2>1. slot'[s] = ChangedSlot(p, s)
    BY <1>4
  <2> QED BY <1>9, <2>1, ChangedRows
<1> HIDE DEF held, retire, new
<1>11. ASSUME NEW r \in Runs, Board!Idling(r), link[r].slot \in held
      PROVE  r \in retire <=> ~Board!Covers(slot'[link[r].slot], link[r])
  <2> DEFINE s == link[r].slot
  <2>1. /\ link[r] # None /\ link[r].origin = "MATERIALIZED" /\ IsLive(r)
        /\ ~run[r].used /\ run[r].start > now /\ r \notin revived
    BY <1>11, IdlingRuns
  <2>2. /\ slot[s].there /\ slot[s].isActive /\ slot[s].time = link[r].time
    BY <2>1 DEF IInv, Rows, NoOrphan
  <2>3. /\ op = "updateSlot" => slot'[s].time = new.time /\ slot'[s].from = new.from
        /\ op = "deactivateSlot" => ~slot'[s].isActive
        /\ op \notin {"updateSlot", "deactivateSlot"} => ~slot'[s].there
    BY <1>10, <1>11
  <2>4. ASSUME r \in retire PROVE ~Board!Covers(slot'[s], link[r])
    <3>1. Affects(p, s, link[r].window)
      BY <1>1, <1>2, <1>11, <2>4 DEF RetiresOrphans, retire
    <3>2. CASE op = "updateSlot"
      <4>1. new.time # slot[s].time \/ link[r].window < new.from
        BY <3>1, <3>2 DEF Affects, IsBeforeScheduleStart, new
      <4>2. new.from \in Nat /\ link[r].window \in Nat
        <5>1. new \in SlotShape
          BY <1>2, <3>2 DEF ReqOK, RetireOK, Changes, new
        <5>2. link[r] \in LinkRows(Nat)
          BY <1>2, <2>1 DEF Shape
        <5> QED BY <5>1, <5>2 DEF SlotShape, LinkRows
      <4> QED BY <2>2, <2>3, <3>2, <4>1, <4>2 DEF Board!Covers
    <3>3. CASE op # "updateSlot"
      BY <2>3, <3>3 DEF Board!Covers
    <3> QED BY <3>2, <3>3
  <2>5. ASSUME r \notin retire PROVE Board!Covers(slot'[s], link[r])
    <3>1. link'[r] = link[r] \/ link'[r] = [link[r] EXCEPT !.slot = None]
      BY <1>1 DEF FreedLink
    <3>2. link[r] \in LinkRows(Nat)
      BY <1>2, <2>1 DEF Shape
    <3>3. /\ link'[r].slot \in {s, None} /\ link'[r].window = link[r].window
          /\ link'[r].time = link[r].time /\ link'[r].origin = link[r].origin
          /\ link'[r] \in LinkRows(Nat)
      BY <3>1, <3>2 DEF LinkRows
    <3>4. link'[r] # None
      BY <3>3, NoneAssumption
    <3>5. run'[r] = run[r]
      BY <1>7, <2>5
    <3>6. /\ link'[r].slot # None
          /\ LET u == slot'[link'[r].slot] IN
             u.there /\ u.isActive /\ u.time = link'[r].time /\ ~IsBeforeScheduleStart(u, link'[r].window)
      BY <1>1, <2>1, <3>3, <3>4, <3>5 DEF IInv, Rows, NoOrphan, IsLive, IsBeforeScheduleStart
    <3>7. slot'[s].from \in Nat /\ link[r].window \in Nat
      <4>1. s \in Slots
        BY <1>2, <1>11 DEF held
      <4> QED BY <3>2, <4>1 DEF IInv, Rows, Shape, SlotShape, LinkRows
    <3> QED BY <3>3, <3>6, <3>7 DEF Board!Covers, IsBeforeScheduleStart
  <2> QED BY <2>4, <2>5
<1>12. link' = [r \in Runs |-> IF r \in retire \/ (link[r] # None /\ link[r].slot \in
                                      IF op \in {"deleteSlot", "deleteRunSetup"} THEN held ELSE {})
                               THEN [link[r] EXCEPT !.slot = None] ELSE link[r]]
  BY <1>1 DEF FreedLink, held, retire
<1>13. op \in {"deleteSlot", "deleteRunSetup"} => held = {s \in Board!Changed : ~slot'[s].there}
  BY <1>6, <1>10
<1>14. ASSUME held = {} PROVE UNCHANGED Board!boardVars
  <2>1. retire = {}
    BY <1>3, <1>14
  <2>2. slot' = slot /\ run' = run /\ link' = link
    BY <1>1, <1>2, <1>12, <1>14, <2>1 DEF Shape, held, retire
  <2> QED BY <1>9, <2>2 DEF Board!boardVars
<1>15. ASSUME held # {} PROVE \E gone \in SUBSET Runs : Board!Change(gone)
  <2>1. \E deleted \in {{}, {s \in Board!Changed : ~slot'[s].there}} :
            link' = [r \in Runs |-> IF r \in retire \/ (link[r] # None /\ link[r].slot \in deleted)
                                    THEN [link[r] EXCEPT !.slot = None] ELSE link[r]]
    <3> DEFINE freed(deleted) == [r \in Runs |-> IF r \in retire \/ (link[r] # None /\ link[r].slot \in deleted)
                                                 THEN [link[r] EXCEPT !.slot = None] ELSE link[r]]
    <3>1. CASE op \in {"deleteSlot", "deleteRunSetup"}
      <4>1. link' = freed(held)
        BY <1>12, <3>1
      <4> QED BY <1>13, <3>1, <4>1
    <3>2. CASE op \notin {"deleteSlot", "deleteRunSetup"}
      <4>1. link' = freed({})
        BY <1>12, <3>2
      <4> QED BY <4>1
    <3> QED BY <3>1, <3>2
  <2>2. \A r \in Runs : Board!Idling(r) /\ link[r].slot \in Board!Changed =>
            (r \in retire <=> ~Board!Covers(slot'[link[r].slot], link[r]))
    BY <1>6, <1>11
  <2>3. run' = [r \in Runs |-> IF r \in retire
                               THEN [run[r] EXCEPT !.status = "CANCELLED", !.archived = TRUE]
                               ELSE run[r]]
    BY <1>1 DEF retire
  <2>4. Board!Change(retire)
    BY <1>1, <1>3, <1>6, <1>15, <2>1, <2>2, <2>3 DEF Board!Change
  <2>5. retire \in SUBSET Runs
    BY <1>2 DEF retire
  <2> QED BY <2>4, <2>5
<1>16. ASSUME NEW q \in Requests \ {p} PROVE Decided(q)'
  <2>1. \A s \in Slots : Holds(q, s) => s \notin held
    <3>1. \A s \in held : slotLock[s] = p
      BY <1>2, <1>9 DEF ReqOK, Holds, held
    <3> QED BY <3>1 DEF IInv, ReqOK
  <2>2. req'[q] = req[q]
    BY <1>1 DEF IInv
  <2>3. \A s \in Slots : Holds(q, s) => slot'[s] = slot[s]
    BY <1>4, <2>1
  <2>4. ASSUME NEW r \in Runs, link[r] # None, Holds(q, link[r].slot)
        PROVE  link'[r] = link[r] /\ (Board!Idling(r)' => Board!Idling(r))
    <3>1. link[r].slot \in Slots
      BY <2>4, Kinds DEF Holds, ChangeShape, AttachShape
    <3>2. link[r].slot \notin held /\ r \notin retire
      BY <1>3, <2>1, <2>4, <3>1
    <3>3. link'[r] = link[r] /\ run'[r] = run[r]
      BY <1>7, <1>8, <2>4, <3>2
    <3> QED BY <1>1, <3>3 DEF Board!Idling, Board!IsLive
  <2> QED BY <1>7, <2>2, <2>3, <2>4, OthersDecided
<1>17. Decided(p)'
  BY <1>1, EndedDecided DEF IInv
<1> QED BY <1>14, <1>15, <1>16, <1>17

\* A slot nothing idles in is switched on again, or written.
LEMMA FreeSlotOnBoard ==
    ASSUME IInv, \A q \in Requests : Decided(q), NEW s \in Slots, SlotFree(s),
           NEW row \in SlotShape, slot' = [slot EXCEPT ![s] = row], row # slot[s],
           ~slot[s].there \/ ~slot[s].isActive,
           UNCHANGED <<now, run, link, req, revived, late>>
    PROVE  Board!Change({}) /\ \A q \in Requests : Decided(q)'
<1>1. Shape /\ slot'[s] # slot[s] /\ \A u \in Slots \ {s} : slot'[u] = slot[u]
  BY DEF IInv, Rows, Shape
<1>2. Board!Changed = {s}
  BY <1>1 DEF Board!Changed
<1>3. \A r \in Runs : Board!Idling(r) => link[r].slot # s
  <2> SUFFICES ASSUME NEW r \in Runs, Board!Idling(r), link[r].slot = s PROVE FALSE
    OBVIOUS
  <2>1. link[r] # None /\ link[r].origin = "MATERIALIZED" /\ IsLive(r)
        /\ ~run[r].used /\ run[r].start > now /\ r \notin revived
    BY IdlingRuns
  <2> QED BY <2>1 DEF IInv, Rows, NoOrphan
<1>4. run = [r \in Runs |-> run[r]] /\ link = [r \in Runs |-> link[r]]
  BY <1>1 DEF Shape
<1>5. Board!Change({})
  <2>1. \E deleted \in {{}, {u \in Board!Changed : ~slot'[u].there}} :
            link' = [r \in Runs |-> IF r \in {} \/ (link[r] # None /\ link[r].slot \in deleted)
                                    THEN [link[r] EXCEPT !.slot = None] ELSE link[r]]
    BY <1>4
  <2>2. run' = [r \in Runs |-> IF r \in {}
                               THEN [run[r] EXCEPT !.status = "CANCELLED", !.archived = TRUE]
                               ELSE run[r]]
    BY <1>4
  <2> QED BY <1>2, <1>3, <2>1, <2>2 DEF Board!Change
<1>6. ASSUME NEW q \in Requests PROVE Decided(q)'
  <2>1. ~Holds(q, s)
    BY NoneAssumption DEF SlotFree, IInv, ReqOK
  <2>2. \A x : Board!Idling(x)' => Board!Idling(x)
    BY DEF Board!Idling, Board!IsLive
  <2> QED BY <1>1, <2>1, <2>2, OthersDecided
<1> QED BY <1>5, <1>6

LEMMA SlotStepsOnBoard ==
    ASSUME IInv, \A q \in Requests : Decided(q), NEW s \in Slots,
           ReactivateSlot(s) \/ \E time \in Times, from \in Windows : CreateSlot(s, time, from)
    PROVE  Board!Change({}) /\ \A q \in Requests : Decided(q)'
<1>1. slot[s] \in SlotShape
  BY DEF IInv, Rows, Shape
<1>2. CASE ReactivateSlot(s)
  <2> DEFINE row == [slot[s] EXCEPT !.isActive = TRUE, !.rev = @ + 1]
  <2>1. row \in SlotShape /\ row.isActive /\ ~slot[s].isActive
    <3>1. slot[s].rev + 1 \in Nat
      BY <1>1 DEF SlotShape
    <3>2. row \in SlotShape /\ row.isActive
      BY <1>1, <3>1 DEF SlotShape
    <3> QED BY <1>2, <3>2 DEF ReactivateSlot
  <2>2. /\ SlotFree(s) /\ slot' = [slot EXCEPT ![s] = row] /\ row # slot[s]
        /\ UNCHANGED <<now, run, link, req, revived, late>>
    BY <1>2, <2>1 DEF ReactivateSlot
  <2> HIDE DEF row
  <2> QED BY <2>1, <2>2, FreeSlotOnBoard
<1>3. ASSUME NEW time \in Times, NEW from \in Windows, CreateSlot(s, time, from)
      PROVE  Board!Change({}) /\ \A q \in Requests : Decided(q)'
  <2> DEFINE row == [there |-> TRUE, isActive |-> TRUE, time |-> time, from |-> from, rev |-> 0]
  <2>1. from \in Nat
    BY DEF Windows
  <2>2. row \in SlotShape /\ row.there /\ ~slot[s].there
    BY <1>3, <2>1 DEF SlotShape, CreateSlot
  <2>3. /\ SlotFree(s) /\ slot' = [slot EXCEPT ![s] = row] /\ row # slot[s]
        /\ UNCHANGED <<now, run, link, req, revived, late>>
    BY <1>3, <2>2 DEF CreateSlot
  <2> HIDE DEF row
  <2> QED BY <2>2, <2>3, FreeSlotOnBoard
<1> QED BY <1>2, <1>3

-----------------------------------------------------------------------------
(* The schedule implements the board. *)

BoardInv == IInv /\ InBounds /\ \A p \in Requests : Decided(p)

LEMMA InitOnBoard ==
    ASSUME Init
    PROVE  Board!Init /\ BoardInv
<1>1. IInv /\ InBounds
  BY InitEstablishesIInv, InitInBounds
<1>2. \A p \in Requests : Decided(p)
  <2>1. \A p \in Requests : req[p] = Idle
    BY DEF Init
  <2>2. Idle.op = "idle" /\ "idle" \notin Changes
    BY DEF Idle, Changes
  <2> QED BY <2>1, <2>2 DEF Decided, RetiresOrphans, AttachFits
<1>3. Board!Init
  BY DEF Init, Board!Init
<1> QED BY <1>1, <1>2, <1>3 DEF BoardInv

LEMMA NextOnBoard ==
    ASSUME BoardInv, [Next]_vars
    PROVE  [Board!Next]_Board!boardVars /\ BoardInv'
<1>1. IInv /\ InBounds /\ \A p \in Requests : Decided(p)
  BY DEF BoardInv
<1>2. IInv' /\ InBounds'
  BY <1>1, NextKeepsIInv, NextKeepsBounds
<1> DEFINE OnBoard == [Board!Next]_Board!boardVars /\ \A p \in Requests : Decided(p)'
<1>3. ASSUME NEW p \in Requests, PassStep(p) PROVE OnBoard
  <2>1. ASSUME NEW r \in Runs, CreateScheduleRun(p, r) PROVE OnBoard
    BY <1>1, <2>1, CreateOnBoard DEF Board!Next
  <2>2. CASE ~\E r \in Runs : CreateScheduleRun(p, r)
    BY <1>1, <1>3, <2>2, QuietStepsKeepDecided
  <2> QED BY <2>1, <2>2
<1>4. ASSUME NEW p \in Requests, ChangeStep(p) PROVE OnBoard
  <2>1. CASE CommitChange(p)
    BY <1>1, <1>2, <2>1, CommitOnBoard DEF Board!Next
  <2>2. CASE ~CommitChange(p)
    BY <1>1, <1>4, <2>2, QuietStepsKeepDecided
  <2> QED BY <2>1, <2>2
<1>5. ASSUME NEW p \in Requests, AttachStep(p) PROVE OnBoard
  <2>1. CASE AttachCommits(p)
    BY <1>1, <2>1, AttachOnBoard DEF Board!Next
  <2>2. CASE ~AttachCommits(p)
    BY <1>1, <1>5, <2>2, QuietStepsKeepDecided
  <2> QED BY <2>1, <2>2
<1>6. ASSUME NEW p \in Requests, Die(p) PROVE OnBoard
  BY <1>1, <1>6, QuietStepsKeepDecided
<1>7. ASSUME NEW s \in Slots,
             ReactivateSlot(s) \/ \E time \in Times, from \in Windows : CreateSlot(s, time, from)
      PROVE  OnBoard
  BY <1>1, <1>7, SlotStepsOnBoard DEF Board!Next
<1>8. ASSUME Tick \/ \E r \in Runs : SignUp(r) \/ CancelRun(r) \/ ReactivateRun(r) PROVE OnBoard
  BY <1>1, <1>8, RunStepsOnBoard
<1>9. ASSUME UNCHANGED vars PROVE OnBoard
  <2>1. UNCHANGED Board!boardVars
    BY <1>9 DEF vars, rows, Board!boardVars
  <2>2. UNCHANGED <<now, slot, run, link, revived, req>>
    BY <1>9 DEF vars, rows
  <2>3. ASSUME NEW q \in Requests PROVE Decided(q)'
    <3>1. \A r : Board!Idling(r)' <=> Board!Idling(r)
      BY <2>2 DEF Board!Idling, Board!IsLive
    <3> QED BY <1>1, <2>2, <3>1, OthersDecided
  <2> QED BY <2>1, <2>3
<1> HIDE DEF OnBoard
<1>10. OnBoard
  BY <1>3, <1>4, <1>5, <1>6, <1>7, <1>8, <1>9 DEF Next
<1> QED BY <1>2, <1>10 DEF OnBoard, BoardInv

\* The schedule implements ScheduleBoard: a pass, a Create Run, a slot change or
\* an attachment, which works from what it read and holds row locks over several
\* steps (createOpenRunWithScheduleLink, retireOwnedDraftsInTx,
\* attachExistingRunInTx), is one step of the board when it commits, right for
\* the board as it then is, and none before that or when it fails.
THEOREM ScheduleFollowsBoard == Spec => FollowsBoard
<1>1. Init => Board!Init /\ BoardInv
  BY InitOnBoard
<1>2. BoardInv /\ [Next]_vars => [Board!Next]_Board!boardVars /\ BoardInv'
  BY NextOnBoard
<1> QED BY <1>1, <1>2, PTL DEF Spec, FollowsBoard, Board!Spec
=============================================================================
