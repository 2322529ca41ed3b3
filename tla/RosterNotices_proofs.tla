------------------------- MODULE RosterNotices_proofs -------------------------
(* Proofs about RosterNotices, for every set of players, plans and versions. *)
EXTENDS RosterNotices, FiniteSetTheorems, TLAPS

-----------------------------------------------------------------------------
(* The inductive invariant. *)

\* Nothing is told ahead of the roster version; what waits tells something.
RowsInv == \A k \in Keys : /\ k.version > version => row[k] = NoRow
                           /\ row[k].status \in Waiting => row[k].type # "none"
                           /\ row[k].status = "QUIET" => k \in delayed

\* A player has one slot, of a signup that is offered; a published signup was
\* told something.
OneSlot(chars) == \A s, t \in chars : SamePlayer(s, t) => s = t
PublishedSlots == {s \in Signups : signup[s] = "SELECTED"}
RosterInv == /\ OneSlot(draft) /\ OneSlot(PublishedSlots)
             /\ \A s \in draft : Active(s)
             /\ \A s \in PublishedSlots : Noticed(s) # {}

\* The lane works through different notices, the oldest first.
LaneInv == /\ lane.pc = "idle" => lane = LaneIdle
           /\ lane.pc \in {"confirmed", "sent", "refused"} <=> lane.item # NoItem
           /\ \A i \in Listed : i.key.version <= version /\ row[i.key].type # "none"
           /\ \A i, j \in Listed : i.key = j.key => i = j
           /\ lane.item # NoItem => \A i \in lane.todo : /\ lane.item.key # i.key
                                                         /\ lane.item.key.version <= i.key.version

\* Nothing newer was sent than a notice that waits its turn, and the lane
\* does not pass over an older one.
Fresh(k) == k \in delayed \/ newest[k.signup] <= k.version
OrderInv == /\ \A s \in Signups : newest[s] <= version
            /\ \A k \in Keys : row[k].status = "PENDING" => Fresh(k)
            /\ \A i \in Listed : Fresh(i.key)
            /\ \A j \in Listed : \A k \in Keys :
                 /\ k.signup = j.key.signup /\ k.version < j.key.version
                 /\ row[k].status = "PENDING" /\ k \notin delayed
                 => \E i \in Listed : i.key = k

\* Who takes part and was told so has heard the published plan, or will: from
\* a waiting notice, and one rendered before it is followed by another.
TakesPart(s) == Active(s) /\ (signup[s] = "SELECTED" \/ ToldIn(s))
MayMiss(s) == s \in excused.overtaken \cup excused.unheard \cup excused.rejoined
Later(s) == \E k \in WaitingPicks(s, PickTypes) : \A i \in Listed : i.key # k
PlanInv == /\ \A s \in Signups : TakesPart(s) =>
                heard[s] = publicPlan[s] \/ MayMiss(s) \/ WaitingPicks(s, PickTypes) # {}
           /\ \A i \in Listed :
                row[i.key].type # "removed" /\ TakesPart(i.key.signup) =>
                  \/ row[i.key].status \in Waiting /\ i.plan = publicPlan[i.key.signup]
                  \/ MayMiss(i.key.signup)
                  \/ Later(i.key.signup)
           /\ lane.pc = "sent" /\ row[lane.item.key].type # "removed" =>
                heard[lane.item.key.signup] = lane.item.plan

IInv == /\ NoticeTypeOK
        /\ RowsInv
        /\ RosterInv
        /\ NoticesMatchRoster
        /\ LaneInv
        /\ OrderInv
        /\ PlanInv


-----------------------------------------------------------------------------
(* What a roster write does to the notices. *)

Tells(type, k) == k.version = version + 1 /\ type[k.signup] # "none"
Written(chars, type, superseded, absorbed) ==
    /\ version' = version + 1 /\ version' \in Versions
    /\ lane' = lane /\ heard' = heard /\ newest' = newest
    /\ delayed \subseteq delayed'
    /\ \A k \in Keys : Tells(type, k) =>
         /\ row'[k].type = type[k.signup]
         /\ row'[k].status \in {"PENDING", "QUIET", "SKIPPED"}
         /\ row'[k].status = "QUIET" => k \in delayed'
         /\ type[k.signup] \in PickTypes => row'[k].status \in Waiting \/ k.signup \in excused'.unheard
         /\ type[k.signup] = "removed" /\ StaysIn(chars, k.signup) => row'[k].status = "SKIPPED"
    /\ \A k \in Keys : ~Tells(type, k) =>
         \/ row'[k] = row[k] /\ k \notin superseded
         \/ k \in superseded /\ row'[k].type = row[k].type /\ row'[k].status = "SKIPPED"
    /\ \A s \in Signups : type[s] \notin PickTypes =>
         /\ MayMiss(s) => MayMiss(s)'
         /\ s \in excused.seeded => s \in excused'.seeded
         /\ s \in excused.rejoined => s \in excused'.rejoined
    /\ \A s \in absorbed : InLane(s) => s \in excused'.overtaken

LEMMA WriteIsWritten ==
    ASSUME NoticeTypeOK, NEW chars \in SUBSET Signups, NEW type \in [Signups -> NoticeTypes],
           NEW superseded \in SUBSET Keys, NEW absorbed \in SUBSET Signups,
           WriteNotices(chars, type, superseded, absorbed),
           version < MaxVersion, version' = version + 1, UNCHANGED <<lane, messageVars>>
    PROVE  /\ Written(chars, type, superseded, absorbed)
           /\ row' \in [Keys -> Rows] /\ delayed' \subseteq Keys /\ excused' \in Openings
<1> DEFINE told == {s \in Signups : type[s] # "none"}
           silent == {s \in told : type[s] = "removed" /\ StaysIn(chars, s)}
           picked == {s \in told : type[s] \in PickTypes}
<1>1. PICK mode \in [told \ silent -> Modes] :
        /\ row' = [k \in Keys |->
                     IF k.version = version + 1 /\ k.signup \in told
                     THEN [type |-> type[k.signup],
                           status |-> IF k.signup \in silent THEN "SKIPPED" ELSE mode[k.signup]]
                     ELSE IF k \in superseded THEN [row[k] EXCEPT !.status = "SKIPPED"] ELSE row[k]]
        /\ delayed' = delayed \cup {[signup |-> s, version |-> version + 1] :
                                         s \in {t \in told \ silent : mode[t] = "QUIET"}}
        /\ excused' = [seeded |-> excused.seeded \ picked,
                       rejoined |-> excused.rejoined \ picked,
                       overtaken |-> (excused.overtaken \ picked) \cup {s \in absorbed : InLane(s)},
                       unheard |-> (excused.unheard \ picked) \cup {s \in picked : mode[s] = "SKIPPED"}]
  BY Zenon DEF WriteNotices
<1> HIDE DEF told, silent, picked
<1>2. /\ version \in Versions /\ version' \in Versions /\ row \in [Keys -> Rows]
      /\ delayed \subseteq Keys /\ excused \in Openings
  BY NoticesAssumption DEF NoticeTypeOK, Versions
<1>3. \A s \in told \ silent : mode[s] \in {"PENDING", "QUIET", "SKIPPED"}
  BY <1>1, NoticesAssumption
<1>4. \A k \in Keys : Tells(type, k) <=> k.version = version + 1 /\ k.signup \in told
  BY DEF Tells, told, Keys
<1>5. \A k \in Keys : k.signup \in Signups /\ k.version \in Versions /\ k = [signup |-> k.signup, version |-> k.version]
  BY DEF Keys
<1>6. \A s \in picked : s \in told \ silent /\ s \in Signups
  BY DEF told, silent, picked, PickTypes
<1>7. ASSUME NEW k \in Keys, Tells(type, k)
      PROVE  /\ row'[k] = [type |-> type[k.signup],
                           status |-> IF k.signup \in silent THEN "SKIPPED" ELSE mode[k.signup]]
             /\ k.signup \in told
             /\ row'[k].type = type[k.signup]
             /\ row'[k].status \in {"PENDING", "QUIET", "SKIPPED"}
             /\ row'[k].status = "QUIET" => k \in delayed'
             /\ type[k.signup] \in PickTypes => row'[k].status \in Waiting \/ k.signup \in excused'.unheard
             /\ type[k.signup] = "removed" /\ StaysIn(chars, k.signup) => row'[k].status = "SKIPPED"
  <2>1. /\ k.signup \in told /\ k.version = version + 1
        /\ row'[k] = [type |-> type[k.signup],
                      status |-> IF k.signup \in silent THEN "SKIPPED" ELSE mode[k.signup]]
    BY <1>1, <1>4, <1>7
  <2>2. row'[k].status \in {"PENDING", "QUIET", "SKIPPED"} /\ row'[k].type = type[k.signup]
    BY <2>1, <1>3
  <2>3. row'[k].status = "QUIET" => k \in delayed'
    <3>1. SUFFICES ASSUME row'[k].status = "QUIET" PROVE k \in delayed'
      OBVIOUS
    <3>2. k.signup \in {t \in told \ silent : mode[t] = "QUIET"}
      BY <3>1, <2>1
    <3> QED BY <3>2, <2>1, <1>1, <1>5
  <2>4. type[k.signup] \in PickTypes => row'[k].status \in Waiting \/ k.signup \in excused'.unheard
    <3>1. SUFFICES ASSUME type[k.signup] \in PickTypes, row'[k].status \notin Waiting
                   PROVE  k.signup \in excused'.unheard
      OBVIOUS
    <3>2. k.signup \in picked
      BY <3>1, <2>1 DEF picked
    <3>3. mode[k.signup] = "SKIPPED"
      BY <3>1, <3>2, <2>1, <1>6, <1>3 DEF Waiting
    <3> QED BY <3>2, <3>3, <1>1
  <2>5. type[k.signup] = "removed" /\ StaysIn(chars, k.signup) => row'[k].status = "SKIPPED"
    BY <2>1 DEF silent
  <2> QED BY <2>1, <2>2, <2>3, <2>4, <2>5
<1>8. ASSUME NEW k \in Keys, ~Tells(type, k)
      PROVE  /\ \/ row'[k] = row[k] /\ k \notin superseded
                \/ k \in superseded /\ row'[k].type = row[k].type /\ row'[k].status = "SKIPPED"
             /\ row'[k] \in Rows
  <2>1. row'[k] = IF k \in superseded THEN [row[k] EXCEPT !.status = "SKIPPED"] ELSE row[k]
    BY <1>1, <1>4, <1>8
  <2>2. row[k] \in Rows
    BY <1>2
  <2> QED BY <2>1, <2>2 DEF Rows
<1>9. ASSUME NEW s \in Signups, type[s] \notin PickTypes
      PROVE  /\ MayMiss(s) => MayMiss(s)'
             /\ s \in excused.seeded => s \in excused'.seeded
             /\ s \in excused.rejoined => s \in excused'.rejoined
  BY <1>1, <1>9 DEF picked, MayMiss
<1>10. \A s \in absorbed : InLane(s) => s \in excused'.overtaken
  BY <1>1
<1>11. row' \in [Keys -> Rows]
  <2>1. ASSUME NEW k \in Keys, Tells(type, k) PROVE row'[k] \in Rows
    <3> DEFINE st == IF k.signup \in silent THEN "SKIPPED" ELSE mode[k.signup]
    <3>1. type[k.signup] \in NoticeTypes
      BY <1>5
    <3>2. row'[k] = [type |-> type[k.signup], status |-> st] /\ k.signup \in told
      BY <1>7, <2>1
    <3>3. st \in {"PENDING", "QUIET", "SKIPPED"}
      BY <3>2, <1>3
    <3> HIDE DEF st
    <3> QED BY <3>1, <3>2, <3>3 DEF Rows, Waiting
  <2>2. \A k \in Keys : row'[k] \in Rows
    BY <2>1, <1>8
  <2>3. row' = [k \in Keys |-> row'[k]]
    BY <1>1, Zenon
  <2> QED BY <2>2, <2>3
<1>12. delayed' \subseteq Keys
  BY <1>1, <1>2 DEF Keys, told
<1>13. excused' \in Openings
  BY <1>1, <1>2, <1>6 DEF Openings
<1>14. lane' = lane /\ heard' = heard /\ newest' = newest /\ delayed \subseteq delayed'
  BY <1>1 DEF messageVars
<1> QED BY <1>2, <1>7, <1>8, <1>9, <1>10, <1>11, <1>12, <1>13, <1>14 DEF Written

LEMMA SelectionTypes ==
    ASSUME NEW chars \in SUBSET Signups, NEW known
    PROVE  /\ SelectionNotices(chars, known) \in [Signups -> NoticeTypes]
           /\ \A s \in Signups :
                /\ SelectionNotices(chars, known)[s] \in {"selected", "swapped"} <=> s \in Joining(chars, known)
                /\ SelectionNotices(chars, known)[s] = "removed" <=> s \in Leaving(chars)
                /\ SelectionNotices(chars, known)[s] # "plan"
<1>1. ASSUME NEW s \in Signups
      PROVE  /\ SelectionNotices(chars, known)[s] = "selected" \/ SelectionNotices(chars, known)[s] = "swapped"
                  <=> s \in Joining(chars, known)
             /\ SelectionNotices(chars, known)[s] = "removed" <=> s \in Leaving(chars)
             /\ SelectionNotices(chars, known)[s] \in {"selected", "swapped", "removed", "none"}
  <2>1. SelectionNotices(chars, known)[s] =
          CASE s \in Joining(chars, known) -> IF SwappedIn(chars, s) THEN "swapped" ELSE "selected"
            [] s \in Leaving(chars) -> "removed"
            [] OTHER -> "none"
    BY DEF SelectionNotices
  <2>2. ~(s \in Joining(chars, known) /\ s \in Leaving(chars))
    BY DEF Joining, Leaving
  <2> QED BY <2>1, <2>2
<1>2. SelectionNotices(chars, known) = [s \in Signups |-> SelectionNotices(chars, known)[s]]
  BY DEF SelectionNotices
<1> QED BY <1>1, <1>2 DEF NoticeTypes, PickTypes

LEMMA PublishTypes ==
    ASSUME NEW chars \in SUBSET Signups, NEW new
    PROVE  /\ PublishNotices(chars, new) \in [Signups -> NoticeTypes]
           /\ \A s \in Signups :
                /\ PublishNotices(chars, new)[s] \in PickTypes
                     <=> s \in Joining(chars, {}) \cup Renoticed(chars, new)
                /\ PublishNotices(chars, new)[s] = "removed" <=> s \in Leaving(chars)
<1>1. \A s \in Renoticed(chars, new) : s \in chars /\ s \notin Joining(chars, {})
  BY DEF Renoticed, Replanned
<1>2. \A s \in Leaving(chars) : s \notin chars
  BY DEF Leaving
<1>3. ASSUME NEW s \in Signups
      PROVE  /\ PublishNotices(chars, new)[s] \in NoticeTypes
             /\ PublishNotices(chars, new)[s] \in PickTypes
                  <=> s \in Joining(chars, {}) \cup Renoticed(chars, new)
             /\ PublishNotices(chars, new)[s] = "removed" <=> s \in Leaving(chars)
  <2>1. PublishNotices(chars, new)[s] = IF s \in Renoticed(chars, new) THEN "plan"
                                        ELSE SelectionNotices(chars, {})[s]
    BY DEF PublishNotices
  <2>2. /\ SelectionNotices(chars, {})[s] \in {"selected", "swapped"} <=> s \in Joining(chars, {})
        /\ SelectionNotices(chars, {})[s] = "removed" <=> s \in Leaving(chars)
        /\ SelectionNotices(chars, {})[s] # "plan"
        /\ SelectionNotices(chars, {})[s] \in NoticeTypes
    BY SelectionTypes
  <2> HIDE DEF PublishNotices
  <2> QED BY <2>1, <2>2, <1>1, <1>2 DEF NoticeTypes, PickTypes
<1>4. PublishNotices(chars, new) = [s \in Signups |-> PublishNotices(chars, new)[s]]
  BY DEF PublishNotices
<1> QED BY <1>3, <1>4

LEMMA SaveIsWritten ==
    ASSUME NoticeTypeOK, NEW chars \in SUBSET Signups, NEW new, SaveRoster(chars, new)
    PROVE  /\ Written(chars, SelectionNotices(chars, draft), {}, {})
           /\ row' \in [Keys -> Rows] /\ delayed' \subseteq Keys /\ excused' \in Openings
<1>1. SelectionNotices(chars, draft) \in [Signups -> NoticeTypes]
  BY SelectionTypes
<1>2. /\ WriteNotices(chars, SelectionNotices(chars, draft), {}, {})
      /\ version < MaxVersion /\ version' = version + 1 /\ UNCHANGED <<lane, messageVars>>
  BY DEF SaveRoster, SaveDraft
<1> QED BY <1>1, <1>2, WriteIsWritten

LEMMA PublishIsWritten ==
    ASSUME NoticeTypeOK, NEW chars \in SUBSET Signups, NEW new, Publish(chars, new)
    PROVE  /\ Written(chars, PublishNotices(chars, new), Superseded(chars, new), Absorbed(chars, new))
           /\ row' \in [Keys -> Rows] /\ delayed' \subseteq Keys /\ excused' \in Openings
<1>1. PublishNotices(chars, new) \in [Signups -> NoticeTypes]
  BY PublishTypes
<1>2. /\ WriteNotices(chars, PublishNotices(chars, new), Superseded(chars, new), Absorbed(chars, new))
      /\ version < MaxVersion /\ version' = version + 1 /\ UNCHANGED <<lane, messageVars>>
  BY DEF Publish
<1>3. Superseded(chars, new) \in SUBSET Keys /\ Absorbed(chars, new) \in SUBSET Signups
  BY DEF Superseded, Absorbed, Replanned, WaitingPicks
<1> QED BY <1>1, <1>2, <1>3, WriteIsWritten

\* A write decides what a signup was last told, or leaves it alone.
LEMMA WrittenTells ==
    ASSUME NoticeTypeOK, RowsInv, NEW chars, NEW type \in [Signups -> NoticeTypes],
           NEW superseded, NEW absorbed, Written(chars, type, superseded, absorbed), NEW s \in Signups
    PROVE  /\ type[s] \in PickTypes => ToldIn(s)'
           /\ type[s] = "removed" => (Noticed(s) # {})' /\ ~ToldIn(s)'
           /\ type[s] = "none" => Noticed(s)' = Noticed(s) /\ ToldIn(s)' = ToldIn(s)
<1> DEFINE k0 == [signup |-> s, version |-> version + 1]
<1>1. k0 \in Keys /\ version \in Nat
  BY NoticesAssumption DEF Keys, Written, Versions, NoticeTypeOK
<1>2. ASSUME type[s] # "none"
      PROVE  /\ k0 \in Noticed(s)'
             /\ row'[k0].type = type[s]
             /\ \A j \in Noticed(s)' : j.version <= k0.version
  <2>1. row'[k0].type = type[s]
    BY <1>1, <1>2 DEF Written, Tells
  <2>2. ASSUME NEW j \in Noticed(s)' PROVE j.version <= k0.version
    <3>1. j \in Keys /\ row'[j].type # "none" /\ j.version \in Nat
      BY <2>2, NoticesAssumption DEF Noticed, Keys, Versions
    <3>2. CASE Tells(type, j)
      BY <3>2, <1>1, <3>1 DEF Tells
    <3>3. CASE ~Tells(type, j)
      <4>1. row[j].type # "none"
        BY <3>1, <3>3 DEF Written
      <4>2. ~(j.version > version)
        BY <4>1, <3>1 DEF RowsInv, NoRow
      <4> QED BY <4>2, <1>1, <3>1
    <3> QED BY <3>2, <3>3
  <2> QED BY <2>1, <2>2, <1>1, <1>2 DEF Noticed
<1>3. ASSUME type[s] \in PickTypes PROVE ToldIn(s)'
  <2>1. type[s] # "none" /\ row'[k0].type \in PickTypes
    BY <1>2, <1>3 DEF PickTypes
  <2> QED BY <1>2, <2>1 DEF ToldIn, IsNotifiedSelected
<1>4. ASSUME type[s] = "removed" PROVE (Noticed(s) # {})' /\ ~ToldIn(s)'
  <2>1. k0 \in Noticed(s)' /\ row'[k0].type = "removed" /\ \A j \in Noticed(s)' : j.version <= k0.version
    BY <1>2, <1>4
  <2>2. ASSUME NEW k \in Noticed(s)', row'[k].type \in PickTypes, \A j \in Noticed(s)' : j.version <= k.version
        PROVE FALSE
    <3>1. k.version = k0.version
      <4>1. k.version <= k0.version /\ k0.version <= k.version /\ k \in Keys
        BY <2>1, <2>2 DEF Noticed
      <4> QED BY <4>1, <1>1, NoticesAssumption DEF Keys, Versions
    <3>2. k = k0
      BY <3>1, <2>2 DEF Noticed, Keys
    <3> QED BY <3>2, <2>1, <2>2 DEF PickTypes
  <2> QED BY <2>1, <2>2 DEF ToldIn, IsNotifiedSelected
<1>5. ASSUME type[s] = "none" PROVE Noticed(s)' = Noticed(s) /\ ToldIn(s)' = ToldIn(s)
  <2>1. \A k \in Keys : k.signup = s => row'[k].type = row[k].type
    BY <1>5 DEF Written, Tells
  <2>2. Noticed(s)' = Noticed(s)
    BY <2>1 DEF Noticed
  <2>3. \A k \in Noticed(s) : row'[k].type = row[k].type
    BY <2>1 DEF Noticed
  <2> QED BY <2>2, <2>3 DEF ToldIn, IsNotifiedSelected
<1> QED BY <1>3, <1>4, <1>5

-----------------------------------------------------------------------------
(* RowsInv, LaneInv and OrderInv under the roster's steps. *)

LEMMA WrittenKeeps ==
    ASSUME NoticeTypeOK, RowsInv, LaneInv, OrderInv, NEW chars, NEW type \in [Signups -> NoticeTypes],
           NEW superseded, NEW absorbed, Written(chars, type, superseded, absorbed), row' \in [Keys -> Rows]
    PROVE  RowsInv' /\ LaneInv' /\ OrderInv'
<1>1. /\ version \in Nat /\ version' = version + 1
      /\ Listed' = Listed /\ lane' = lane /\ newest' = newest /\ delayed \subseteq delayed'
      /\ newest \in [Signups -> Nat]
  BY NoticesAssumption DEF Written, Versions, NoticeTypeOK, Listed
<1>2. \A k \in Keys : k.signup \in Signups /\ k.version \in Nat
  BY NoticesAssumption DEF Keys, Versions
<1>3. \A k \in Keys : Tells(type, k) => k.version = version + 1 /\ row'[k].type # "none"
  BY DEF Written, Tells
<1>4. \A k \in Keys : ~Tells(type, k) =>
         /\ row'[k].type = row[k].type
         /\ row'[k] = row[k] \/ row'[k].status = "SKIPPED"
  BY DEF Written
<1>5. ASSUME NEW i \in Listed PROVE i.key \in Keys /\ i.key.version <= version /\ row[i.key].type # "none"
  BY DEF LaneInv, Listed, NoticeTypeOK, LaneRows, Items
<1>6. RowsInv'
  <2>1. ASSUME NEW k \in Keys, k.version > version + 1 PROVE row'[k] = NoRow
    <3>1. ~Tells(type, k) /\ row[k] = NoRow
      BY <2>1, <1>1, <1>2 DEF Tells, RowsInv
    <3>2. row'[k].type = "none" /\ row'[k].status = "SKIPPED" /\ row'[k] \in Rows
      BY <3>1, <1>4 DEF NoRow
    <3> QED BY <3>2 DEF NoRow, Rows
  <2>2. ASSUME NEW k \in Keys, row'[k].status \in Waiting PROVE row'[k].type # "none"
    BY <2>2, <1>3, <1>4 DEF RowsInv, Waiting
  <2>3. ASSUME NEW k \in Keys, row'[k].status = "QUIET" PROVE k \in delayed'
    <3>1. CASE Tells(type, k)
      BY <2>3, <3>1 DEF Written
    <3>2. CASE ~Tells(type, k)
      BY <2>3, <3>2, <1>1, <1>4 DEF RowsInv
    <3> QED BY <3>1, <3>2
  <2> QED BY <2>1, <2>2, <2>3, <1>1 DEF RowsInv
<1>7. LaneInv'
  <2>1. ASSUME NEW i \in Listed PROVE i.key.version <= version + 1 /\ row'[i.key].type # "none"
    BY <1>5, <1>1, <1>2, <1>3, <1>4
  <2> QED BY <2>1, <1>1 DEF LaneInv, LaneIdle
<1>8. OrderInv'
  <2>1. \A s \in Signups : newest[s] <= version + 1
    BY <1>1 DEF OrderInv
  <2>2. \A k \in Keys : Fresh(k) => Fresh(k)'
    BY <1>1 DEF Fresh
  <2>3. ASSUME NEW k \in Keys, row'[k].status = "PENDING" PROVE Fresh(k)'
    <3>1. CASE Tells(type, k)
      BY <3>1, <2>1, <1>1, <1>2, <1>3 DEF Fresh
    <3>2. CASE ~Tells(type, k)
      BY <3>2, <2>3, <2>2, <1>4 DEF OrderInv
    <3> QED BY <3>1, <3>2
  <2>4. \A i \in Listed : Fresh(i.key)'
    BY <2>2, <1>5 DEF OrderInv
  <2>5. ASSUME NEW j \in Listed, NEW k \in Keys, k.signup = j.key.signup, k.version < j.key.version,
               row'[k].status = "PENDING", k \notin delayed'
        PROVE  \E i \in Listed : i.key = k
    <3>1. ~Tells(type, k)
      BY <2>5, <1>1, <1>2, <1>3, <1>5
    <3>2. row[k].status = "PENDING" /\ k \notin delayed
      BY <3>1, <2>5, <1>1, <1>4
    <3> QED BY <3>2, <2>5 DEF OrderInv
  <2> QED BY <2>1, <2>3, <2>4, <2>5, <1>1 DEF OrderInv
<1> QED BY <1>6, <1>7, <1>8

LEMMA UntoldKeeps ==
    ASSUME NoticeTypeOK, RowsInv, LaneInv, OrderInv, UNCHANGED <<row, lane, messageVars, delayed>>,
           version' \in {version, version + 1}
    PROVE  RowsInv' /\ LaneInv' /\ OrderInv'
<1>1. /\ version \in Nat /\ version <= version' /\ version' \in Nat
      /\ Listed' = Listed /\ lane' = lane /\ newest' = newest /\ delayed' = delayed /\ row' = row
      /\ newest \in [Signups -> Nat]
  BY NoticesAssumption DEF Versions, NoticeTypeOK, Listed, messageVars
<1>2. \A k \in Keys : k.signup \in Signups /\ k.version \in Nat
  BY NoticesAssumption DEF Keys, Versions
<1>3. \A i \in Listed : i.key \in Keys
  BY DEF Listed, NoticeTypeOK, LaneRows, Items
<1>4. RowsInv'
  BY <1>1, <1>2 DEF RowsInv
<1>5. LaneInv'
  BY <1>1, <1>2, <1>3 DEF LaneInv, LaneIdle
<1>6. OrderInv'
  BY <1>1, <1>2, <1>3 DEF OrderInv, Fresh
<1> QED BY <1>4, <1>5, <1>6

-----------------------------------------------------------------------------
(* RowsInv, LaneInv and OrderInv under the bot's steps. *)

SameTypes == \A k \in Keys : row'[k].type = row[k].type

LEMMA ListedItems ==
    ASSUME NoticeTypeOK
    PROVE  /\ \A i \in Listed : i \in Items /\ i.key \in Keys /\ i.plan \in BossPlans
           /\ \A i \in Listed : i.key.signup \in Signups /\ i.key.version \in Nat
           /\ \A k \in Keys : k.signup \in Signups /\ k.version \in Nat
           /\ version \in Nat /\ NoItem \notin Items
  BY NoticesAssumption DEF NoticeTypeOK, LaneRows, Listed, Items, Keys, Versions

LEMMA AfterLane ==
    ASSUME NEW T, NoItem \notin T, lane' = After(T)
    PROVE  /\ lane'.item = NoItem /\ lane'.todo = T /\ Listed' = T
           /\ lane' = LaneIdle \/ lane'.pc = "listed"
  BY DEF After, LaneIdle, Listed

LEMMA LaneShrinks ==
    ASSUME NoticeTypeOK, LaneInv, NEW T \in SUBSET Listed, lane' = After(T), version' = version, SameTypes
    PROVE  LaneInv'
<1>1. /\ lane'.item = NoItem /\ lane'.todo = T /\ Listed' = T
      /\ lane' = LaneIdle \/ lane'.pc = "listed"
  BY ListedItems, AfterLane
<1>2. \A i \in T : row'[i.key].type = row[i.key].type
  BY ListedItems DEF SameTypes
<1> QED BY <1>1, <1>2 DEF LaneInv, LaneIdle

LEMMA StatusChanges ==
    ASSUME NEW r \in Rows, NEW st \in Waiting \cup {"SENT", "SKIPPED", "FAILED_PERMANENT"}
    PROVE  /\ [r EXCEPT !.status = st] \in Rows
           /\ [r EXCEPT !.status = st].type = r.type /\ [r EXCEPT !.status = st].status = st
  BY DEF Rows

\* A step of the bot that leaves the rows, or lets quiet hours pass, or settles one.
LEMMA BotRows ==
    ASSUME NoticeTypeOK, RowsInv, BotStep
    PROVE  /\ SameTypes /\ RowsInv' /\ row' \in [Keys -> Rows]
           /\ version' = version /\ delayed \subseteq delayed' /\ UNCHANGED lineupVars
<1>1. row \in [Keys -> Rows]
  BY DEF NoticeTypeOK
<1>2. UNCHANGED lineupVars /\ delayed \subseteq delayed'
  BY DEF BotStep, QuietHoursEnd, ListNotices, ConfirmDm, DmFails, SendDm, DmIsRefused, RecordDm, BotRestarts
<1>3. CASE row' = row
  BY <1>1, <1>2, <1>3 DEF SameTypes, RowsInv, lineupVars
<1>4. ASSUME NEW p \in Players, QuietHoursEnd(p) PROVE SameTypes /\ RowsInv' /\ row' \in [Keys -> Rows]
  <2> DEFINE quiet == {k \in Keys : k.signup \in p /\ row[k].status = "QUIET"}
  <2>1. row' = [k \in Keys |-> IF k \in quiet THEN [row[k] EXCEPT !.status = "PENDING"] ELSE row[k]]
    BY <1>4 DEF QuietHoursEnd
  <2>2. ASSUME NEW k \in Keys
        PROVE  /\ row'[k] \in Rows /\ row'[k].type = row[k].type
               /\ row'[k] = row[k] \/ (row[k].status = "QUIET" /\ row'[k].status = "PENDING")
    <3> DEFINE r0 == [row[k] EXCEPT !.status = "PENDING"]
    <3>1. row[k] \in Rows
      BY <1>1
    <3>2. r0 \in Rows /\ r0.type = row[k].type /\ r0.status = "PENDING"
      BY <3>1, StatusChanges DEF Waiting
    <3>3. row'[k] = IF k \in quiet THEN r0 ELSE row[k]
      BY <2>1, Zenon
    <3>4. k \in quiet => row[k].status = "QUIET"
      OBVIOUS
    <3> HIDE DEF r0, quiet
    <3> QED BY <3>1, <3>2, <3>3, <3>4
  <2>3. version' = version
    BY <1>2 DEF lineupVars
  <2>4. ASSUME NEW k \in Keys, k.version > version PROVE row'[k] = NoRow
    <3>1. row[k] = NoRow
      BY <2>4 DEF RowsInv
    <3>2. row[k].status # "QUIET"
      BY <3>1 DEF NoRow
    <3> QED BY <3>1, <3>2, <2>2
  <2>5. ASSUME NEW k \in Keys
        PROVE  /\ row'[k].status \in Waiting => row'[k].type # "none"
               /\ row'[k].status = "QUIET" => k \in delayed'
    BY <2>2, <1>2 DEF RowsInv, Waiting
  <2>6. row' \in [Keys -> Rows]
    BY <2>1, <2>2
  <2> QED BY <2>2, <2>3, <2>4, <2>5, <2>6 DEF RowsInv, SameTypes
<1>5. ASSUME RecordDm PROVE SameTypes /\ RowsInv' /\ row' \in [Keys -> Rows]
  <2> DEFINE k0 == lane.item.key
             st == IF lane.pc = "sent" THEN "SENT" ELSE "FAILED_PERMANENT"
             r0 == [row[k0] EXCEPT !.status = st]
  <2>1. CASE row[k0].status # "PENDING"
    <3>1. row' = row
      BY <1>5, <2>1, Zenon DEF RecordDm
    <3> QED BY <3>1, <1>3
  <2>2. CASE row[k0].status = "PENDING"
    <3>0. row' = [row EXCEPT ![k0] = r0]
      BY <1>5, <2>2, Zenon DEF RecordDm
    <3> HIDE DEF r0
    <3>1. ASSUME NEW k \in Keys
          PROVE  /\ row'[k] \in Rows /\ row'[k].type = row[k].type
                 /\ row'[k] = row[k] \/ row'[k].status \in {"SENT", "FAILED_PERMANENT"}
      <4>1. row[k] \in Rows
        BY <1>1
      <4>2. row'[k] = IF k = k0 THEN r0 ELSE row[k]
        BY <3>0, <1>1
      <4>3. k = k0 => r0 \in Rows /\ r0.type = row[k].type /\ r0.status = st
        BY <4>1, StatusChanges DEF r0
      <4>4. st \in {"SENT", "FAILED_PERMANENT"}
        OBVIOUS
      <4> HIDE DEF st
      <4> QED BY <4>1, <4>2, <4>3, <4>4
    <3>2. version' = version
      BY <1>2 DEF lineupVars
    <3>3. ASSUME NEW k \in Keys, k.version > version PROVE row'[k] = NoRow
      <4>1. row[k] = NoRow
        BY <3>3 DEF RowsInv
      <4>2. k # k0
        BY <4>1, <2>2 DEF NoRow
      <4> QED BY <4>1, <4>2, <3>0, <1>1
    <3>4. ASSUME NEW k \in Keys
          PROVE  /\ row'[k].status \in Waiting => row'[k].type # "none"
                 /\ row'[k].status = "QUIET" => k \in delayed'
      BY <3>1, <1>2 DEF RowsInv, Waiting
    <3>5. row' \in [Keys -> Rows]
      <4>1. row' = [k \in Keys |-> row'[k]]
        BY <3>0, <1>1
      <4> QED BY <4>1, <3>1
    <3> QED BY <3>1, <3>2, <3>3, <3>4, <3>5 DEF RowsInv, SameTypes
  <2> QED BY <2>1, <2>2
<1>6. row' = row \/ (\E p \in Players : QuietHoursEnd(p)) \/ RecordDm
  BY DEF BotStep, ListNotices, ConfirmDm, DmFails, SendDm, DmIsRefused, BotRestarts
<1>7. version' = version
  BY <1>2 DEF lineupVars
<1> QED BY <1>2, <1>3, <1>4, <1>5, <1>6, <1>7

LEMMA BotLane ==
    ASSUME NoticeTypeOK, RowsInv, LaneInv, OrderInv, BotStep
    PROVE  LaneInv' /\ OrderInv'
<1>1. /\ SameTypes /\ version' = version /\ delayed \subseteq delayed'
      /\ newest \in [Signups -> Nat] /\ row \in [Keys -> Rows]
  BY BotRows DEF NoticeTypeOK
<1>2. /\ \A i \in Listed : i \in Items /\ i.key \in Keys
      /\ \A i \in Listed : i.key.signup \in Signups /\ i.key.version \in Nat
      /\ \A k \in Keys : k.signup \in Signups /\ k.version \in Nat
      /\ version \in Nat /\ NoItem \notin Items
  BY ListedItems
\* Quiet hours pass, or the lane moves without letting go of an item.
<1>3. ASSUME lane'.todo = lane.todo, lane'.item = lane.item, newest' = newest,
             lane'.pc = lane.pc \/ (lane.pc = "confirmed" /\ lane'.pc \in {"sent", "refused"}),
             lane'.pc = "idle" => lane' = lane,
             \A k \in Keys : row'[k].status = "PENDING" => row[k].status = "PENDING" \/ k \in delayed
      PROVE  LaneInv' /\ OrderInv'
  <2>1. Listed' = Listed
    BY <1>3 DEF Listed
  <2>2. LaneInv'
    <3>1. \A i \in Listed : row'[i.key].type = row[i.key].type
      BY <1>1, <1>2 DEF SameTypes
    <3> QED BY <1>1, <1>3, <2>1, <3>1 DEF LaneInv
  <2>3. OrderInv'
    <3>1. \A k \in Keys : Fresh(k) => Fresh(k)'
      BY <1>1, <1>3 DEF Fresh
    <3>2. \A k \in Keys : row'[k].status = "PENDING" => Fresh(k)'
      BY <1>3, <3>1 DEF OrderInv, Fresh
    <3>3. \A i \in Listed : Fresh(i.key)'
      BY <1>2, <3>1 DEF OrderInv
    <3>4. ASSUME NEW j \in Listed, NEW k \in Keys, k.signup = j.key.signup, k.version < j.key.version,
                 row'[k].status = "PENDING", k \notin delayed'
          PROVE  \E i \in Listed : i.key = k
      <4>1. row[k].status = "PENDING" /\ k \notin delayed
        BY <1>1, <1>3, <3>4
      <4> QED BY <4>1, <3>4 DEF OrderInv
    <3>5. \A s \in Signups : newest'[s] <= version'
      BY <1>1, <1>3 DEF OrderInv
    <3> QED BY <2>1, <3>2, <3>3, <3>4, <3>5 DEF OrderInv
  <2> QED BY <2>2, <2>3
\* An item leaves the lane: settled, not PENDING any more, or put off.
<1>4. ASSUME NEW i \in Listed, lane' = After(lane.todo \ {i}), Listed \ {i} = lane.todo \ {i}, newest' = newest,
             \A k \in Keys : row'[k].status = "PENDING" => row[k].status = "PENDING",
             row'[i.key].status # "PENDING" \/ i.key \in delayed'
      PROVE  LaneInv' /\ OrderInv'
  <2>1. Listed' = Listed \ {i}
    BY <1>2, <1>4, AfterLane DEF Listed
  <2>2. LaneInv'
    BY <1>1, <1>4, LaneShrinks
  <2>3. OrderInv'
    <3>1. \A k \in Keys : Fresh(k) => Fresh(k)'
      BY <1>1, <1>4 DEF Fresh
    <3>2. \A k \in Keys : row'[k].status = "PENDING" => Fresh(k)'
      BY <1>4, <3>1 DEF OrderInv
    <3>3. \A j \in Listed' : Fresh(j.key)'
      BY <1>2, <2>1, <3>1 DEF OrderInv
    <3>4. ASSUME NEW j \in Listed', NEW k \in Keys, k.signup = j.key.signup, k.version < j.key.version,
                 row'[k].status = "PENDING", k \notin delayed'
          PROVE  \E l \in Listed' : l.key = k
      <4>1. row[k].status = "PENDING" /\ k \notin delayed /\ k # i.key
        BY <1>1, <1>4, <3>4
      <4>2. PICK l \in Listed : l.key = k
        BY <4>1, <3>4, <2>1 DEF OrderInv
      <4> QED BY <4>1, <4>2, <2>1
    <3>5. \A s \in Signups : newest'[s] <= version'
      BY <1>1, <1>4 DEF OrderInv
    <3> QED BY <3>2, <3>3, <3>4, <3>5 DEF OrderInv
  <2> QED BY <2>2, <2>3
<1>5. ASSUME NEW p \in Players, QuietHoursEnd(p) PROVE LaneInv' /\ OrderInv'
  <2>1. lane' = lane /\ newest' = newest /\ lane'.pc = lane.pc /\ lane'.todo = lane.todo /\ lane'.item = lane.item
    BY <1>5 DEF QuietHoursEnd, messageVars
  <2>2. ASSUME NEW k \in Keys, row'[k].status = "PENDING" PROVE row[k].status = "PENDING" \/ k \in delayed
    <3>1. row'[k] = row[k] \/ row[k].status = "QUIET"
      BY <1>5 DEF QuietHoursEnd
    <3> QED BY <3>1, <2>2 DEF RowsInv
  <2>3. \A k \in Keys : row'[k].status = "PENDING" => row[k].status = "PENDING" \/ k \in delayed
    BY <2>2
  <2>4. lane'.pc = "idle" => lane' = lane
    BY <2>1
  <2> QED BY <2>1, <2>3, <2>4, <1>3
<1>6. ASSUME ListNotices PROVE LaneInv' /\ OrderInv'
  <2> DEFINE pending == {j \in Keys : row[j].status = "PENDING"}
  <2>1. /\ row' = row /\ newest' = newest /\ delayed' = delayed
        /\ lane'.todo = {[key |-> k, plan |-> publicPlan[k.signup]] : k \in pending}
        /\ lane'.pc = "listed" /\ lane'.item = NoItem
    BY <1>6 DEF ListNotices, LaneIdle, messageVars
  <2>2. Listed' = lane'.todo
    BY <2>1 DEF Listed
  <2>3. \A i \in Listed' : i.key \in pending /\ i = [key |-> i.key, plan |-> publicPlan[i.key.signup]]
    BY <2>1, <2>2
  <2>4. ASSUME NEW k \in pending PROVE \E i \in Listed' : i.key = k
    <3>1. [key |-> k, plan |-> publicPlan[k.signup]] \in Listed'
      BY <2>1, <2>2
    <3> QED BY <3>1
  <2>5. \A k \in pending : k \in Keys /\ row[k].status = "PENDING" /\ k.version <= version /\ row[k].type # "none"
    BY <1>2 DEF RowsInv, NoRow, Waiting
  <2> HIDE DEF pending
  <2>6. LaneInv'
    BY <1>1, <2>1, <2>3, <2>5 DEF LaneInv
  <2>7. \A k \in Keys : Fresh(k)' = Fresh(k)
    BY <2>1 DEF Fresh
  <2>8. \A k \in Keys : row'[k].status = "PENDING" => k \in pending
    BY <2>1 DEF pending
  <2>9. \A s \in Signups : newest'[s] <= version'
    BY <1>1, <2>1 DEF OrderInv
  <2> QED BY <2>1, <2>3, <2>4, <2>5, <2>6, <2>7, <2>8, <2>9 DEF OrderInv
<1>7. ASSUME NEW i \in Listed, ConfirmDm(i) PROVE LaneInv' /\ OrderInv'
  <2>1. /\ lane.pc = "listed" /\ i \in lane.todo /\ \A j \in lane.todo : i.key.version <= j.key.version
        /\ row' = row /\ newest' = newest /\ delayed' = delayed
    BY <1>7 DEF ConfirmDm, IsNext, messageVars
  <2>2. lane.item = NoItem /\ Listed = lane.todo
    BY <2>1 DEF LaneInv, Listed
  <2>3. CASE row[i.key].status = "PENDING"
    <3>1. lane'.pc = "confirmed" /\ lane'.todo = lane.todo \ {i} /\ lane'.item = i
      BY <1>7, <2>3 DEF ConfirmDm
    <3>2. i # NoItem /\ Listed' = Listed
      BY <1>2, <2>1, <2>2, <3>1 DEF Listed
    <3>3. \A j \in lane'.todo : i.key # j.key /\ i.key.version <= j.key.version
      BY <2>1, <2>2, <3>1 DEF LaneInv
    <3>4. LaneInv'
      BY <1>1, <2>1, <3>1, <3>2, <3>3 DEF LaneInv
    <3>5. OrderInv'
      BY <1>1, <2>1, <3>2 DEF OrderInv, Fresh
    <3> QED BY <3>4, <3>5
  <2>4. CASE row[i.key].status # "PENDING"
    <3>1. lane' = After(lane.todo \ {i})
      BY <1>7, <2>4 DEF ConfirmDm
    <3> QED BY <2>1, <2>2, <2>4, <3>1, <1>4
  <2> QED BY <2>3, <2>4
<1>8. ASSUME NEW i \in Listed, DmFails(i) PROVE LaneInv' /\ OrderInv'
  <2>1. lane' = After(lane.todo \ {i}) /\ row' = row /\ newest' = newest /\ i.key \in delayed'
    BY <1>8 DEF DmFails, messageVars
  <2>2. Listed \ {i} = lane.todo \ {i}
    <3>1. CASE lane.pc = "listed"
      BY <3>1 DEF LaneInv, Listed
    <3>2. CASE i = lane.item
      BY <3>2 DEF Listed
    <3> QED BY <1>8, <3>1, <3>2 DEF DmFails
  <2> QED BY <2>1, <2>2, <1>4
<1>9. ASSUME SendDm PROVE LaneInv' /\ OrderInv'
  <2> DEFINE k0 == lane.item.key
  <2>1. /\ lane.pc = "confirmed" /\ lane'.pc = "sent" /\ lane'.todo = lane.todo /\ lane'.item = lane.item
        /\ newest' = [newest EXCEPT ![k0.signup] = IF @ < k0.version THEN k0.version ELSE @]
        /\ row' = row /\ delayed' = delayed
    BY <1>9 DEF SendDm, NoticeTypeOK, LaneRows
  <2>2. lane.item # NoItem /\ lane.item \in Listed
    BY <2>1 DEF LaneInv, Listed
  <2>3. k0 \in Keys /\ k0.signup \in Signups /\ k0.version \in Nat /\ k0.version <= version
    BY <1>2, <2>2 DEF LaneInv
  <2>4. Listed' = Listed
    BY <2>1 DEF Listed
  <2>5. LaneInv'
    BY <1>1, <2>1, <2>2, <2>4 DEF LaneInv
  <2>6. \A i \in Listed : i.key # k0 => k0.version <= i.key.version
    BY <2>2 DEF LaneInv, Listed
  <2>7. \A s \in Signups : newest'[s] = IF s = k0.signup /\ newest[s] < k0.version THEN k0.version ELSE newest[s]
    BY <2>1, <1>1
  <2>8. ASSUME NEW k \in Keys, Fresh(k), k \in delayed \/ k.signup # k0.signup \/ k0.version <= k.version
        PROVE  Fresh(k)'
    BY <2>1, <2>7, <2>8, <1>2 DEF Fresh
  <2>9. ASSUME NEW k \in Keys, row[k].status = "PENDING" PROVE Fresh(k)'
    <3>1. SUFFICES ASSUME k \notin delayed, k.signup = k0.signup, ~(k0.version <= k.version) PROVE FALSE
      BY <2>8, <2>9 DEF OrderInv
    <3>2. PICK i \in Listed : i.key = k
      BY <3>1, <2>2, <2>3, <2>9, <1>2 DEF OrderInv
    <3> QED BY <3>1, <3>2, <2>3, <2>6
  <2>10. ASSUME NEW i \in Listed PROVE Fresh(i.key)'
    <3>1. Fresh(i.key) /\ i.key \in Keys /\ k0.version <= i.key.version
      BY <1>2, <2>3, <2>6 DEF OrderInv
    <3> QED BY <3>1, <2>8
  <2>11. \A s \in Signups : newest'[s] <= version'
    BY <1>1, <2>3, <2>7 DEF OrderInv
  <2>12. OrderInv'
    BY <2>1, <2>4, <2>9, <2>10, <2>11 DEF OrderInv
  <2> QED BY <2>5, <2>12
<1>10. ASSUME DmIsRefused PROVE LaneInv' /\ OrderInv'
  <2>1. /\ lane.pc = "confirmed" /\ lane'.pc = "refused" /\ lane'.todo = lane.todo /\ lane'.item = lane.item
        /\ newest' = newest /\ row' = row
    BY <1>10 DEF DmIsRefused, messageVars, NoticeTypeOK, LaneRows
  <2> QED BY <2>1, <1>3
<1>11. ASSUME RecordDm PROVE LaneInv' /\ OrderInv'
  <2>1. lane.pc \in {"sent", "refused"} /\ newest' = newest /\ lane' = After(lane.todo)
    BY <1>11 DEF RecordDm, messageVars
  <2>2. lane.item # NoItem /\ lane.item \in Listed
    BY <2>1 DEF LaneInv, Listed
  <2>3. lane.item \notin lane.todo
    BY <2>2 DEF LaneInv
  <2>4. lane.todo = lane.todo \ {lane.item} /\ Listed \ {lane.item} = lane.todo \ {lane.item}
    BY <2>3 DEF Listed
  <2>5. row[lane.item.key].status # "PENDING" => row' = row
    BY <1>11, Zenon DEF RecordDm
  <2> DEFINE st == IF lane.pc = "sent" THEN "SENT" ELSE "FAILED_PERMANENT"
             r0 == [row[lane.item.key] EXCEPT !.status = st]
  <2>6. row[lane.item.key].status = "PENDING" => row' = [row EXCEPT ![lane.item.key] = r0]
    BY <1>11, Zenon DEF RecordDm
  <2>7. r0.status # "PENDING"
    BY <1>1, <1>2, <2>2, StatusChanges
  <2> HIDE DEF r0
  <2>8. \A k \in Keys : row'[k].status = "PENDING" => row[k].status = "PENDING"
    BY <1>1, <2>5, <2>6, <2>7
  <2>9. row'[lane.item.key].status # "PENDING"
    BY <1>1, <1>2, <2>2, <2>5, <2>6, <2>7
  <2> QED BY <2>1, <2>2, <2>4, <2>8, <2>9, <1>4
<1>12. ASSUME BotRestarts PROVE LaneInv' /\ OrderInv'
  <2>1. lane' = LaneIdle /\ row' = row /\ newest' = newest /\ delayed' = delayed
    BY <1>12 DEF BotRestarts, messageVars
  <2>2. Listed' = {} /\ lane'.pc = "idle" /\ lane'.item = NoItem
    BY <2>1 DEF Listed, LaneIdle
  <2>3. LaneInv'
    BY <2>1, <2>2 DEF LaneInv, LaneIdle
  <2>4. OrderInv'
    BY <1>1, <2>1, <2>2 DEF OrderInv, Fresh
  <2> QED BY <2>3, <2>4
<1> QED BY <1>5, <1>6, <1>7, <1>8, <1>9, <1>10, <1>11, <1>12 DEF BotStep

-----------------------------------------------------------------------------
(* Types. *)

\* Every roster write but the seed saves or publishes a line-up.
LEMMA RosterCases ==
    ASSUME NoticeTypeOK, RosterInv, RosterStep
    PROVE  \/ \E chars \in Lineups : \E new \in [Signups -> BossPlans] : SaveRoster(chars, new) \/ Publish(chars, new)
           \/ SeedDraft
           \/ \E s \in Signups : Withdraw(s) \/ Renew(s)
<1>1. \A chars : \A new \in PlansFor(chars) : new \in [Signups -> BossPlans]
  BY DEF PlansFor
<1>2. plan \in [Signups -> BossPlans] /\ draft \in SUBSET Signups
  BY DEF NoticeTypeOK
<1>3. draft \in Lineups
  BY <1>2 DEF Lineups, RosterInv, OneSlot
<1>4. ASSUME NEW s \in Signups, AddBooster(s)
      PROVE  \E chars \in Lineups : \E new \in [Signups -> BossPlans] : SaveRoster(chars, new)
  <2> DEFINE chars == {t \in draft : Active(t) /\ ~SamePlayer(s, t)} \cup {s}
  <2>1. Active(s) /\ SaveRoster(chars, Only(chars, plan))
    BY <1>4 DEF AddBooster
  <2>2. chars \in SUBSET Signups /\ \A t \in chars : Active(t)
    BY <1>2, <2>1
  <2>3. \A t, u \in chars : SamePlayer(t, u) => t = u
    BY <1>3 DEF Lineups, SamePlayer
  <2>4. Only(chars, plan) \in [Signups -> BossPlans]
    BY <1>2, NoticesAssumption DEF Only
  <2> QED BY <2>1, <2>2, <2>3, <2>4 DEF Lineups
<1> QED BY <1>1, <1>2, <1>3, <1>4 DEF RosterStep, UpdateRoster, PublishRoster

LEMMA RosterTyped ==
    ASSUME NoticeTypeOK, RosterInv, RosterStep
    PROVE  NoticeTypeOK'
<1>1. version \in Nat /\ version \in Versions /\ MaxVersion \in Nat
  BY NoticesAssumption DEF NoticeTypeOK, Versions
<1>2. version < MaxVersion => version + 1 \in Versions
  BY <1>1 DEF Versions
<1>3. ASSUME NEW chars \in Lineups, NEW new \in [Signups -> BossPlans], SaveRoster(chars, new)
      PROVE  NoticeTypeOK'
  <2>1. chars \in SUBSET Signups
    BY DEF Lineups
  <2>2. row' \in [Keys -> Rows] /\ delayed' \subseteq Keys /\ excused' \in Openings
    BY <1>3, <2>1, SaveIsWritten
  <2> QED BY <1>2, <1>3, <2>1, <2>2 DEF NoticeTypeOK, SaveRoster, SaveDraft, messageVars
<1>4. ASSUME NEW chars \in Lineups, NEW new \in [Signups -> BossPlans], Publish(chars, new)
      PROVE  NoticeTypeOK'
  <2>1. chars \in SUBSET Signups
    BY DEF Lineups
  <2>2. row' \in [Keys -> Rows] /\ delayed' \subseteq Keys /\ excused' \in Openings
    BY <1>4, <2>1, PublishIsWritten
  <2>3. signup' \in [Signups -> {"PENDING", "SELECTED", "NOT_SELECTED", "WITHDRAWN"}]
    BY <1>4 DEF NoticeTypeOK, Publish
  <2> QED BY <1>2, <1>4, <2>1, <2>2, <2>3 DEF NoticeTypeOK, Publish, messageVars
<1>5. CASE SeedDraft
  <2> DEFINE chars == {s \in Signups : signup[s] = "SELECTED"}
  <2>1. SaveDraft(chars, Only(chars, publicPlan)) /\ UNCHANGED <<row, delayed>>
    BY <1>5 DEF SeedDraft
  <2>2. Only(chars, publicPlan) \in [Signups -> BossPlans]
    BY NoticesAssumption DEF Only, NoticeTypeOK
  <2>3. excused' \in Openings
    BY <1>5 DEF SeedDraft, NoticeTypeOK, Openings
  <2> QED BY <1>2, <2>1, <2>2, <2>3 DEF NoticeTypeOK, SaveDraft, messageVars
<1>6. ASSUME NEW s \in Signups, Withdraw(s) PROVE NoticeTypeOK'
  <2>1. version' \in Versions
    BY <1>1, <1>2, <1>6 DEF Withdraw
  <2>2. draft' \subseteq Signups
    BY <1>6 DEF Withdraw, NoticeTypeOK
  <2>3. signup' \in [Signups -> {"PENDING", "SELECTED", "NOT_SELECTED", "WITHDRAWN"}]
    BY <1>6 DEF Withdraw, NoticeTypeOK
  <2>4. plan' \in [Signups -> BossPlans] /\ publicPlan' \in [Signups -> BossPlans]
    BY <1>6, NoticesAssumption DEF Withdraw, NoticeTypeOK
  <2>5. UNCHANGED <<published, row, lane, messageVars, delayed, excused>>
    BY <1>6 DEF Withdraw
  <2> QED BY <2>1, <2>2, <2>3, <2>4, <2>5 DEF NoticeTypeOK, messageVars
<1>7. ASSUME NEW s \in Signups, Renew(s) PROVE NoticeTypeOK'
  <2>1. excused' \in Openings
    BY <1>7 DEF Renew, NoticeTypeOK, Openings
  <2> QED BY <1>7, <2>1 DEF NoticeTypeOK, Renew, messageVars
<1> QED BY <1>3, <1>4, <1>5, <1>6, <1>7, RosterCases

LEMMA BotTyped ==
    ASSUME NoticeTypeOK, RowsInv, LaneInv, BotStep
    PROVE  NoticeTypeOK'
<1>1. row' \in [Keys -> Rows] /\ UNCHANGED lineupVars
  BY BotRows
<1>2. /\ \A i \in Listed : i \in Items /\ i.key \in Keys /\ i.plan \in BossPlans
      /\ \A k \in Keys : k.signup \in Signups /\ k.version \in Nat
  BY ListedItems
<1>3. lane \in LaneRows /\ newest \in [Signups -> Nat] /\ heard \in [Signups -> BossPlans]
      /\ delayed \subseteq Keys /\ excused \in Openings /\ publicPlan \in [Signups -> BossPlans]
  BY DEF NoticeTypeOK
<1>4. \A T \in SUBSET Items : After(T) \in LaneRows /\ LaneIdle \in LaneRows
  BY DEF After, LaneRows, LaneIdle
<1>5. lane.todo \subseteq Items /\ lane.todo \subseteq Listed
  BY <1>3 DEF LaneRows, Listed
<1>6. lane' \in LaneRows
  <2>1. CASE ListNotices
    <3>1. \A k \in Keys : [key |-> k, plan |-> publicPlan[k.signup]] \in Items
      BY <1>2, <1>3 DEF Items
    <3> DEFINE todo == {[key |-> k, plan |-> publicPlan[k.signup]] : k \in {j \in Keys : row[j].status = "PENDING"}}
    <3>2. lane' = [pc |-> "listed", todo |-> todo, item |-> NoItem]
      BY <2>1 DEF ListNotices, LaneIdle
    <3>3. todo \in SUBSET Items
      BY <3>1
    <3> HIDE DEF todo
    <3> QED BY <3>2, <3>3 DEF LaneRows
  <2>2. ASSUME NEW i \in Listed, ConfirmDm(i) PROVE lane' \in LaneRows
    BY <2>2, <1>2, <1>4, <1>5 DEF ConfirmDm, LaneRows
  <2>3. ASSUME NEW i \in Listed, DmFails(i) PROVE lane' \in LaneRows
    BY <2>3, <1>4, <1>5 DEF DmFails
  <2>4. CASE SendDm \/ DmIsRefused
    BY <2>4, <1>3 DEF SendDm, DmIsRefused, LaneRows
  <2>5. CASE RecordDm
    BY <2>5, <1>4, <1>5 DEF RecordDm
  <2>6. CASE BotRestarts
    BY <2>6, <1>4 DEF BotRestarts
  <2>7. CASE \E p \in Players : QuietHoursEnd(p)
    BY <2>7, <1>3 DEF QuietHoursEnd
  <2> QED BY <2>1, <2>2, <2>3, <2>4, <2>5, <2>6, <2>7 DEF BotStep
<1>7. heard' \in [Signups -> BossPlans] /\ newest' \in [Signups -> Nat]
  <2>1. CASE SendDm
    <3>1. lane.item \in Listed
      BY <2>1 DEF SendDm, LaneInv, Listed
    <3>2. lane.item.key \in Keys /\ lane.item.plan \in BossPlans
      BY <3>1, <1>2
    <3>3. lane.item.key.signup \in Signups /\ lane.item.key.version \in Nat
      BY <3>2, <1>2
    <3>4. heard' \in [Signups -> BossPlans]
      BY <2>1, <3>2, <3>3, <1>3 DEF SendDm
    <3>5. newest' \in [Signups -> Nat]
      BY <2>1, <3>3, <1>3 DEF SendDm
    <3> QED BY <3>4, <3>5
  <2>2. CASE UNCHANGED messageVars
    BY <2>2, <1>3 DEF messageVars
  <2> QED BY <2>1, <2>2 DEF BotStep, QuietHoursEnd, ListNotices, ConfirmDm, DmFails, DmIsRefused, RecordDm, BotRestarts
<1>8. delayed' \subseteq Keys
  BY <1>2, <1>3 DEF BotStep, QuietHoursEnd, ListNotices, ConfirmDm, DmFails, SendDm, DmIsRefused, RecordDm, BotRestarts
<1>9. excused' \in Openings
  <2>1. CASE RecordDm
    <3>1. lane.item \in Listed
      BY <2>1 DEF RecordDm, LaneInv, Listed
    <3> QED BY <2>1, <3>1, <1>2, <1>3 DEF RecordDm, Openings
  <2>2. CASE excused' = excused
    BY <2>2, <1>3
  <2> QED BY <2>1, <2>2 DEF BotStep, QuietHoursEnd, ListNotices, ConfirmDm, DmFails, SendDm, DmIsRefused, BotRestarts
<1> QED BY <1>1, <1>6, <1>7, <1>8, <1>9 DEF NoticeTypeOK, lineupVars

-----------------------------------------------------------------------------
(* What a signup was last told agrees with the roster. *)

LEMMA SaveMatches ==
    ASSUME NoticeTypeOK, RowsInv, RosterInv, NoticesMatchRoster,
           NEW chars \in Lineups, NEW new, SaveRoster(chars, new)
    PROVE  RosterInv' /\ NoticesMatchRoster'
<1> DEFINE type == SelectionNotices(chars, draft)
<1>1. chars \in SUBSET Signups /\ (\A s \in chars : Active(s)) /\ OneSlot(chars)
  BY DEF Lineups, OneSlot
<1>2. Written(chars, type, {}, {}) /\ type \in [Signups -> NoticeTypes]
  BY <1>1, SaveIsWritten, SelectionTypes
<1>3. draft' = chars /\ signup' = signup
  BY DEF SaveRoster, SaveDraft
<1>4. \A s \in Signups : /\ type[s] \in PickTypes => s \in Joining(chars, draft)
                         /\ type[s] = "removed" <=> s \in Leaving(chars)
                         /\ s \in Joining(chars, draft) => type[s] \in PickTypes
  BY <1>1, SelectionTypes DEF PickTypes
<1> HIDE DEF type
<1>5. \A s \in Signups : /\ type[s] \in PickTypes => ToldIn(s)'
                         /\ type[s] = "removed" => (Noticed(s) # {})' /\ ~ToldIn(s)'
                         /\ type[s] = "none" => Noticed(s)' = Noticed(s) /\ ToldIn(s)' = ToldIn(s)
                         /\ type[s] \in PickTypes \cup {"removed", "none"}
  BY <1>2, WrittenTells DEF NoticeTypes
<1>6. \A s \in Signups : ToldIn(s)' => (Noticed(s) # {})'
  BY DEF ToldIn
<1>7. RosterInv'
  <2>1. PublishedSlots' = PublishedSlots /\ \A s \in chars : Active(s)'
    BY <1>1, <1>3 DEF PublishedSlots, Active
  <2>2. \A s \in PublishedSlots : (Noticed(s) # {})'
    BY <1>5, <1>6 DEF RosterInv, PublishedSlots
  <2> QED BY <1>1, <1>3, <2>1, <2>2 DEF RosterInv, OneSlot, SamePlayer
<1>8. NoticesMatchRoster'
  <2>1. ASSUME NEW s \in Signups, signup[s] = "SELECTED", s \in chars
        PROVE  ToldIn(s)' \/ s \in excused'.seeded
    <3>1. s \in PublishedSlots /\ Noticed(s) # {}
      BY <2>1 DEF PublishedSlots, RosterInv
    <3>2. s \notin Leaving(chars)
      BY <2>1 DEF Leaving
    <3>3. type[s] \in PickTypes \/ type[s] = "none"
      BY <1>4, <1>5, <3>2
    <3>4. CASE type[s] = "none"
      <4>1. s \notin Joining(chars, draft)
        BY <1>4, <3>4 DEF PickTypes
      <4>2. IsNotifiedSelected(s) \/ s \in draft
        BY <2>1, <4>1 DEF Joining
      <4>3. ToldIn(s) \/ s \in excused.seeded
        BY <2>1, <3>1, <4>2 DEF ToldIn, NoticesMatchRoster
      <4>4. s \in excused.seeded => s \in excused'.seeded
        BY <1>2, <3>4 DEF Written, PickTypes
      <4> QED BY <4>3, <4>4, <1>5, <3>4
    <3> QED BY <1>5, <3>3, <3>4
  <2>2. ASSUME NEW s \in Signups, ToldIn(s)'
        PROVE  s \in chars \/ ~Active(s) \/ s \in excused'.rejoined
    <3>1. CASE type[s] \in PickTypes
      BY <1>4, <3>1 DEF Joining
    <3>2. CASE type[s] = "none"
      <4>1. ToldIn(s) /\ s \notin Leaving(chars)
        BY <1>4, <1>5, <2>2, <3>2
      <4> QED BY <4>1 DEF Leaving, ToldIn
    <3> QED BY <1>5, <2>2, <3>1, <3>2
  <2> QED BY <1>3, <2>1, <2>2 DEF NoticesMatchRoster, Active
<1> QED BY <1>7, <1>8

LEMMA PublishMatches ==
    ASSUME NoticeTypeOK, RowsInv, RosterInv, NoticesMatchRoster,
           NEW chars \in Lineups, NEW new, Publish(chars, new)
    PROVE  /\ RosterInv' /\ NoticesMatchRoster'
           /\ \A s \in Signups : ToldIn(s)' => s \in chars \/ ~Active(s)
           /\ \A s \in chars : ToldIn(s)' /\ (ToldIn(s) \/ s \in Joining(chars, {}))
<1> DEFINE type == PublishNotices(chars, new)
<1>1. chars \in SUBSET Signups /\ (\A s \in chars : Active(s)) /\ OneSlot(chars)
  BY DEF Lineups, OneSlot
<1>2. /\ Written(chars, type, Superseded(chars, new), Absorbed(chars, new))
      /\ type \in [Signups -> NoticeTypes]
  BY <1>1, PublishIsWritten, PublishTypes
<1>3. /\ draft' = chars
      /\ signup' = [s \in Signups |-> IF s \in chars THEN "SELECTED"
                                      ELSE IF Active(s) THEN "NOT_SELECTED" ELSE signup[s]]
  BY DEF Publish
<1>4. \A s \in Signups : /\ type[s] \in PickTypes <=> s \in Joining(chars, {}) \cup Renoticed(chars, new)
                         /\ type[s] = "removed" <=> s \in Leaving(chars)
  BY <1>1, PublishTypes
<1> HIDE DEF type
<1>5. \A s \in Signups : /\ type[s] \in PickTypes => ToldIn(s)'
                         /\ type[s] = "removed" => (Noticed(s) # {})' /\ ~ToldIn(s)'
                         /\ type[s] = "none" => Noticed(s)' = Noticed(s) /\ ToldIn(s)' = ToldIn(s)
                         /\ type[s] \in PickTypes \cup {"removed", "none"}
  BY <1>2, WrittenTells DEF NoticeTypes
<1>6. ASSUME NEW s \in chars PROVE ToldIn(s)' /\ (ToldIn(s) \/ s \in Joining(chars, {}))
  <2>1. s \in Signups /\ s \notin Leaving(chars)
    BY <1>1 DEF Leaving
  <2>2. type[s] \in PickTypes \/ type[s] = "none"
    BY <1>4, <1>5, <2>1
  <2>3. s \in Joining(chars, {}) => type[s] \in PickTypes
    BY <1>4, <2>1
  <2>4. s \notin Joining(chars, {}) => ToldIn(s)
    <3>1. SUFFICES ASSUME s \notin Joining(chars, {}) PROVE ToldIn(s)
      OBVIOUS
    <3>2. IsNotifiedSelected(s)
      BY <3>1 DEF Joining
    <3>3. Noticed(s) # {}
      BY <2>1, <3>2 DEF IsNotifiedSelected, RosterInv, PublishedSlots
    <3> QED BY <3>2, <3>3 DEF ToldIn
  <2> QED BY <1>5, <2>1, <2>2, <2>3, <2>4 DEF PickTypes
<1>7. ASSUME NEW s \in Signups, ToldIn(s)' PROVE s \in chars \/ ~Active(s)
  <2>1. CASE type[s] \in PickTypes
    BY <1>4, <2>1 DEF Joining, Renoticed, Replanned
  <2>2. CASE type[s] = "none"
    <3>1. ToldIn(s) /\ s \notin Leaving(chars)
      BY <1>4, <1>5, <1>7, <2>2
    <3> QED BY <3>1 DEF Leaving, ToldIn
  <2> QED BY <1>5, <1>7, <2>1, <2>2
<1>8. \A s \in Signups : /\ signup'[s] = "SELECTED" => s \in chars \/ (~Active(s) /\ signup[s] = "SELECTED")
                         /\ s \in chars => signup'[s] = "SELECTED"
                         /\ ~Active(s) => s \in chars \/ signup'[s] = signup[s]
  BY <1>3
<1>9. RosterInv'
  <2>1. PublishedSlots' \subseteq chars
    BY <1>8 DEF PublishedSlots, Active
  <2>2. \A s \in chars : Active(s)'
    BY <1>1, <1>8 DEF Active
  <2>3. \A s \in chars : (Noticed(s) # {})'
    BY <1>6 DEF ToldIn
  <2> QED BY <1>1, <1>3, <2>1, <2>2, <2>3 DEF RosterInv, OneSlot, SamePlayer
<1>10. NoticesMatchRoster'
  <2>1. \A s \in Signups : ~Active(s) => s \in chars \/ ~Active(s)'
    BY <1>8 DEF Active
  <2> QED BY <1>3, <1>6, <1>7, <2>1 DEF NoticesMatchRoster
<1> QED BY <1>6, <1>7, <1>9, <1>10

\* What was told is read from the types of the notices alone.
LEMMA SameTold ==
    ASSUME SameTypes, NEW s
    PROVE  Noticed(s)' = Noticed(s) /\ ToldIn(s)' = ToldIn(s)
<1>1. \A k \in Keys : row'[k].type = row[k].type
  BY DEF SameTypes
<1>2. Noticed(s)' = Noticed(s)
  BY <1>1 DEF Noticed
<1>3. \A k \in Noticed(s) : row'[k].type = row[k].type
  BY <1>1 DEF Noticed
<1> QED BY <1>2, <1>3 DEF ToldIn, IsNotifiedSelected

LEMMA UntoldMatches ==
    ASSUME NoticeTypeOK, RosterInv, NoticesMatchRoster,
           SeedDraft \/ \E s \in Signups : Withdraw(s) \/ Renew(s)
    PROVE  RosterInv' /\ NoticesMatchRoster'
<1>1. row' = row /\ \A s \in Signups : Noticed(s)' = Noticed(s) /\ ToldIn(s)' = ToldIn(s)
  <2>1. row' = row
    BY DEF SeedDraft, Withdraw, Renew
  <2> QED BY <2>1, SameTold DEF SameTypes
<1>2. CASE SeedDraft
  <2> DEFINE chars == {s \in Signups : signup[s] = "SELECTED"}
  <2>1. draft' = chars /\ signup' = signup /\ draft = {}
    BY <1>2 DEF SeedDraft, SaveDraft
  <2>2. excused'.rejoined = excused.rejoined
        /\ excused'.seeded = excused.seeded \cup {s \in chars : ~IsNotifiedSelected(s)}
    BY <1>2 DEF SeedDraft, NoticeTypeOK, Openings
  <2>3. PublishedSlots = chars /\ PublishedSlots' = chars
    BY <2>1 DEF PublishedSlots
  <2>4. RosterInv'
    BY <1>1, <2>1, <2>3 DEF RosterInv, OneSlot, SamePlayer, Active
  <2>5. ASSUME NEW s \in chars PROVE ToldIn(s) \/ s \in excused'.seeded
    BY <2>2, <2>3 DEF RosterInv, ToldIn
  <2>6. \A s \in Signups : ToldIn(s) => ~Active(s) \/ s \in excused'.rejoined
    BY <2>1, <2>2 DEF NoticesMatchRoster
  <2> QED BY <1>1, <2>1, <2>4, <2>5, <2>6 DEF NoticesMatchRoster, Active
<1>3. ASSUME NEW s \in Signups, Withdraw(s) PROVE RosterInv' /\ NoticesMatchRoster'
  <2>1. /\ draft' = draft \ {s} /\ excused' = excused
        /\ \A t \in Signups : signup'[t] = IF t = s THEN "WITHDRAWN" ELSE signup[t]
    BY <1>3 DEF Withdraw, NoticeTypeOK
  <2>2. PublishedSlots' \subseteq PublishedSlots
    BY <2>1 DEF PublishedSlots
  <2>3. RosterInv'
    <3>1. OneSlot(draft)' /\ OneSlot(PublishedSlots)'
      BY <2>1, <2>2 DEF RosterInv, OneSlot, SamePlayer
    <3>2. \A t \in draft' : Active(t)'
      BY <2>1 DEF RosterInv, Active, NoticeTypeOK
    <3>3. \A t \in PublishedSlots' : (Noticed(t) # {})'
      BY <1>1, <2>2 DEF RosterInv, PublishedSlots
    <3> QED BY <3>1, <3>2, <3>3 DEF RosterInv
  <2> QED BY <1>1, <2>1, <2>3 DEF NoticesMatchRoster, Active
<1>4. ASSUME NEW s \in Signups, Renew(s) PROVE RosterInv' /\ NoticesMatchRoster'
  <2>1. /\ draft' = draft /\ signup[s] = "WITHDRAWN"
        /\ \A t \in Signups : signup'[t] = IF t = s THEN "PENDING" ELSE signup[t]
    BY <1>4 DEF Renew, NoticeTypeOK
  <2>2. /\ excused'.seeded = excused.seeded /\ excused.rejoined \subseteq excused'.rejoined
        /\ ToldIn(s) => s \in excused'.rejoined
    BY <1>4 DEF Renew, NoticeTypeOK, Openings, ToldIn
  <2>3. PublishedSlots' = PublishedSlots
    BY <2>1 DEF PublishedSlots
  <2>4. RosterInv'
    <3>1. \A t \in draft' : Active(t)'
      BY <2>1 DEF RosterInv, Active, NoticeTypeOK
    <3>2. \A t \in PublishedSlots' : (Noticed(t) # {})'
      BY <1>1, <2>3 DEF RosterInv, PublishedSlots
    <3> QED BY <2>1, <2>3, <3>1, <3>2 DEF RosterInv, OneSlot, SamePlayer
  <2> QED BY <1>1, <2>1, <2>2, <2>4 DEF NoticesMatchRoster, Active
<1> QED BY <1>2, <1>3, <1>4

LEMMA BotMatches ==
    ASSUME NoticeTypeOK, RowsInv, RosterInv, NoticesMatchRoster, BotStep
    PROVE  RosterInv' /\ NoticesMatchRoster'
<1>1. SameTypes /\ draft' = draft /\ signup' = signup
  BY BotRows DEF lineupVars
<1>2. excused'.seeded = excused.seeded /\ excused'.rejoined = excused.rejoined
  <2>1. CASE RecordDm
    BY <2>1 DEF RecordDm, NoticeTypeOK, Openings
  <2>2. CASE excused' = excused
    BY <2>2
  <2> QED BY <2>1, <2>2 DEF BotStep, QuietHoursEnd, ListNotices, ConfirmDm, DmFails, SendDm, DmIsRefused, BotRestarts
<1>3. \A s \in Signups : Noticed(s)' = Noticed(s) /\ ToldIn(s)' = ToldIn(s) /\ Active(s)' = Active(s)
  BY <1>1, SameTold DEF Active
<1>4. \A s \in draft : s \in Signups
  BY DEF NoticeTypeOK
<1>5. RosterInv'
  BY <1>1, <1>3, <1>4 DEF RosterInv, OneSlot, SamePlayer, PublishedSlots
<1> QED BY <1>1, <1>2, <1>3, <1>5 DEF NoticesMatchRoster

-----------------------------------------------------------------------------
(* Who takes part hears the published plan, under the roster's steps. *)

LEMMA WrittenPlans ==
    ASSUME NoticeTypeOK, RowsInv, LaneInv, NEW chars, NEW type \in [Signups -> NoticeTypes],
           NEW superseded, NEW absorbed, Written(chars, type, superseded, absorbed)
    PROVE  /\ \A s \in Signups : type[s] \in PickTypes => Later(s)' \/ MayMiss(s)'
           /\ \A k \in Keys : row[k].status \in Waiting /\ k \notin superseded => row'[k] = row[k]
           /\ \A i \in Listed : row'[i.key].type = row[i.key].type
           /\ Listed' = Listed
<1>1. version \in Nat /\ version' = version + 1 /\ lane' = lane /\ Listed' = Listed
  BY NoticesAssumption DEF Written, Versions, NoticeTypeOK, Listed
<1>2. /\ \A i \in Listed : i.key \in Keys /\ i.key.version \in Nat /\ i.key.version <= version
      /\ \A k \in Keys : k.signup \in Signups /\ k.version \in Nat
  BY ListedItems DEF LaneInv
<1>3. ASSUME NEW s \in Signups, type[s] \in PickTypes PROVE Later(s)' \/ MayMiss(s)'
  <2> DEFINE k0 == [signup |-> s, version |-> version + 1]
  <2>1. k0 \in Keys /\ Tells(type, k0)
    BY <1>3 DEF Keys, Written, Tells, PickTypes
  <2>2. row'[k0].type \in PickTypes /\ (row'[k0].status \in Waiting \/ s \in excused'.unheard)
    BY <1>3, <2>1 DEF Written
  <2>3. \A i \in Listed' : i.key # k0
    BY <1>1, <1>2
  <2>4. CASE row'[k0].status \in Waiting
    BY <2>1, <2>2, <2>3, <2>4 DEF Later, WaitingPicks
  <2>5. CASE s \in excused'.unheard
    BY <2>5 DEF MayMiss
  <2> QED BY <2>2, <2>4, <2>5
<1>4. ASSUME NEW k \in Keys, row[k].status \in Waiting, k \notin superseded PROVE row'[k] = row[k]
  <2>1. k.version # version + 1
    BY <1>1, <1>2, <1>4 DEF RowsInv, NoRow, Waiting
  <2> QED BY <1>4, <2>1 DEF Written, Tells
<1>5. ASSUME NEW i \in Listed PROVE row'[i.key].type = row[i.key].type
  <2>1. ~Tells(type, i.key)
    BY <1>1, <1>2 DEF Tells
  <2> QED BY <1>2, <2>1 DEF Written
<1> QED BY <1>1, <1>3, <1>4, <1>5

\* A waiting pick that stays, and the lane letting go of items, keep what follows.
LEMMA LaterStays ==
    ASSUME Listed' \subseteq Listed, NEW s, NEW types \in SUBSET PickTypes,
           \A k \in WaitingPicks(s, PickTypes) : row'[k].type = row[k].type /\ row'[k].status \in Waiting
    PROVE  /\ WaitingPicks(s, types) # {} => WaitingPicks(s, PickTypes)' # {}
           /\ Later(s) => Later(s)'
  BY DEF Later, WaitingPicks

LEMMA SavePlans ==
    ASSUME NoticeTypeOK, RowsInv, RosterInv, LaneInv, PlanInv,
           NEW chars \in Lineups, NEW new, SaveRoster(chars, new)
    PROVE  PlanInv'
<1> DEFINE type == SelectionNotices(chars, draft)
<1>1. /\ Written(chars, type, {}, {}) /\ type \in [Signups -> NoticeTypes]
      /\ signup' = signup /\ publicPlan' = publicPlan /\ heard' = heard /\ lane' = lane
  <2>1. chars \in SUBSET Signups
    BY DEF Lineups
  <2> QED BY <2>1, SaveIsWritten, SelectionTypes DEF SaveRoster, SaveDraft, messageVars
<1> HIDE DEF type
<1>2. /\ \A s \in Signups : type[s] \in PickTypes => Later(s)' \/ MayMiss(s)'
      /\ \A k \in Keys : row[k].status \in Waiting => row'[k] = row[k]
      /\ \A i \in Listed : row'[i.key].type = row[i.key].type
      /\ Listed' = Listed
  BY <1>1, WrittenPlans
<1>3. \A s \in Signups : type[s] \notin PickTypes => (MayMiss(s) => MayMiss(s)')
  BY <1>1 DEF Written
<1>4. \A i \in Listed : i.key \in Keys /\ i.key.signup \in Signups
  BY ListedItems
<1>5. ASSUME NEW s \in Signups PROVE /\ WaitingPicks(s, PickTypes) # {} => WaitingPicks(s, PickTypes)' # {}
                                     /\ Later(s) => Later(s)'
  <2>1. \A k \in WaitingPicks(s, PickTypes) : row'[k].type = row[k].type /\ row'[k].status \in Waiting
    BY <1>2 DEF WaitingPicks
  <2> QED BY <1>2, <2>1, LaterStays
<1>6. ASSUME NEW s \in Signups, TakesPart(s)', type[s] \notin PickTypes PROVE TakesPart(s)
  <2>1. type[s] \in {"removed", "none"}
    BY <1>1, <1>6 DEF NoticeTypes
  <2>2. ToldIn(s)' => ToldIn(s)
    BY <1>1, <2>1, WrittenTells
  <2> QED BY <1>1, <1>6, <2>2 DEF TakesPart, Active
<1>7. ASSUME NEW s \in Signups, TakesPart(s)'
      PROVE  heard[s] = publicPlan[s] \/ MayMiss(s)' \/ WaitingPicks(s, PickTypes)' # {}
  <2>1. Later(s)' => WaitingPicks(s, PickTypes)' # {}
    BY DEF Later
  <2> QED BY <1>2, <1>3, <1>5, <1>6, <1>7, <2>1 DEF PlanInv
<1>8. ASSUME NEW i \in Listed, row[i.key].type # "removed", TakesPart(i.key.signup)'
      PROVE  \/ row'[i.key].status \in Waiting /\ i.plan = publicPlan[i.key.signup]
             \/ MayMiss(i.key.signup)'
             \/ Later(i.key.signup)'
  <2>1. CASE type[i.key.signup] \in PickTypes
    BY <1>2, <1>4, <2>1
  <2>2. CASE type[i.key.signup] \notin PickTypes
    <3>1. \/ row[i.key].status \in Waiting /\ i.plan = publicPlan[i.key.signup]
          \/ MayMiss(i.key.signup)
          \/ Later(i.key.signup)
      BY <1>4, <1>6, <1>8, <2>2 DEF PlanInv
    <3> QED BY <1>2, <1>3, <1>4, <1>5, <2>2, <3>1
  <2> QED BY <2>1, <2>2
<1>9. lane.pc = "sent" => lane.item \in Listed
  BY DEF LaneInv, Listed
<1>10. lane.pc = "sent" /\ row'[lane.item.key].type # "removed" => heard[lane.item.key.signup] = lane.item.plan
  BY <1>2, <1>9 DEF PlanInv
<1> QED BY <1>1, <1>2, <1>7, <1>8, <1>10 DEF PlanInv

LEMMA PublishPlans ==
    ASSUME NoticeTypeOK, RowsInv, RosterInv, NoticesMatchRoster, LaneInv, PlanInv,
           NEW chars \in Lineups, NEW new \in [Signups -> BossPlans], Publish(chars, new)
    PROVE  PlanInv'
<1> DEFINE type == PublishNotices(chars, new)
<1>1. chars \in SUBSET Signups /\ \A s \in chars : Active(s)
  BY DEF Lineups
<1>2. /\ Written(chars, type, Superseded(chars, new), Absorbed(chars, new)) /\ type \in [Signups -> NoticeTypes]
      /\ publicPlan' = new /\ heard' = heard /\ lane' = lane
      /\ signup' = [s \in Signups |-> IF s \in chars THEN "SELECTED"
                                      ELSE IF Active(s) THEN "NOT_SELECTED" ELSE signup[s]]
  BY <1>1, PublishIsWritten, PublishTypes DEF Publish, messageVars
<1>3. \A s \in Signups : type[s] \in PickTypes <=> s \in Joining(chars, {}) \cup Renoticed(chars, new)
  BY <1>1, PublishTypes
<1> HIDE DEF type
<1>4. /\ \A s \in Signups : type[s] \in PickTypes => Later(s)' \/ MayMiss(s)'
      /\ \A k \in Keys : row[k].status \in Waiting /\ k \notin Superseded(chars, new) => row'[k] = row[k]
      /\ \A i \in Listed : row'[i.key].type = row[i.key].type
      /\ Listed' = Listed
  BY <1>2, WrittenPlans
<1>5. \A i \in Listed : i.key \in Keys /\ i.key.signup \in Signups
  BY ListedItems
<1>6. ASSUME NEW s \in Signups, TakesPart(s)' PROVE s \in chars
  <2>1. ToldIn(s)' => s \in chars \/ ~Active(s)
    BY PublishMatches
  <2> QED BY <1>2, <1>6, <2>1 DEF TakesPart, Active
\* Who hears nothing of this write was told before that they take part.
<1>7. ASSUME NEW s \in chars, type[s] \notin PickTypes
      PROVE  /\ TakesPart(s) /\ (MayMiss(s) => MayMiss(s)')
             /\ \A k \in Keys : k.signup = s => k \notin Superseded(chars, new)
             /\ new[s] # publicPlan[s] => s \in Absorbed(chars, new)
  <2>1. s \in Signups /\ s \notin Joining(chars, {}) /\ s \notin Renoticed(chars, new)
    BY <1>1, <1>3, <1>7
  <2>2. TakesPart(s)
    BY <1>1, <2>1, PublishMatches DEF TakesPart
  <2>3. \A k \in Superseded(chars, new) : k.signup # s
    BY <2>1 DEF Superseded, WaitingPicks
  <2>4. new[s] # publicPlan[s] => s \in Absorbed(chars, new)
    BY <2>1 DEF Renoticed, Replanned
  <2> QED BY <1>2, <1>7, <2>1, <2>2, <2>3, <2>4 DEF Written
<1>8. ASSUME NEW s \in chars, type[s] \notin PickTypes, NEW types \in SUBSET PickTypes
      PROVE  /\ WaitingPicks(s, types) # {} => WaitingPicks(s, PickTypes)' # {}
             /\ Later(s) => Later(s)'
  <2>1. \A k \in WaitingPicks(s, PickTypes) : row'[k].type = row[k].type /\ row'[k].status \in Waiting
    BY <1>4, <1>7, <1>8 DEF WaitingPicks
  <2> QED BY <1>4, <2>1, LaterStays
<1>9. ASSUME NEW s \in Signups, TakesPart(s)'
      PROVE  heard[s] = new[s] \/ MayMiss(s)' \/ WaitingPicks(s, PickTypes)' # {}
  <2>1. s \in chars
    BY <1>6, <1>9
  <2>2. CASE type[s] \in PickTypes
    BY <1>4, <2>2 DEF Later
  <2>3. CASE type[s] \notin PickTypes /\ new[s] = publicPlan[s]
    BY <1>7, <1>8, <2>1, <2>3 DEF PlanInv
  <2>4. CASE type[s] \notin PickTypes /\ new[s] # publicPlan[s]
    <3>1. WaitingPicks(s, {"selected", "swapped"}) # {}
      BY <1>7, <2>1, <2>4 DEF Absorbed
    <3>2. {"selected", "swapped"} \in SUBSET PickTypes
      BY DEF PickTypes
    <3> QED BY <1>8, <2>1, <2>4, <3>1, <3>2
  <2> QED BY <2>2, <2>3, <2>4
<1>10. ASSUME NEW i \in Listed, row[i.key].type # "removed", TakesPart(i.key.signup)'
       PROVE  \/ row'[i.key].status \in Waiting /\ i.plan = new[i.key.signup]
              \/ MayMiss(i.key.signup)'
              \/ Later(i.key.signup)'
  <2> DEFINE s == i.key.signup
  <2>1. s \in chars /\ s \in Signups /\ i.key \in Keys
    BY <1>5, <1>6, <1>10
  <2>2. CASE type[s] \in PickTypes
    BY <1>4, <2>1, <2>2
  <2>3. CASE type[s] \notin PickTypes /\ new[s] = publicPlan[s]
    <3>1. \/ row[i.key].status \in Waiting /\ i.plan = publicPlan[s]
          \/ MayMiss(s)
          \/ Later(s)
      BY <1>7, <1>10, <2>1, <2>3 DEF PlanInv
    <3>2. row[i.key].status \in Waiting => row'[i.key] = row[i.key]
      BY <1>4, <1>7, <2>1, <2>3
    <3> QED BY <1>7, <1>8, <2>1, <2>3, <3>1, <3>2
  <2>4. CASE type[s] \notin PickTypes /\ new[s] # publicPlan[s]
    <3>1. s \in Absorbed(chars, new) /\ InLane(s)
      BY <1>7, <2>1, <2>4 DEF InLane
    <3> QED BY <1>2, <3>1 DEF Written, MayMiss
  <2> QED BY <2>2, <2>3, <2>4
<1>11. lane.pc = "sent" => lane.item \in Listed
  BY DEF LaneInv, Listed
<1>12. lane.pc = "sent" /\ row'[lane.item.key].type # "removed" => heard[lane.item.key.signup] = lane.item.plan
  BY <1>4, <1>11 DEF PlanInv
<1> QED BY <1>2, <1>4, <1>9, <1>10, <1>12 DEF PlanInv

LEMMA UntoldPlans ==
    ASSUME NoticeTypeOK, LaneInv, PlanInv, SeedDraft \/ \E s \in Signups : Withdraw(s) \/ Renew(s)
    PROVE  PlanInv'
<1>1. row' = row /\ lane' = lane /\ heard' = heard /\ Listed' = Listed
  BY DEF SeedDraft, SaveDraft, Withdraw, Renew, messageVars, Listed
<1>2. \A s \in Signups : /\ WaitingPicks(s, PickTypes)' = WaitingPicks(s, PickTypes) /\ Later(s)' = Later(s)
                         /\ ToldIn(s)' = ToldIn(s)
  <2>1. SameTypes
    BY <1>1 DEF SameTypes
  <2> QED BY <1>1, <2>1, SameTold DEF Later, WaitingPicks
<1>3. \A i \in Listed : i.key \in Keys /\ i.key.signup \in Signups
  BY ListedItems
<1>4. \A s \in Signups : MayMiss(s) => MayMiss(s)'
  BY DEF MayMiss, SeedDraft, Withdraw, Renew, NoticeTypeOK, Openings
\* Who takes part afterwards did so before, with the same plan, or offers again.
<1>5. ASSUME \A s \in Signups : TakesPart(s)' => MayMiss(s)' \/ (TakesPart(s) /\ publicPlan'[s] = publicPlan[s])
      PROVE  PlanInv'
  <2>1. ASSUME NEW s \in Signups, TakesPart(s)'
        PROVE  heard[s] = publicPlan'[s] \/ MayMiss(s)' \/ WaitingPicks(s, PickTypes)' # {}
    BY <1>2, <1>4, <1>5, <2>1 DEF PlanInv
  <2>2. ASSUME NEW i \in Listed, row[i.key].type # "removed", TakesPart(i.key.signup)'
        PROVE  \/ row[i.key].status \in Waiting /\ i.plan = publicPlan'[i.key.signup]
               \/ MayMiss(i.key.signup)'
               \/ Later(i.key.signup)'
    <3> DEFINE s == i.key.signup
    <3>1. s \in Signups
      BY <1>3
    <3>2. CASE MayMiss(s)'
      BY <3>2
    <3>3. CASE TakesPart(s) /\ publicPlan'[s] = publicPlan[s]
      <4>1. \/ row[i.key].status \in Waiting /\ i.plan = publicPlan[s]
            \/ MayMiss(s)
            \/ Later(s)
        BY <2>2, <3>3 DEF PlanInv
      <4> QED BY <1>2, <1>4, <3>1, <3>3, <4>1
    <3> QED BY <1>5, <2>2, <3>1, <3>2, <3>3
  <2> QED BY <1>1, <2>1, <2>2 DEF PlanInv
<1>6. CASE SeedDraft
  BY <1>2, <1>5, <1>6 DEF SeedDraft, SaveDraft, TakesPart, Active
<1>7. ASSUME NEW t \in Signups, Withdraw(t) PROVE PlanInv'
  <2>1. \A s \in Signups : /\ signup'[s] = IF s = t THEN "WITHDRAWN" ELSE signup[s]
                           /\ publicPlan'[s] = IF s = t THEN Default ELSE publicPlan[s]
    BY <1>7 DEF Withdraw, NoticeTypeOK
  <2> QED BY <1>2, <1>5, <2>1 DEF TakesPart, Active
<1>8. ASSUME NEW t \in Signups, Renew(t) PROVE PlanInv'
  <2>1. publicPlan' = publicPlan /\ \A s \in Signups : signup'[s] = IF s = t THEN "PENDING" ELSE signup[s]
    BY <1>8 DEF Renew, NoticeTypeOK
  <2>2. ToldIn(t) => t \in excused'.rejoined
    BY <1>8 DEF Renew, ToldIn, NoticeTypeOK, Openings
  <2> QED BY <1>2, <1>5, <2>1, <2>2 DEF TakesPart, Active, MayMiss
<1> QED BY <1>6, <1>7, <1>8

-----------------------------------------------------------------------------
(* ... and under the bot's steps. *)

LEMMA BotPlans ==
    ASSUME NoticeTypeOK, RowsInv, LaneInv, PlanInv, BotStep
    PROVE  PlanInv'
<1>1. /\ SameTypes /\ publicPlan' = publicPlan /\ signup' = signup /\ row \in [Keys -> Rows]
      /\ publicPlan \in [Signups -> BossPlans] /\ heard \in [Signups -> BossPlans]
  BY BotRows DEF lineupVars, NoticeTypeOK
<1>2. \A s \in Signups : TakesPart(s)' = TakesPart(s)
  BY <1>1, SameTold DEF TakesPart, Active
<1>3. \A i \in Listed : i \in Items /\ i.key \in Keys /\ i.key.signup \in Signups
  BY ListedItems
<1>4. \A s : MayMiss(s) => MayMiss(s)'
  <2>1. CASE RecordDm
    BY <2>1 DEF RecordDm, MayMiss, NoticeTypeOK, Openings
  <2>2. CASE excused' = excused
    BY <2>2 DEF MayMiss
  <2> QED BY <2>1, <2>2 DEF BotStep, QuietHoursEnd, ListNotices, ConfirmDm, DmFails, SendDm, DmIsRefused, BotRestarts
\* What waits goes on waiting, and the lane takes nothing in and sends nothing.
<1>5. ASSUME \A k \in Keys : row[k].status \in Waiting => row'[k].status \in Waiting,
             Listed' \subseteq Listed, heard' = heard, lane'.pc # "sent" \/ lane' = lane
      PROVE  PlanInv'
  <2>1. \A k \in Keys : row'[k].type = row[k].type
    BY <1>1 DEF SameTypes
  <2>2. ASSUME NEW s \in Signups PROVE /\ WaitingPicks(s, PickTypes) # {} => WaitingPicks(s, PickTypes)' # {}
                                       /\ Later(s) => Later(s)'
    <3>1. \A k \in WaitingPicks(s, PickTypes) : row'[k].type = row[k].type /\ row'[k].status \in Waiting
      BY <1>5, <2>1 DEF WaitingPicks
    <3> QED BY <1>5, <3>1, LaterStays
  <2>3. lane'.pc = "sent" => lane' = lane /\ lane.item \in Listed
    BY <1>5 DEF LaneInv, Listed
  <2>4. lane'.pc = "sent" /\ row'[lane'.item.key].type # "removed" => heard[lane'.item.key.signup] = lane'.item.plan
    BY <1>3, <2>1, <2>3 DEF PlanInv
  <2>5. ASSUME NEW i \in Listed', row'[i.key].type # "removed", TakesPart(i.key.signup)'
        PROVE  \/ row'[i.key].status \in Waiting /\ i.plan = publicPlan[i.key.signup]
               \/ MayMiss(i.key.signup)'
               \/ Later(i.key.signup)'
    <3>1. i \in Listed /\ i.key \in Keys /\ i.key.signup \in Signups
      BY <1>3, <1>5
    <3>2. \/ row[i.key].status \in Waiting /\ i.plan = publicPlan[i.key.signup]
          \/ MayMiss(i.key.signup)
          \/ Later(i.key.signup)
      BY <1>2, <2>1, <2>5, <3>1 DEF PlanInv
    <3> QED BY <1>4, <1>5, <2>2, <3>1, <3>2
  <2>6. ASSUME NEW s \in Signups, TakesPart(s)'
        PROVE  heard[s] = publicPlan[s] \/ MayMiss(s)' \/ WaitingPicks(s, PickTypes)' # {}
    BY <1>2, <1>4, <2>2, <2>6 DEF PlanInv
  <2> QED BY <1>1, <1>5, <2>4, <2>5, <2>6 DEF PlanInv
<1>6. ASSUME NEW p \in Players, QuietHoursEnd(p) PROVE PlanInv'
  <2>1. lane' = lane /\ heard' = heard /\ Listed' = Listed
    BY <1>6 DEF QuietHoursEnd, messageVars, Listed
  <2>2. ASSUME NEW k \in Keys, row[k].status \in Waiting PROVE row'[k].status \in Waiting
    <3>1. row[k] \in Rows
      BY <1>1
    <3> DEFINE r0 == [row[k] EXCEPT !.status = "PENDING"]
    <3>2. row'[k] = r0 \/ row'[k] = row[k]
      BY <1>6 DEF QuietHoursEnd
    <3>3. r0.status = "PENDING"
      BY <3>1, StatusChanges DEF Waiting
    <3> HIDE DEF r0
    <3> QED BY <2>2, <3>2, <3>3 DEF Waiting
  <2> QED BY <2>1, <2>2, <1>5
<1>7. ASSUME ListNotices PROVE PlanInv'
  <2>1. /\ row' = row /\ heard' = heard /\ lane'.pc = "listed" /\ lane'.item = NoItem
        /\ lane'.todo = {[key |-> k, plan |-> publicPlan[k.signup]] : k \in {j \in Keys : row[j].status = "PENDING"}}
    BY <1>7 DEF ListNotices, LaneIdle, messageVars
  <2>2. \A i \in Listed' : row'[i.key].status \in Waiting /\ i.plan = publicPlan[i.key.signup]
    BY <2>1 DEF Listed, Waiting
  <2>3. \A s \in Signups : WaitingPicks(s, PickTypes)' = WaitingPicks(s, PickTypes)
    BY <2>1 DEF WaitingPicks
  <2> QED BY <1>1, <1>2, <1>4, <2>1, <2>2, <2>3 DEF PlanInv
<1>8. ASSUME NEW i \in Listed, ConfirmDm(i) PROVE PlanInv'
  <2>1. row' = row /\ heard' = heard /\ i \in lane.todo /\ NoItem \notin lane.todo
    BY <1>8, ListedItems DEF ConfirmDm, IsNext, messageVars, NoticeTypeOK, LaneRows
  <2>2. Listed' \subseteq Listed /\ lane'.pc # "sent"
    <3>1. CASE lane' = After(lane.todo \ {i})
      <4>1. NoItem \notin lane.todo \ {i}
        BY <2>1
      <4>2. Listed' = lane.todo \ {i} /\ (lane' = LaneIdle \/ lane'.pc = "listed")
        BY <3>1, <4>1, AfterLane
      <4> QED BY <4>2 DEF Listed, LaneIdle
    <3>2. CASE lane' = [pc |-> "confirmed", todo |-> lane.todo \ {i}, item |-> i]
      BY <2>1, <3>2 DEF Listed
    <3> QED BY <1>8, <3>1, <3>2 DEF ConfirmDm
  <2> QED BY <2>1, <2>2, <1>5
<1>9. ASSUME NEW i \in Listed, DmFails(i) PROVE PlanInv'
  <2>1. row' = row /\ heard' = heard /\ lane' = After(lane.todo \ {i}) /\ NoItem \notin lane.todo
    BY <1>9, ListedItems DEF DmFails, messageVars, NoticeTypeOK, LaneRows
  <2>2. Listed' = lane.todo \ {i} /\ lane'.pc # "sent"
    <3>1. NoItem \notin lane.todo \ {i}
      BY <2>1
    <3>2. Listed' = lane.todo \ {i} /\ (lane' = LaneIdle \/ lane'.pc = "listed")
      BY <2>1, <3>1, AfterLane
    <3> QED BY <3>2 DEF LaneIdle
  <2> QED BY <2>1, <2>2, <1>5 DEF Listed
<1>10. ASSUME SendDm PROVE PlanInv'
  <2> DEFINE k0 == lane.item.key
  <2>1. /\ lane.pc = "confirmed" /\ lane'.pc = "sent" /\ lane'.todo = lane.todo /\ lane'.item = lane.item
        /\ heard' = IF row[k0].type = "removed" THEN heard ELSE [heard EXCEPT ![k0.signup] = lane.item.plan]
        /\ row' = row
    BY <1>10 DEF SendDm, NoticeTypeOK, LaneRows
  <2>2. lane.item \in Listed /\ row[k0].type # "none"
    BY <2>1 DEF LaneInv, Listed
  <2>3. k0 \in Keys /\ k0.signup \in Signups /\ row[k0].type \in NoticeTypes
    BY <1>1, <1>3, <2>2 DEF Rows
  <2>4. Listed' = Listed
    BY <2>1 DEF Listed
  <2>5. \A s \in Signups : WaitingPicks(s, PickTypes)' = WaitingPicks(s, PickTypes) /\ Later(s)' = Later(s)
    BY <2>1, <2>4 DEF Later, WaitingPicks
  <2>6. ASSUME NEW s \in Signups, TakesPart(s)
        PROVE  heard'[s] = publicPlan[s] \/ MayMiss(s)' \/ WaitingPicks(s, PickTypes)' # {}
    <3>1. CASE s # k0.signup \/ row[k0].type = "removed"
      <4>1. heard'[s] = heard[s]
        BY <1>1, <2>1, <3>1
      <4> QED BY <1>4, <2>5, <2>6, <4>1 DEF PlanInv
    <3>2. CASE s = k0.signup /\ row[k0].type # "removed"
      <4>1. row[k0].type \in PickTypes
        BY <2>2, <2>3, <3>2 DEF NoticeTypes
      <4>2. row[k0].status \in Waiting \/ MayMiss(s) \/ Later(s)
        BY <2>2, <2>6, <3>2 DEF PlanInv
      <4>3. row[k0].status \in Waiting => k0 \in WaitingPicks(s, PickTypes)
        BY <2>3, <3>2, <4>1 DEF WaitingPicks
      <4>4. Later(s) => WaitingPicks(s, PickTypes) # {}
        BY DEF Later
      <4> QED BY <1>4, <2>5, <4>2, <4>3, <4>4
    <3> QED BY <3>1, <3>2
  <2>7. row[k0].type # "removed" => heard'[k0.signup] = lane.item.plan
    BY <1>1, <2>1, <2>3
  <2>8. ASSUME NEW i \in Listed, row[i.key].type # "removed", TakesPart(i.key.signup)
        PROVE  \/ row[i.key].status \in Waiting /\ i.plan = publicPlan[i.key.signup]
               \/ MayMiss(i.key.signup)'
               \/ Later(i.key.signup)'
    BY <1>3, <1>4, <2>5, <2>8 DEF PlanInv
  <2> QED BY <1>1, <1>2, <1>3, <2>1, <2>4, <2>6, <2>7, <2>8 DEF PlanInv
<1>11. ASSUME DmIsRefused PROVE PlanInv'
  <2>1. lane'.pc = "refused" /\ lane'.todo = lane.todo /\ lane'.item = lane.item /\ heard' = heard /\ row' = row
    BY <1>11 DEF DmIsRefused, messageVars, NoticeTypeOK, LaneRows
  <2>2. Listed' = Listed
    BY <2>1 DEF Listed
  <2> QED BY <2>1, <2>2, <1>5
<1>12. ASSUME RecordDm PROVE PlanInv'
  <2> DEFINE k0 == lane.item.key
             st == IF lane.pc = "sent" THEN "SENT" ELSE "FAILED_PERMANENT"
             r0 == [row[k0] EXCEPT !.status = st]
  <2>1. /\ lane.pc \in {"sent", "refused"} /\ heard' = heard /\ lane' = After(lane.todo)
        /\ NoItem \notin lane.todo
    BY <1>12, ListedItems DEF RecordDm, messageVars, NoticeTypeOK, LaneRows
  <2>2. lane.item \in Listed /\ row[k0].type # "none" /\ \A i \in lane.todo : i.key # k0
    BY <2>1 DEF LaneInv, Listed
  <2>3. k0 \in Keys /\ k0.signup \in Signups /\ row[k0].type \in NoticeTypes
    BY <1>1, <1>3, <2>2 DEF Rows
  <2>4. Listed' = lane.todo /\ lane'.pc # "sent" /\ Listed' \subseteq Listed
    BY <2>1, AfterLane DEF LaneIdle, Listed
  <2>5. CASE row[k0].status # "PENDING"
    <3>1. row' = row
      BY <1>12, <2>5, Zenon DEF RecordDm
    <3> QED BY <2>1, <2>4, <3>1, <1>5
  <2>6. CASE row[k0].status = "PENDING"
    <3>1. row' = [row EXCEPT ![k0] = r0]
      BY <1>12, <2>6, Zenon DEF RecordDm
    <3> HIDE DEF r0
    <3>2. \A k \in Keys : k # k0 => row'[k] = row[k]
      BY <1>1, <2>3, <3>1
    <3>3. ASSUME NEW s \in Signups, s = k0.signup, lane.pc = "refused", row[k0].type \in PickTypes PROVE MayMiss(s)'
      <4>1. excused' = [excused EXCEPT !.unheard = @ \cup {k0.signup}]
        BY <1>12, <3>3 DEF RecordDm
      <4>2. s \in excused'.unheard
        BY <3>3, <4>1 DEF NoticeTypeOK, Openings
      <4> QED BY <4>2 DEF MayMiss
    \* Another waiting pick is still waiting.
    <3>4. ASSUME NEW s \in Signups, NEW k \in WaitingPicks(s, PickTypes), k # k0
          PROVE  /\ WaitingPicks(s, PickTypes)' # {}
                 /\ (\A i \in Listed : i.key # k) => Later(s)'
      <4>1. k \in WaitingPicks(s, PickTypes)'
        BY <3>2, <3>4 DEF WaitingPicks
      <4> QED BY <2>4, <4>1 DEF Later
    <3>5. ASSUME NEW s \in Signups, Later(s) PROVE Later(s)' /\ WaitingPicks(s, PickTypes)' # {}
      <4>1. PICK k \in WaitingPicks(s, PickTypes) : \A i \in Listed : i.key # k
        BY <3>5 DEF Later
      <4> QED BY <2>2, <3>4, <4>1
    <3>6. ASSUME NEW s \in Signups, TakesPart(s)
          PROVE  heard[s] = publicPlan[s] \/ MayMiss(s)' \/ WaitingPicks(s, PickTypes)' # {}
      <4>1. SUFFICES ASSUME heard[s] # publicPlan[s], ~MayMiss(s)' PROVE WaitingPicks(s, PickTypes)' # {}
        OBVIOUS
      <4>2. PICK k \in WaitingPicks(s, PickTypes) : TRUE
        BY <1>4, <3>6, <4>1 DEF PlanInv
      <4>3. CASE k # k0
        BY <3>4, <4>3
      <4>4. CASE k = k0
        <5>1. s = k0.signup /\ row[k0].type \in PickTypes /\ row[k0].type # "removed"
          BY <4>2, <4>4 DEF WaitingPicks, PickTypes
        <5>2. lane.pc = "sent"
          BY <2>1, <3>3, <4>1, <5>1
        <5>4. heard[s] = lane.item.plan
          BY <5>1, <5>2 DEF PlanInv
        <5>3. Later(s)
          BY <1>4, <2>2, <3>6, <4>1, <5>1, <5>4 DEF PlanInv
        <5> QED BY <3>5, <5>3
      <4> QED BY <4>3, <4>4
    <3>7. ASSUME NEW i \in Listed', row'[i.key].type # "removed", TakesPart(i.key.signup)
          PROVE  \/ row'[i.key].status \in Waiting /\ i.plan = publicPlan[i.key.signup]
                 \/ MayMiss(i.key.signup)'
                 \/ Later(i.key.signup)'
      <4>1. i \in Listed /\ i.key # k0 /\ i.key \in Keys /\ i.key.signup \in Signups
        BY <1>3, <2>2, <2>4
      <4>2. row'[i.key] = row[i.key]
        BY <3>2, <4>1
      <4>3. \/ row[i.key].status \in Waiting /\ i.plan = publicPlan[i.key.signup]
            \/ MayMiss(i.key.signup)
            \/ Later(i.key.signup)
        BY <3>7, <4>1, <4>2 DEF PlanInv
      <4> QED BY <1>4, <3>5, <4>1, <4>2, <4>3
    <3>8. \A i \in Listed' : i.key.signup \in Signups
      BY <1>3, <2>4
    <3> QED BY <1>1, <1>2, <2>1, <2>4, <3>6, <3>7, <3>8 DEF PlanInv
  <2> QED BY <2>5, <2>6
<1>13. ASSUME BotRestarts PROVE PlanInv'
  <2>1. row' = row /\ heard' = heard /\ lane' = LaneIdle
    BY <1>13 DEF BotRestarts, messageVars
  <2>2. Listed' = {} /\ lane'.pc # "sent"
    BY <2>1 DEF LaneIdle, Listed
  <2> QED BY <2>1, <2>2, <1>5
<1> QED BY <1>6, <1>7, <1>8, <1>9, <1>10, <1>11, <1>12, <1>13 DEF BotStep

-----------------------------------------------------------------------------
(* The invariant is inductive. *)

LEMMA InitHolds == ASSUME NoticeInit PROVE IInv
<1>1. \A k \in Keys : row[k] = NoRow /\ k.signup \in Signups
  BY DEF NoticeInit, Keys
<1>2. Listed = {} /\ lane = LaneIdle /\ lane.pc = "idle" /\ lane.item = NoItem
  BY DEF NoticeInit, Listed, LaneIdle
<1>3. \A s \in Signups : Noticed(s) = {} /\ ~ToldIn(s) /\ signup[s] # "SELECTED" /\ s \notin draft
  BY <1>1 DEF NoticeInit, Noticed, NoRow, ToldIn
<1>4. 1 \in Versions
  BY NoticesAssumption DEF Versions
<1>5. NoticeTypeOK
  <2>1. NoRow \in Rows /\ LaneIdle \in LaneRows /\ NoPlans \in [Signups -> BossPlans]
    BY NoticesAssumption DEF NoRow, Rows, NoticeTypes, PickTypes, LaneIdle, LaneRows, NoPlans
  <2>2. signup \in [Signups -> {"PENDING", "SELECTED", "NOT_SELECTED", "WITHDRAWN"}]
    BY DEF NoticeInit
  <2>3. excused \in Openings
    BY DEF NoticeInit, Openings
  <2> QED BY <1>4, <2>1, <2>2, <2>3 DEF NoticeTypeOK, NoticeInit
<1>6. RowsInv
  BY <1>1 DEF RowsInv, NoRow, Waiting
<1>7. RosterInv /\ NoticesMatchRoster
  BY <1>3 DEF NoticeInit, RosterInv, PublishedSlots, OneSlot, NoticesMatchRoster
<1>8. LaneInv
  BY <1>2 DEF LaneInv
<1>9. OrderInv
  BY <1>1, <1>2 DEF NoticeInit, OrderInv, NoRow
<1>10. PlanInv
  BY <1>2, <1>3 DEF NoticeInit, PlanInv, TakesPart
<1> QED BY <1>5, <1>6, <1>7, <1>8, <1>9, <1>10 DEF IInv

LEMMA RosterKeeps == ASSUME IInv, RosterStep PROVE IInv'
<1>1. NoticeTypeOK'
  BY RosterTyped DEF IInv
<1>2. ASSUME NEW chars \in Lineups, NEW new \in [Signups -> BossPlans], SaveRoster(chars, new)
      PROVE  IInv'
  <2>1. chars \in SUBSET Signups
    BY DEF Lineups
  <2>2. RosterInv' /\ NoticesMatchRoster' /\ PlanInv'
    BY <1>2, SaveMatches, SavePlans DEF IInv
  <2>3. /\ Written(chars, SelectionNotices(chars, draft), {}, {}) /\ row' \in [Keys -> Rows]
        /\ SelectionNotices(chars, draft) \in [Signups -> NoticeTypes]
    BY <1>2, <2>1, SaveIsWritten, SelectionTypes DEF IInv
  <2>4. RowsInv' /\ LaneInv' /\ OrderInv'
    BY <2>3, WrittenKeeps DEF IInv
  <2> QED BY <1>1, <2>2, <2>4 DEF IInv
<1>3. ASSUME NEW chars \in Lineups, NEW new \in [Signups -> BossPlans], Publish(chars, new)
      PROVE  IInv'
  <2>1. chars \in SUBSET Signups
    BY DEF Lineups
  <2>2. RosterInv' /\ NoticesMatchRoster' /\ PlanInv'
    BY <1>3, PublishMatches, PublishPlans DEF IInv
  <2>3. /\ Written(chars, PublishNotices(chars, new), Superseded(chars, new), Absorbed(chars, new))
        /\ row' \in [Keys -> Rows] /\ PublishNotices(chars, new) \in [Signups -> NoticeTypes]
    BY <1>3, <2>1, PublishIsWritten, PublishTypes DEF IInv
  <2>4. RowsInv' /\ LaneInv' /\ OrderInv'
    BY <2>3, WrittenKeeps DEF IInv
  <2> QED BY <1>1, <2>2, <2>4 DEF IInv
<1>4. ASSUME SeedDraft \/ \E s \in Signups : Withdraw(s) \/ Renew(s)
      PROVE  IInv'
  <2>1. RosterInv' /\ NoticesMatchRoster' /\ PlanInv'
    BY <1>4, UntoldMatches, UntoldPlans DEF IInv
  <2>2. UNCHANGED <<row, lane, messageVars, delayed>> /\ version' \in {version, version + 1}
    BY <1>4 DEF SeedDraft, SaveDraft, Withdraw, Renew
  <2>3. RowsInv' /\ LaneInv' /\ OrderInv'
    BY <2>2, UntoldKeeps DEF IInv
  <2> QED BY <1>1, <2>1, <2>3 DEF IInv
<1> QED BY <1>2, <1>3, <1>4, RosterCases DEF IInv

LEMMA BotKeeps == ASSUME IInv, BotStep PROVE IInv'
<1>1. NoticeTypeOK /\ RowsInv /\ RosterInv /\ NoticesMatchRoster /\ LaneInv /\ OrderInv /\ PlanInv
  BY DEF IInv
<1>2. NoticeTypeOK' /\ RowsInv'
  BY <1>1, BotTyped, BotRows
<1>3. RosterInv' /\ NoticesMatchRoster'
  BY <1>1, BotMatches
<1>4. LaneInv' /\ OrderInv'
  BY <1>1, BotLane
<1>5. PlanInv'
  BY <1>1, BotPlans
<1> QED BY <1>2, <1>3, <1>4, <1>5 DEF IInv

LEMMA StutterKeeps == ASSUME IInv, UNCHANGED noticeVars PROVE IInv'
<1>1. /\ UNCHANGED <<published, signup, draft, plan, publicPlan, version, row, lane, heard, newest, delayed, excused>>
  BY DEF noticeVars, lineupVars, messageVars
<1>2. Listed' = Listed
  BY <1>1 DEF Listed
<1>3. \A s : /\ Noticed(s)' = Noticed(s) /\ IsNotifiedSelected(s)' = IsNotifiedSelected(s)
             /\ Active(s)' = Active(s) /\ WaitingPicks(s, PickTypes)' = WaitingPicks(s, PickTypes)
  BY <1>1 DEF Noticed, IsNotifiedSelected, Active, WaitingPicks
<1>4. \A s : ToldIn(s)' = ToldIn(s) /\ Later(s)' = Later(s) /\ MayMiss(s)' = MayMiss(s)
  BY <1>1, <1>2, <1>3 DEF ToldIn, Later, MayMiss
<1>5. NoticeTypeOK' /\ RowsInv'
  BY <1>1 DEF IInv, NoticeTypeOK, RowsInv
<1>6. RosterInv' /\ NoticesMatchRoster'
  BY <1>1, <1>3, <1>4 DEF IInv, RosterInv, OneSlot, PublishedSlots, NoticesMatchRoster
<1>7. LaneInv'
  BY <1>1, <1>2 DEF IInv, LaneInv
<1>8. OrderInv'
  BY <1>1, <1>2 DEF IInv, OrderInv, Fresh
<1>9. PlanInv'
  BY <1>1, <1>2, <1>3, <1>4 DEF IInv, PlanInv, TakesPart
<1> QED BY <1>5, <1>6, <1>7, <1>8, <1>9 DEF IInv

LEMMA Inductive == ASSUME IInv, [NoticeNext]_noticeVars PROVE IInv'
BY RosterKeeps, BotKeeps, StutterKeeps DEF NoticeNext

-----------------------------------------------------------------------------
(* One message per player and write. *)

LEMMA WrittenOnce ==
    ASSUME IInv, NEW chars \in Lineups, NEW type \in [Signups -> NoticeTypes],
           NEW superseded, NEW absorbed, Written(chars, type, superseded, absorbed),
           \A s \in Signups : /\ type[s] \in PickTypes => s \in chars
                              /\ type[s] = "removed" => s \in Leaving(chars),
           NEW p \in Players, p \cap excused.rejoined = {},
           NEW k \in Announced(p), NEW j \in Announced(p)
    PROVE  k = j
<1> DEFINE News(i) == /\ i \in Keys /\ i.signup \in p /\ i.signup \in Signups
                      /\ i.version = version + 1
                      /\ type[i.signup] \in PickTypes \/ (type[i.signup] = "removed" /\ ~StaysIn(chars, i.signup))
<1>1. ASSUME NEW i \in Announced(p) PROVE News(i)
  <2>1. i \in Keys /\ i.signup \in p /\ i.signup \in Signups /\ row[i] = NoRow /\ row'[i].status \in Waiting
    BY DEF Announced, Keys
  <2>2. Tells(type, i)
    BY <2>1 DEF Written, NoRow, Waiting
  <2>3. type[i.signup] \in PickTypes \cup {"removed"}
    BY <2>1, <2>2 DEF Tells, NoticeTypes
  <2>4. ~(type[i.signup] = "removed" /\ StaysIn(chars, i.signup))
    BY <2>1, <2>2 DEF Written, Waiting
  <2> QED BY <2>1, <2>2, <2>3, <2>4 DEF Tells
<1>2. News(k) /\ News(j)
  BY <1>1
<1>3. SamePlayer(k.signup, j.signup) /\ SamePlayer(j.signup, k.signup)
  BY <1>2 DEF SamePlayer
<1>4. ASSUME NEW s \in p, s \in Leaving(chars) PROVE s \in draft
  <2>1. IsNotifiedSelected(s) /\ Active(s) /\ s \in Signups /\ s \notin excused.rejoined
    BY <1>4 DEF Leaving
  <2>2. Noticed(s) # {}
    BY <2>1 DEF IsNotifiedSelected, IInv, RosterInv, PublishedSlots
  <2> QED BY <2>1, <2>2 DEF IInv, NoticesMatchRoster, ToldIn
<1>5. k.signup = j.signup
  <2>1. CASE type[k.signup] \in PickTypes /\ type[j.signup] \in PickTypes
    BY <1>2, <1>3, <2>1 DEF Lineups
  <2>2. CASE type[k.signup] = "removed" /\ type[j.signup] = "removed"
    <3>1. k.signup \in draft /\ j.signup \in draft
      BY <1>2, <1>4, <2>2
    <3> QED BY <1>3, <3>1 DEF IInv, RosterInv, OneSlot
  <2>3. CASE type[k.signup] \in PickTypes /\ type[j.signup] = "removed"
    BY <1>2, <1>3, <2>3 DEF StaysIn, PickTypes
  <2>4. CASE type[j.signup] \in PickTypes /\ type[k.signup] = "removed"
    BY <1>2, <1>3, <2>4 DEF StaysIn, PickTypes
  <2> QED BY <1>2, <2>1, <2>2, <2>3, <2>4
<1> QED BY <1>2, <1>5 DEF Keys

LEMMA AtMostOne ==
    ASSUME NEW S, \A x, y \in S : x = y
    PROVE  Cardinality(S) <= 1
<1>1. CASE S = {}
  BY <1>1, FS_EmptySet
<1>2. ASSUME NEW x \in S PROVE Cardinality(S) <= 1
  <2>1. S = {x}
    OBVIOUS
  <2> QED BY <2>1, FS_Singleton
<1> QED BY <1>1, <1>2

LEMMA StepSendsOne ==
    ASSUME IInv, [NoticeNext]_noticeVars
    PROVE  \A p \in Players : Cardinality(Announced(p)) <= 1 \/ p \cap excused.rejoined # {}
<1> SUFFICES ASSUME NEW p \in Players, p \cap excused.rejoined = {}
             PROVE  Cardinality(Announced(p)) <= 1
  OBVIOUS
<1>1. ASSUME NEW chars \in Lineups, NEW new \in [Signups -> BossPlans], SaveRoster(chars, new)
      PROVE  Cardinality(Announced(p)) <= 1
  <2> DEFINE type == SelectionNotices(chars, draft)
  <2>1. chars \in SUBSET Signups
    BY DEF Lineups
  <2>2. Written(chars, type, {}, {}) /\ type \in [Signups -> NoticeTypes]
    BY <1>1, <2>1, SaveIsWritten, SelectionTypes DEF IInv
  <2>3. \A s \in Signups : /\ type[s] \in PickTypes => s \in chars
                           /\ type[s] = "removed" => s \in Leaving(chars)
    BY <2>1, SelectionTypes DEF PickTypes, Joining
  <2> HIDE DEF type
  <2>4. \A k, j \in Announced(p) : k = j
    BY <2>2, <2>3, WrittenOnce
  <2> QED BY <2>4, AtMostOne
<1>2. ASSUME NEW chars \in Lineups, NEW new \in [Signups -> BossPlans], Publish(chars, new)
      PROVE  Cardinality(Announced(p)) <= 1
  <2> DEFINE type == PublishNotices(chars, new)
  <2>1. chars \in SUBSET Signups
    BY DEF Lineups
  <2>2. /\ Written(chars, type, Superseded(chars, new), Absorbed(chars, new))
        /\ type \in [Signups -> NoticeTypes]
    BY <1>2, <2>1, PublishIsWritten, PublishTypes DEF IInv
  <2>3. \A s \in Signups : /\ type[s] \in PickTypes => s \in chars
                           /\ type[s] = "removed" => s \in Leaving(chars)
    BY <2>1, PublishTypes DEF Joining, Renoticed, Replanned
  <2> HIDE DEF type
  <2>4. \A k, j \in Announced(p) : k = j
    BY <2>2, <2>3, WrittenOnce
  <2> QED BY <2>4, AtMostOne
<1>3. ASSUME SameTypes, RowsInv' PROVE Cardinality(Announced(p)) <= 1
  <2>1. \A k \in Announced(p) : FALSE
    BY <1>3 DEF Announced, SameTypes, RowsInv, NoRow
  <2> QED BY <2>1, AtMostOne
<1>4. CASE SeedDraft \/ \E s \in Signups : Withdraw(s) \/ Renew(s)
  <2>1. SameTypes
    BY <1>4 DEF SeedDraft, Withdraw, Renew, SameTypes
  <2> QED BY <1>3, <2>1, Inductive DEF IInv
<1>5. CASE BotStep
  BY <1>3, <1>5, BotRows DEF IInv
<1>6. CASE UNCHANGED noticeVars
  <2>1. SameTypes
    BY <1>6 DEF noticeVars, SameTypes
  <2> QED BY <1>3, <2>1, Inductive DEF IInv
<1>7. NoticeTypeOK /\ RosterInv
  BY DEF IInv
<1> QED BY <1>1, <1>2, <1>4, <1>5, <1>6, <1>7, RosterCases DEF NoticeNext

-----------------------------------------------------------------------------
(* The theorems. *)

\* IInv holds in every reachable state.
LEMMA InvariantHolds == NoticeSpec => []IInv
<1>1. NoticeInit => IInv
  BY InitHolds
<1>2. IInv /\ [NoticeNext]_noticeVars => IInv'
  BY Inductive
<1> QED BY <1>1, <1>2, PTL DEF NoticeSpec

\* Every row, listing and history keeps its type: a slot never has the plan of
\* another Run, a version never passes the bound, a notice is of a known kind.
THEOREM NoticesAreTyped == NoticeSpec => []NoticeTypeOK
<1>1. IInv => NoticeTypeOK
  BY DEF IInv
<1> QED BY <1>1, InvariantHolds, PTL

\* What a signup was last told agrees with the roster (NoticesMatchRoster), for
\* any number of players, Characters and versions: notifyRosterSelectionChangesInTx
\* reads the notifications and not its own memory.
THEOREM NoticesFollowTheRoster == NoticeSpec => []NoticesMatchRoster
<1>1. IInv => NoticesMatchRoster
  BY DEF IInv
<1> QED BY <1>1, InvariantHolds, PTL

\* A published player has heard the published boss plan or has a message
\* waiting, up to the openings PlanIsHeard names.
THEOREM PlansAreHeard == NoticeSpec => []PlanIsHeard
<1>1. IInv => PlanIsHeard
  BY DEF IInv, PlanInv, PlanIsHeard, PlanIsMissed, TakesPart, MayMiss, Active
<1> QED BY <1>1, InvariantHolds, PTL

\* One roster write sends a player at most one message, a change of Character included.
THEOREM WritesSendOneMessage == NoticeSpec => OneMessagePerWrite
<1>1. IInv /\ [NoticeNext]_noticeVars
        => [\A p \in Players : Cardinality(Announced(p)) <= 1 \/ p \cap excused.rejoined # {}]_noticeVars
  BY StepSendsOne
<1> QED BY <1>1, InvariantHolds, PTL DEF NoticeSpec, OneMessagePerWrite

\* A message older than what the player already had waited for quiet hours or
\* failed once: the bot sends the oldest first, and a newer one is written later.
THEOREM OldNewsIsRetried == NoticeSpec => OldNewsNeedsARetry
<1>1. IInv => (lane.pc = "confirmed" => LET k == lane.item.key IN newest[k.signup] > k.version => k \in delayed)
  <2>1. SUFFICES ASSUME IInv, lane.pc = "confirmed" PROVE Fresh(lane.item.key) /\ lane.item \in Listed
    <3>1. IInv => newest \in [Signups -> Nat]
      BY DEF IInv, NoticeTypeOK
    <3>2. IInv => \A i \in Listed : i.key.signup \in Signups /\ i.key.version \in Nat
      BY ListedItems DEF IInv
    <3>3. IInv => \A i \in Listed : Fresh(i.key) /\ newest[i.key.signup] > i.key.version => i.key \in delayed
      BY <3>1, <3>2 DEF Fresh
    <3> QED BY <3>3
  <2>2. lane.item # NoItem
    BY <2>1 DEF IInv, LaneInv
  <2>3. lane.item \in Listed
    BY <2>2 DEF Listed
  <2> QED BY <2>1, <2>3 DEF IInv, OrderInv
<1>2. IInv /\ [NoticeNext]_noticeVars
        => [lane.pc = "confirmed" /\ lane'.pc = "sent" =>
               LET k == lane.item.key IN newest[k.signup] > k.version => k \in delayed]_noticeVars
  BY <1>1
<1> QED BY <1>2, InvariantHolds, PTL DEF NoticeSpec, OldNewsNeedsARetry
=============================================================================
