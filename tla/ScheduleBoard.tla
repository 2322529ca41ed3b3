--------------------------- MODULE ScheduleBoard ---------------------------
(***************************************************************************)
(* What the weekly schedule promises to whoever looks at its slots and     *)
(* Runs: each change of the board is one step that finds the board as it   *)
(* leaves it, without requests, passes, row locks or anything that was     *)
(* read earlier.  CommunitySchedule implements this specification.         *)
(***************************************************************************)
EXTENDS Naturals

CONSTANTS Slots, Runs, None, Week, Windows

VARIABLES now,
          slot,      \* there, isActive, time, from
          run,       \* status, archived, used, start
          link,      \* the occurrence of a Run: slot, window, time, origin
          revived,   \* Runs that were cancelled and came back
          late       \* Runs somebody signed up for while their slot was changed

boardVars == <<now, slot, run, link, revived, late>>

IsLive(r) == run[r].status = "OPEN" /\ ~run[r].archived
Occupied(s, w) == \E r \in Runs : link[r] # None /\ link[r].slot = s /\ link[r].window = w

\* The slot is active at that time in that window.
Covers(row, occurrence) ==
    /\ row.there /\ row.isActive
    /\ row.time = occurrence.time
    /\ row.from <= occurrence.window

\* Made by the schedule, still to come, never cancelled, and nobody signed up.
Idling(r) == /\ link[r] # None /\ link[r].origin = "MATERIALIZED"
             /\ IsLive(r) /\ ~run[r].used /\ run[r].start > now
             /\ r \notin revived

Init == /\ \A r \in Runs : link[r] = None /\ run[r].status # "CANCELLED" /\ ~run[r].archived
        /\ revived = {} /\ late = {}

\* A Run gets an occurrence that is free.
GetsOccurrence(r, origin) ==
    /\ link[r] = None /\ link'[r] # None
    /\ \E s \in Slots, w \in Windows :
          LET occurrence == [slot |-> s, of |-> s, window |-> w, time |-> slot'[s].time, origin |-> origin]
          IN /\ ~Occupied(s, w)
             /\ Covers(slot'[s], occurrence)
             /\ link' = [link EXCEPT ![r] = occurrence]

\* A Run is made for an occurrence its slot has.
Create(r) ==
    /\ run[r].status = "NONE"
    /\ GetsOccurrence(r, "MATERIALIZED")
    /\ run' = [run EXCEPT ![r] = [status |-> "OPEN", archived |-> FALSE, used |-> FALSE,
                                  start |-> link'[r].window * Week + link'[r].time]]
    /\ UNCHANGED <<now, slot, revived, late>>

\* A Run that is there already is attached to a slot as it is, or to a new one.
Attach(r) ==
    /\ run[r].status # "NONE"
    /\ GetsOccurrence(r, "ATTACHED")
    /\ \A s \in Slots : slot[s].there \/ s # link'[r].slot => slot'[s] = slot[s]
    /\ UNCHANGED <<now, run, revived, late>>

\* Slots change.  Of the Runs that idle in them exactly those go that the slots
\* do not cover any more; a Run that was attached or that somebody signed up for
\* stays, unless the signup came too late to be seen.  Who goes, and everybody
\* when the slots are deleted, gives up the occurrence.
Changed == {s \in Slots : slot'[s] # slot[s]}
Change(gone) ==
    /\ Changed # {}
    /\ \A r \in gone : /\ link[r] # None /\ link[r].slot \in Changed
                       /\ link[r].origin = "MATERIALIZED"
                       /\ run[r].used => r \in late
    /\ \A r \in Runs : Idling(r) /\ link[r].slot \in Changed =>
           (r \in gone <=> ~Covers(slot'[link[r].slot], link[r]))
    /\ run' = [r \in Runs |-> IF r \in gone
                              THEN [run[r] EXCEPT !.status = "CANCELLED", !.archived = TRUE]
                              ELSE run[r]]
    /\ \E deleted \in {{}, {s \in Changed : ~slot'[s].there}} :
           link' = [r \in Runs |-> IF r \in gone \/ (link[r] # None /\ link[r].slot \in deleted)
                                   THEN [link[r] EXCEPT !.slot = None] ELSE link[r]]
    /\ UNCHANGED <<now, revived, late>>

SignUp(r) == /\ IsLive(r)
             /\ run' = [run EXCEPT ![r].used = TRUE]
             /\ late' \in {late, late \cup {r}}
             /\ UNCHANGED <<now, slot, link, revived>>

Cancel(r) == /\ IsLive(r)
             /\ run' = [run EXCEPT ![r].status = "CANCELLED"]
             /\ UNCHANGED <<now, slot, link, revived, late>>

Reactivate(r) == /\ run[r].status = "CANCELLED" /\ run[r].start > now
                 /\ run' = [run EXCEPT ![r].status = "OPEN", ![r].archived = FALSE]
                 /\ revived' = revived \cup {r}
                 /\ UNCHANGED <<now, slot, link, late>>

Tick == now' = now + 1 /\ UNCHANGED <<slot, run, link, revived, late>>

Next == \/ \E r \in Runs : Create(r) \/ Attach(r) \/ SignUp(r) \/ Cancel(r) \/ Reactivate(r)
        \/ \E gone \in SUBSET Runs : Change(gone)
        \/ Tick

Spec == Init /\ [][Next]_boardVars
=============================================================================
