-------------------------- MODULE CharacterBookings --------------------------
(***************************************************************************)
(* The promise the rosters make about a Character, without requests, locks *)
(* or tables: which Runs it is booked on, and that a Run only ever books   *)
(* Characters who are not booked on another Run that starts too close.     *)
(* RosterBookings implements this specification.                           *)
(*                                                                         *)
(* The promise has openings, and they are part of it: a Run that was moved *)
(* or reactivated after it had bookings (`revised`), and a draft slot that *)
(* outlived the withdrawal of its offer and books the Character again when *)
(* the player offers once more or is replaced (`slipped`).                 *)
(***************************************************************************)
EXTENDS Integers

CONSTANTS Runs, Characters,
          Starts,  \* the start times of Runs
          MinGap   \* CROSS_RUN_RESERVATION_MIN_GAP_MS

VARIABLES booked,    \* the Runs each Character is booked on
          slots,     \* the Runs that occupy their place in the calendar
          start,     \* when each Run starts
          revised,   \* Runs rescheduled or reactivated since they were created
          slipped    \* <<Run, Character>> booked again by a slot that was left over

bookingsVars == <<booked, slots, start, revised, slipped>>

\* Two starts collide when they are less than MinGap apart; exactly MinGap is
\* far enough.
TooClose(r, s) == start[r] - start[s] < MinGap /\ start[s] - start[r] < MinGap

Excused(r, s, c) == \/ r \in revised \/ s \in revised
                    \/ <<r, c>> \in slipped \/ <<s, c>> \in slipped

\* Character c may be booked on r.
FreeFor(c, r) == \A s \in (booked[c] \cap slots) \ {r} : TooClose(r, s) => Excused(r, s, c)

\* No Character is booked on two Runs that start too close together, except
\* through one of the openings (character-reservation-lock.ts: "Prevents TOCTOU
\* double-booking across overlapping Runs").
NoDoubleBooking ==
    \A c \in Characters : \A r, s \in booked[c] \cap slots :
        r # s /\ TooClose(r, s) => Excused(r, s, c)

Init == /\ booked \in [Characters -> SUBSET Runs]
        /\ slots = Runs
        /\ start \in [Runs -> Starts]
        /\ revised = {}
        /\ slipped = {}
        /\ NoDoubleBooking

\* One write of r: its line-up becomes `lineup`, of which the Characters in
\* `leftover` are back through a slot that was left over.
Rebook(r, lineup, leftover) ==
    /\ \A c \in lineup \ leftover : r \in booked[c] \/ FreeFor(c, r)
    /\ booked' = [c \in Characters |-> IF c \in lineup THEN booked[c] \cup {r}
                                                       ELSE booked[c] \ {r}]
    /\ slipped' = slipped \cup ({r} \X leftover)
    /\ UNCHANGED <<slots, start, revised>>

\* Cancel or Complete.
GiveUpSlot(r) == /\ slots' = slots \ {r}
                 /\ UNCHANGED <<booked, start, revised, slipped>>

\* Reactivate, with whatever the Run had booked.
RetakeSlot(r) == /\ slots' = slots \cup {r}
                 /\ revised' = revised \cup {r}
                 /\ UNCHANGED <<booked, start, slipped>>

Reschedule(r) == /\ \E at \in Starts : start' = [start EXCEPT ![r] = at]
                 /\ revised' = revised \cup {r}
                 /\ UNCHANGED <<booked, slots, slipped>>

Next == \E r \in Runs :
            \/ \E lineup \in SUBSET Characters : \E leftover \in SUBSET lineup :
                   Rebook(r, lineup, leftover)
            \/ GiveUpSlot(r) \/ RetakeSlot(r) \/ Reschedule(r)

Spec == Init /\ [][Next]_bookingsVars

=============================================================================
