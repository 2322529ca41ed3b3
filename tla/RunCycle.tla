------------------------------ MODULE RunCycle ------------------------------
(***************************************************************************)
(* What the lifecycle promises to whoever looks at a Run: the moves of its *)
(* status, its cancellations and its archiving, without requests, locks or *)
(* what a request remembers from an earlier read.  RunLifecycle implements *)
(* this specification as long as its unlocked writes come in time.         *)
(***************************************************************************)
EXTENDS Naturals

VARIABLES status,
          cancelledFrom,   \* where Reactivate goes back to
          revision,        \* how often the Run was cancelled
          archived,
          attendance       \* "NONE" until Start; "MARKED" when everybody is marked

cycleVars == <<status, cancelledFrom, revision, archived, attendance>>

Init == /\ status \in {"DRAFT", "OPEN"}
        /\ cancelledFrom = "NONE"
        /\ revision = 0
        /\ archived = FALSE
        /\ attendance = "NONE"

\* Before Start everything can still be undone.
NotStarted == {"DRAFT", "OPEN", "ROSTERING", "PUBLISHED"}
\* Nothing is left to do.
Ended == {"COMPLETED", "CANCELLED"}

Become(to) == status' = to /\ UNCHANGED <<cancelledFrom, revision, archived>>

Open == status = "DRAFT" /\ Become("OPEN") /\ UNCHANGED attendance
StartRostering == status = "OPEN" /\ Become("ROSTERING") /\ UNCHANGED attendance
Publish == status \in {"OPEN", "ROSTERING"} /\ Become("PUBLISHED") /\ UNCHANGED attendance

\* Every cancellation has a revision of its own and remembers the very status
\* it ended.
EndCycle(from) ==
    /\ status \in from
    /\ status' = "CANCELLED"
    /\ cancelledFrom' = status
    /\ revision' = revision + 1
    /\ UNCHANGED attendance

Cancel == EndCycle(NotStarted) /\ UNCHANGED archived
\* The schedule takes back a Run nobody uses.
Retire == EndCycle({"DRAFT", "OPEN"}) /\ archived' = TRUE

\* Only a Run that never started comes back, and only to where it was.
Reactivate ==
    /\ status = "CANCELLED" /\ ~archived
    /\ cancelledFrom \in NotStarted
    /\ attendance = "NONE"
    /\ status' = cancelledFrom
    /\ cancelledFrom' = "NONE"
    /\ UNCHANGED <<revision, archived, attendance>>

\* Start happens once; attendance is marked until Complete and then stays.
Start == status = "PUBLISHED" /\ attendance = "NONE" /\ Become("IN_PROGRESS") /\ attendance' = "UNMARKED"
Mark == /\ status = "IN_PROGRESS"
        /\ attendance' \in {"UNMARKED", "MARKED"}
        /\ UNCHANGED <<status, cancelledFrom, revision, archived>>
Complete == status = "IN_PROGRESS" /\ attendance = "MARKED" /\ Become("COMPLETED") /\ UNCHANGED attendance

Archive == /\ status \in Ended /\ ~archived
           /\ archived' = TRUE
           /\ UNCHANGED <<status, cancelledFrom, revision, attendance>>
Restore == /\ archived
           /\ archived' = FALSE
           /\ UNCHANGED <<status, cancelledFrom, revision, attendance>>

Next == \/ Open \/ StartRostering \/ Publish
        \/ Cancel \/ Retire \/ Reactivate
        \/ Start \/ Mark \/ Complete
        \/ Archive \/ Restore

Spec == Init /\ [][Next]_cycleVars
=============================================================================
