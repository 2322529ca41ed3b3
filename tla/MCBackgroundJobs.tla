-------------------------- MODULE MCBackgroundJobs --------------------------
(* The three jobs that run beside the website's requests, one at a time:     *)
(* they share no row, so `job` says which of them a behaviour is about.      *)
(*                                                                           *)
(* The schedule: one slot that makes its Runs automatically and one that may *)
(* be created, with a Run of a Raid Lead, players signed up, that can be     *)
(* attached to either.  It starts the tick before the weekly release.        *)
(*                                                                           *)
(* The Character sync: two refreshes at a time, in two processes, of a       *)
(* Character that killed one of two bosses since it was last synced, or one  *)
(* with all kills stored and an item level that may still rise.              *)
(*                                                                           *)
(* The messages about a roster: a player with two Characters, who may have   *)
(* offered one of them, and three roster writes.                             *)
EXTENDS CommunitySchedule, CharacterSync, RosterNotices, TLC

CONSTANTS s1, s2, own, m1, m2, a, b, web, script, c1, c2

VARIABLE job

NewSlot(there) == [there |-> there, isActive |-> TRUE, time |-> 0, from |-> 0, rev |-> 0]

MCInit == /\ job \in {"schedule", "sync", "notices"}
          /\ now = Release - 1
          /\ slot = (s1 :> NewSlot(TRUE) @@ s2 :> NewSlot(FALSE))
          /\ run = [r \in Runs |-> [status |-> IF r = own THEN "OPEN" ELSE "NONE", archived |-> FALSE,
                                    used |-> r = own, start |-> Week + 1]]
          /\ \/ killed = (a :> {} @@ b :> Bosses) /\ lockouts = NoKills /\ level = 2
             \/ killed = (a :> Bosses @@ b :> Bosses) /\ lockouts = killed /\ level = 1 /\ job = "sync"
          /\ Init
          /\ RefreshInit
          /\ NoticeInit /\ (job = "notices" \/ signup = [c \in Signups |-> "PENDING"])

MCNext == /\ UNCHANGED job
          /\ \/ job = "schedule" /\ Next /\ UNCHANGED <<refreshVars, noticeVars>>
             \/ job = "sync" /\ RefreshNext /\ UNCHANGED <<vars, noticeVars>>
             \/ job = "notices" /\ NoticeNext /\ UNCHANGED <<vars, refreshVars>>

MCSpec == MCInit /\ [][MCNext]_<<vars, refreshVars, noticeVars, job>>

\* The requests of either job are alike, and so are the new Runs of the one and
\* the processes of the other, which are exchanged together, and the Characters
\* of the player.
Symmetry == Permutations(Requests) \cup Permutations({c1, c2})
            \cup {m1 :> m2 @@ m2 :> m1 @@ web :> script @@ script :> web}
=============================================================================
