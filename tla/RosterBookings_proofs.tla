------------------------ MODULE RosterBookings_proofs ------------------------
(***************************************************************************)
(* TLAPS proofs about RosterBookings, for any Runs, Characters, start      *)
(* times, minimum gap, requests and bounds: the rosters implement          *)
(* CharacterBookings, so no Character is booked on two Runs that start too *)
(* close; requests never wait in a circle; a started Run keeps its line-up. *)
(*                                                                         *)
(* The bookings: a request that has passed its reservation check keeps the *)
(* advisory locks of the Characters it newly books until it writes, and    *)
(* every write of another request that newly books one of them holds the   *)
(* same lock.  So what the check saw is still true at the write            *)
(* (CheckedIsFree), also when the Run was loaded with an older draft,      *)
(* because the version check makes the draft the loaded one                *)
(* (OverwritesWhatItSaw) and what is not newly booked was booked before.   *)
(***************************************************************************)
EXTENDS RosterBookings, TLAPS

-----------------------------------------------------------------------------
(* The inductive invariant. *)

Close(r, s) == start[r] - start[s] < MinGap /\ start[s] - start[r] < MinGap
Excusable(r, s, c) == r \in revised \/ s \in revised \/ <<r, c>> \in slipped \/ <<s, c>> \in slipped
\* What Bookings!FreeFor says in terms of this module's variables.
IsFree(c, r) == \A s \in Runs \ {r} :
                    status[s] \in Upcoming /\ Reserves(s, c) /\ Close(r, s) => Excusable(r, s, c)

Writing(p) == At(p, RosterOps, "locking") \/ At(p, RosterOps, "checked")

\* What a request newly books: everything it selects, or what the draft it was
\* loaded with did not have.
NeedIsNew == \A p \in Requests : req[p] # Idle =>
    /\ req[p].op \in {"saveDraft", "addPlayer"} => req[p].need = req[p].chars \ req[p].seen
    /\ req[p].op \in {"publishRoster", "updateRoster", "replaceParticipant"} => req[p].need = req[p].chars
    /\ req[p].op \in PlayerOps => req[p].pc \in {"loaded", "clearing"}

LocksHeld == \A p \in Requests :
    /\ Writing(p) => rosterLock[req[p].run] = p /\ status[req[p].run] \in Editable
    /\ At(p, Ops, "checked") => \A c \in req[p].need : charLock[c] = p

FreshSeesDraft == \A p \in Requests :
    At(p, RosterOps, "loaded") /\ req[p].fresh => draft[req[p].run] = req[p].seen

StartKnown == \A p \in Requests :
    req[p] # Idle /\ req[p].run \notin revised => req[p].at = start[req[p].run]

CheckedIsFree == \A p \in Requests, r \in Runs, c \in Characters :
    At(p, Ops, "checked") /\ req[p].run = r /\ c \in req[p].need => IsFree(c, r)

IInv == /\ TypeOK /\ NeedIsNew /\ LocksHeld /\ FreshSeesDraft /\ OverwritesWhatItSaw
        /\ StartKnown /\ CheckedIsFree

-----------------------------------------------------------------------------
(* Requests. *)

\* An idle request is not one in flight.
LEMMA IdleIsNoRow == Idle \notin ReqRows /\ Idle.pc = "idle"
<1>1. Idle.pc = "idle"
  BY DEF Idle
<1>2. \A row \in ReqRows : row.pc # "idle"
  BY DEF ReqRows
<1> QED BY <1>1, <1>2

\* A request whose step is known is in flight.
LEMMA InFlight ==
    ASSUME TypeOK, NEW p \in Requests, req[p] # Idle \/ req[p].pc # "idle"
    PROVE  req[p] \in ReqRows
  BY IdleIsNoRow DEF TypeOK

\* Outdating touches nothing but the freshness of loaded roster requests of r.
LEMMA OutdateKeeps ==
    ASSUME TypeOK, NEW r \in Runs, NEW q \in Requests
    PROVE  /\ Outdate(r, req)[q] \in ReqRows \cup {Idle}
           /\ Outdate(r, req)[q] = Idle <=> req[q] = Idle
           /\ \/ Outdate(r, req)[q] = req[q]
                 /\ ~(At(q, RosterOps, "loaded") /\ req[q].run = r)
              \/ /\ req[q] \in ReqRows
                 /\ At(q, RosterOps, "loaded") /\ req[q].run = r
                 /\ Outdate(r, req)[q] = [req[q] EXCEPT !.fresh = FALSE]
<1> USE IdleIsNoRow
<1>1. CASE At(q, RosterOps, "loaded") /\ req[q].run = r
  <2>1. req[q] \in ReqRows /\ req[q] # Idle
    BY <1>1, InFlight DEF At
  <2>2. Outdate(r, req)[q] = [req[q] EXCEPT !.fresh = FALSE]
    BY <1>1, <2>1 DEF Outdate, At
  <2>3. [req[q] EXCEPT !.fresh = FALSE] \in ReqRows
    BY <2>1 DEF ReqRows
  <2> QED BY <1>1, <2>1, <2>2, <2>3
<1>2. CASE ~(At(q, RosterOps, "loaded") /\ req[q].run = r)
  <2>1. Outdate(r, req)[q] = req[q]
    BY <1>2 DEF Outdate, At
  <2> QED BY <1>2, <2>1 DEF TypeOK
<1> QED BY <1>1, <1>2

-----------------------------------------------------------------------------
(* What stays true when nobody books c anew. *)

LEMMA FreeStays ==
    ASSUME TypeOK, NEW c \in Characters, NEW r \in Runs, IsFree(c, r),
           revised \subseteq revised', slipped \subseteq slipped',
           \A s \in Runs : start'[s] = start[s] \/ s \in revised',
           \A s \in Runs \ {r} : status'[s] \in Upcoming /\ Reserves(s, c)' =>
               \/ status[s] \in Upcoming /\ Reserves(s, c)
               \/ s \in revised' \/ <<s, c>> \in slipped'
    PROVE  IsFree(c, r)'
<1> SUFFICES ASSUME NEW s \in Runs \ {r}, status'[s] \in Upcoming, Reserves(s, c)', Close(r, s)'
             PROVE  Excusable(r, s, c)'
  BY DEF IsFree
<1>1. CASE s \in revised' \/ r \in revised' \/ <<s, c>> \in slipped'
  BY <1>1 DEF Excusable
<1>2. CASE ~(s \in revised' \/ r \in revised' \/ <<s, c>> \in slipped')
  <2>1. status[s] \in Upcoming /\ Reserves(s, c)
    BY <1>2
  <2>2. start'[s] = start[s] /\ start'[r] = start[r]
    BY <1>2
  <2>3. Close(r, s)
    BY <2>2 DEF Close
  <2>4. Excusable(r, s, c)
    BY <2>1, <2>3 DEF IsFree
  <2> QED BY <2>4 DEF Excusable
<1> QED BY <1>1, <1>2

\* A step that books nobody keeps every other part of the invariant that is
\* about a request it leaves alone.
LEMMA CheckedStays ==
    ASSUME IInv,
           \A q \in Requests : At(q, Ops, "checked")' =>
               At(q, Ops, "checked") /\ req'[q].need = req[q].need /\ req'[q].run = req[q].run,
           revised \subseteq revised', slipped \subseteq slipped',
           \A s \in Runs : start'[s] = start[s] \/ s \in revised',
           \A s \in Runs, c \in Characters : status'[s] \in Upcoming /\ Reserves(s, c)' =>
               \/ status[s] \in Upcoming /\ Reserves(s, c)
               \/ s \in revised' \/ <<s, c>> \in slipped'
    PROVE  CheckedIsFree'
<1> SUFFICES ASSUME NEW q \in Requests, NEW r \in Runs, NEW c \in Characters,
                    At(q, Ops, "checked")', req'[q].run = r, c \in req'[q].need
             PROVE  IsFree(c, r)'
  BY DEF CheckedIsFree
<1>1. At(q, Ops, "checked") /\ c \in req[q].need /\ req[q].run = r
  OBVIOUS
<1>2. IsFree(c, r)
  BY <1>1 DEF IInv, CheckedIsFree
<1> QED BY <1>2, FreeStays DEF IInv

-----------------------------------------------------------------------------
(* The initial states, and the requests as they are loaded. *)

LEMMA InitIInv == Init => IInv
<1> SUFFICES ASSUME Init PROVE IInv
  OBVIOUS
<1>1. \A q \in Requests : req[q] = Idle /\ req[q].pc = "idle"
  BY IdleIsNoRow DEF Init
<1>2. TypeOK
  BY BookingsAssumption DEF Init, TypeOK, Statuses, Editable
<1>3. NeedIsNew /\ LocksHeld /\ FreshSeesDraft /\ OverwritesWhatItSaw /\ StartKnown /\ CheckedIsFree
  BY <1>1 DEF NeedIsNew, LocksHeld, FreshSeesDraft, OverwritesWhatItSaw, StartKnown, CheckedIsFree,
              Writing, At
<1> QED BY <1>2, <1>3 DEF IInv

\* A new request only adds itself.
LEMMA NewRequestKeepsIInv ==
    ASSUME IInv, NEW p \in Requests, NEW row \in ReqRows,
           req[p] = Idle, issued < MaxRequests, issued' = issued + 1,
           req' = [req EXCEPT ![p] = row],
           UNCHANGED <<runVars, signup, draft, lockVars, slipped>>,
           row.at = start[row.run], row.seen = draft[row.run],
           row.op \in PlayerOps => row.pc = "loaded",
           row.op \in RosterOps => row.pc = "loaded",
           row.op = "replaceParticipant" => row.pc = "locking",
           row.op \in {"saveDraft", "addPlayer"} => row.need = row.chars \ row.seen,
           row.op \in {"publishRoster", "updateRoster", "replaceParticipant"} => row.need = row.chars
    PROVE  IInv'
<1> USE IdleIsNoRow
<1>0. req'[p] = row /\ row # Idle /\ row.op \in Ops
  BY DEF IInv, TypeOK, ReqRows
<1>1. \A q \in Requests \ {p} : req'[q] = req[q]
  BY DEF IInv, TypeOK
<1>2. UNCHANGED <<status, cancelledFrom, start, revised, attendance, rosterLock, charLock, signup, draft, slipped>>
  BY DEF runVars, lockVars
<1>3. TypeOK'
  <2>1. issued' \in 0 .. MaxRequests
    BY BookingsAssumption DEF IInv, TypeOK
  <2>2. req' \in [Requests -> ReqRows \cup {Idle}]
    BY DEF IInv, TypeOK
  <2> QED BY <1>2, <2>1, <2>2 DEF IInv, TypeOK
<1>4. row.pc # "checked" /\ (row.op \in RosterOps => row.pc # "locking")
  BY <1>0 DEF Ops, PlayerOps, RosterOps
<1>5. NeedIsNew'
  BY <1>0, <1>1 DEF IInv, NeedIsNew
<1>6. LocksHeld'
  BY <1>0, <1>1, <1>2, <1>4 DEF IInv, LocksHeld, Writing, At
<1>7. FreshSeesDraft' /\ StartKnown' /\ OverwritesWhatItSaw'
  BY <1>0, <1>1, <1>2, <1>4 DEF IInv, FreshSeesDraft, StartKnown, OverwritesWhatItSaw, At
<1>8. \A q \in Requests : At(q, Ops, "checked")' =>
          At(q, Ops, "checked") /\ req'[q].need = req[q].need /\ req'[q].run = req[q].run
  BY <1>0, <1>1, <1>4 DEF At
<1>9. \A s \in Runs, c \in Characters : Reserves(s, c)' = Reserves(s, c)
  BY <1>2 DEF Reserves
<1>10. CheckedIsFree'
  BY <1>2, <1>8, <1>9, CheckedStays
<1> QED BY <1>3, <1>5, <1>6, <1>7, <1>10 DEF IInv

LEMMA LoadKeepsIInv ==
    ASSUME IInv, NEW p \in Requests, NEW op \in RosterOps \cup PlayerOps, NEW r \in Runs,
           NEW chars \in SUBSET Characters, NEW leave \in SUBSET Characters,
           NEW need \in SUBSET Characters, Load(p, op, r, chars, leave, need),
           op \in {"saveDraft", "addPlayer"} => need = chars \ draft[r],
           op \in {"publishRoster", "updateRoster"} => need = chars
    PROVE  IInv'
<1> DEFINE row == [op |-> op, pc |-> "loaded", run |-> r, chars |-> chars, leave |-> leave,
                   need |-> need, seen |-> draft[r], at |-> start[r], fresh |-> TRUE]
<1>1. row \in ReqRows
  BY DEF ReqRows, IInv, TypeOK, Ops
<1>2. /\ row.op = op /\ row.pc = "loaded" /\ row.run = r /\ row.chars = chars /\ row.need = need
      /\ row.seen = draft[r] /\ row.at = start[r]
  OBVIOUS
<1>3. op # "replaceParticipant"
  BY DEF RosterOps, PlayerOps
<1> HIDE DEF row
<1>4. /\ req[p] = Idle /\ issued < MaxRequests /\ issued' = issued + 1
      /\ req' = [req EXCEPT ![p] = row]
      /\ UNCHANGED <<runVars, signup, draft, lockVars, slipped>>
  BY DEF Load, row
<1> QED BY <1>1, <1>2, <1>3, <1>4, NewRequestKeepsIInv

\* Every request is loaded that way.
LEMMA LoadStepKeepsIInv ==
    ASSUME IInv, NEW p \in Requests, LoadStep(p)
    PROVE  IInv'
<1> USE DEF RosterOps, PlayerOps
<1>1. PICK r \in Runs :
        \/ \E chars \in SUBSET Characters : LoadSaveDraft(p, r, chars) \/ LoadUpdateRoster(p, r, chars)
        \/ LoadPublishRoster(p, r)
        \/ \E c \in Characters : \/ LoadAddPlayer(p, r, c) \/ LoadOffer(p, r, c)
                                 \/ LoadWithdraw(p, r, c) \/ LoadWithdrawPicked(p, r, c)
                                 \/ \E out \in Characters : BeginReplace(p, r, out, c)
  BY DEF LoadStep
<1>a. draft[r] \in SUBSET Characters /\ SignedUp(r) \in SUBSET Characters
  BY DEF IInv, TypeOK, SignedUp
<1>2. ASSUME NEW chars \in SUBSET Characters, LoadSaveDraft(p, r, chars)
      PROVE  IInv'
  <2>1. Load(p, "saveDraft", r, chars, {}, chars \ draft[r])
    BY <1>2 DEF LoadSaveDraft
  <2> QED BY <2>1, LoadKeepsIInv
<1>3. ASSUME NEW chars \in SUBSET Characters, LoadUpdateRoster(p, r, chars)
      PROVE  IInv'
  <2>1. Load(p, "updateRoster", r, chars, SignedUp(r) \ chars, chars)
    BY <1>3 DEF LoadUpdateRoster
  <2> QED BY <1>a, <2>1, LoadKeepsIInv
<1>4. CASE LoadPublishRoster(p, r)
  <2>1. Load(p, "publishRoster", r, draft[r], SignedUp(r) \ draft[r], draft[r])
    BY <1>4 DEF LoadPublishRoster
  <2> QED BY <1>a, <2>1, LoadKeepsIInv
<1>5. ASSUME NEW c \in Characters, LoadAddPlayer(p, r, c)
      PROVE  IInv'
  <2>1. Load(p, "addPlayer", r, {c}, {d \in {c} : signup[r][d] = "NONE"}, {c} \ draft[r])
    BY <1>5 DEF LoadAddPlayer
  <2> QED BY <2>1, LoadKeepsIInv
<1>6. ASSUME NEW c \in Characters, LoadOffer(p, r, c) \/ LoadWithdraw(p, r, c) \/ LoadWithdrawPicked(p, r, c)
      PROVE  IInv'
  <2>1. \E op \in PlayerOps : Load(p, op, r, {c}, {}, {})
    BY <1>6 DEF LoadOffer, LoadWithdraw, LoadWithdrawPicked
  <2>2. PICK op \in PlayerOps : Load(p, op, r, {c}, {}, {})
    BY <2>1
  <2> QED BY <2>2, LoadKeepsIInv
<1>7. ASSUME NEW c \in Characters, NEW out \in Characters, BeginReplace(p, r, out, c)
      PROVE  IInv'
  <2> DEFINE row == [op |-> "replaceParticipant", pc |-> "locking", run |-> r, chars |-> {c},
                     leave |-> {out}, need |-> {c}, seen |-> draft[r], at |-> start[r], fresh |-> TRUE]
  <2>1. row \in ReqRows
    BY <1>a DEF ReqRows, IInv, TypeOK, Ops
  <2>2. /\ row.op = "replaceParticipant" /\ row.pc = "locking" /\ row.run = r /\ row.chars = {c}
        /\ row.need = {c} /\ row.seen = draft[r] /\ row.at = start[r]
    OBVIOUS
  <2>3. /\ req[p] = Idle /\ issued < MaxRequests /\ issued' = issued + 1
        /\ req' = [req EXCEPT ![p] = row]
        /\ UNCHANGED <<runVars, signup, draft, lockVars, slipped>>
    BY <1>7 DEF BeginReplace
  <2> HIDE DEF row
  <2> QED BY <2>1, <2>2, <2>3, NewRequestKeepsIInv
<1> QED BY <1>1, <1>2, <1>3, <1>4, <1>5, <1>6, <1>7

-----------------------------------------------------------------------------
(* Steps that end requests, or that belong to no request.                  *)

\* The fields of a request that never change.
SameRequest(q) ==
    /\ req[q] # Idle
    /\ req'[q].op = req[q].op /\ req'[q].run = req[q].run /\ req'[q].chars = req[q].chars
    /\ req'[q].need = req[q].need /\ req'[q].seen = req[q].seen /\ req'[q].at = req[q].at

LEMMA StepKeepsIInv ==
    ASSUME IInv, TypeOK', NEW done \in SUBSET Requests,
           \A q \in Requests : req'[q] # Idle => SameRequest(q),
           \A q \in Requests \ done : req'[q] # Idle =>
               req'[q].pc = req[q].pc /\ (req'[q].fresh => req[q].fresh),
           \A q \in done : req'[q] # Idle => req'[q].op \in PlayerOps /\ req'[q].pc = "clearing",
           \A q \in Requests \ done, s \in Runs : rosterLock[s] = q =>
               rosterLock'[s] = q /\ (status'[s] = status[s] \/ status'[s] \in Editable),
           \A q \in Requests \ done, c \in Characters : charLock[c] = q => charLock'[c] = q,
           \A s \in Runs : draft'[s] = draft[s] \/ \A q \in Requests \ done :
               /\ rosterLock[s] # q
               /\ At(q, RosterOps, "loaded") /\ req[q].run = s => req'[q] = Idle \/ ~req'[q].fresh,
           revised \subseteq revised', slipped \subseteq slipped',
           \A s \in Runs : start'[s] = start[s] \/ s \in revised',
           \A s \in Runs, c \in Characters : status'[s] \in Upcoming /\ Reserves(s, c)' =>
               \/ status[s] \in Upcoming /\ Reserves(s, c)
               \/ s \in revised' \/ <<s, c>> \in slipped'
               \/ \E p \in done : At(p, Ops, "checked") /\ req[p].run = s /\ c \in req[p].need
    PROVE  IInv'
<1> USE IdleIsNoRow
<1>a. \A q \in Requests : /\ req[q] # Idle => req[q] \in ReqRows /\ req[q].run \in Runs /\ req[q].need \in SUBSET Characters
                          /\ req'[q] # Idle => req'[q] \in ReqRows
  BY DEF IInv, TypeOK, ReqRows
<1>b. \A q \in Requests, ops \in SUBSET Ops, pc \in {"loaded", "locking", "checked"} :
          At(q, ops, pc)' => req'[q] # Idle
  BY DEF At
<1>c. RosterOps \in SUBSET Ops /\ RosterOps \cap PlayerOps = {} /\ Ops \in SUBSET Ops
  BY DEF Ops, RosterOps, PlayerOps
<1>d. \A q \in Requests, pc \in {"loaded", "locking", "checked"} :
          At(q, RosterOps, pc)' => q \notin done /\ At(q, RosterOps, pc)
  <2> SUFFICES ASSUME NEW q \in Requests, NEW pc \in {"loaded", "locking", "checked"}, At(q, RosterOps, pc)'
               PROVE  q \notin done /\ At(q, RosterOps, pc)
    OBVIOUS
  <2>1. req'[q] # Idle
    BY <1>b, <1>c
  <2>2. q \notin done
    BY <2>1, <1>c DEF At
  <2> QED BY <2>1, <2>2 DEF At, SameRequest
<1>e. \A q \in Requests : At(q, Ops, "checked")' => q \notin done /\ At(q, Ops, "checked")
  <2> SUFFICES ASSUME NEW q \in Requests, At(q, Ops, "checked")'
               PROVE  q \notin done /\ At(q, Ops, "checked")
    OBVIOUS
  <2>1. req'[q] # Idle
    BY <1>b, <1>c
  <2>2. q \notin done
    BY <2>1, <1>c DEF At
  <2> QED BY <2>1, <2>2 DEF At, SameRequest
<1>1. NeedIsNew'
  <2> SUFFICES ASSUME NEW q \in Requests, req'[q] # Idle
               PROVE  /\ req'[q].op \in {"saveDraft", "addPlayer"} => req'[q].need = req'[q].chars \ req'[q].seen
                      /\ req'[q].op \in {"publishRoster", "updateRoster", "replaceParticipant"} => req'[q].need = req'[q].chars
                      /\ req'[q].op \in PlayerOps => req'[q].pc \in {"loaded", "clearing"}
    BY DEF NeedIsNew
  <2>1. SameRequest(q)
    OBVIOUS
  <2>2. req'[q].op \in PlayerOps => req'[q].pc \in {"loaded", "clearing"}
    BY <2>1 DEF IInv, NeedIsNew, SameRequest
  <2> QED BY <2>1, <2>2 DEF IInv, NeedIsNew, SameRequest
<1>2. LocksHeld'
  <2>1. ASSUME NEW q \in Requests, Writing(q)'
        PROVE  rosterLock'[req'[q].run] = q /\ status'[req'[q].run] \in Editable
    <3>1. Writing(q) /\ q \notin done /\ req'[q] # Idle
      BY <2>1, <1>b, <1>c, <1>d DEF Writing
    <3>2. req'[q].run = req[q].run /\ req[q].run \in Runs
      BY <3>1, <1>a DEF SameRequest
    <3>3. rosterLock[req[q].run] = q /\ status[req[q].run] \in Editable
      BY <3>1 DEF IInv, LocksHeld
    <3> QED BY <3>1, <3>2, <3>3
  <2>2. ASSUME NEW q \in Requests, At(q, Ops, "checked")', NEW c \in req'[q].need
        PROVE  charLock'[c] = q
    <3>1. At(q, Ops, "checked") /\ q \notin done /\ req'[q] # Idle
      BY <2>2, <1>b, <1>c, <1>e
    <3>2. req'[q].need = req[q].need /\ c \in Characters
      BY <3>1, <2>2, <1>a DEF SameRequest
    <3>3. charLock[c] = q
      BY <3>1, <3>2 DEF IInv, LocksHeld
    <3> QED BY <3>1, <3>2, <3>3
  <2> QED BY <2>1, <2>2 DEF LocksHeld
<1>3. FreshSeesDraft'
  <2> SUFFICES ASSUME NEW q \in Requests, At(q, RosterOps, "loaded")', req'[q].fresh
               PROVE  draft'[req'[q].run] = req'[q].seen
    BY DEF FreshSeesDraft
  <2>1. At(q, RosterOps, "loaded") /\ q \notin done /\ req'[q] # Idle
    BY <1>b, <1>c, <1>d
  <2>2. req'[q].run = req[q].run /\ req[q].run \in Runs /\ req'[q].seen = req[q].seen
    BY <2>1, <1>a DEF SameRequest
  <2>3. draft[req[q].run] = req[q].seen
    BY <2>1 DEF IInv, FreshSeesDraft
  <2> QED BY <2>1, <2>2, <2>3
<1>4. OverwritesWhatItSaw'
  <2> SUFFICES ASSUME NEW q \in Requests, Writing(q)'
               PROVE  draft'[req'[q].run] = req'[q].seen
    BY DEF OverwritesWhatItSaw, Writing
  <2>1. Writing(q) /\ q \notin done /\ req'[q] # Idle
    BY <1>b, <1>c, <1>d DEF Writing
  <2>2. req'[q].run = req[q].run /\ req[q].run \in Runs /\ req'[q].seen = req[q].seen
    BY <2>1, <1>a DEF SameRequest
  <2>3. draft[req[q].run] = req[q].seen /\ rosterLock[req[q].run] = q
    BY <2>1 DEF IInv, OverwritesWhatItSaw, LocksHeld, Writing
  <2> QED BY <2>1, <2>2, <2>3
<1>5. StartKnown'
  <2> SUFFICES ASSUME NEW q \in Requests, req'[q] # Idle, req'[q].run \notin revised'
               PROVE  req'[q].at = start'[req'[q].run]
    BY DEF StartKnown
  <2>1. SameRequest(q) /\ req[q].run \in Runs
    BY <1>a DEF SameRequest
  <2>2. req[q].run \notin revised
    BY <2>1 DEF SameRequest
  <2> QED BY <2>1, <2>2 DEF IInv, StartKnown, SameRequest
<1>6. CheckedIsFree'
  <2> SUFFICES ASSUME NEW q \in Requests, NEW r \in Runs, NEW c \in Characters,
                      At(q, Ops, "checked")', req'[q].run = r, c \in req'[q].need
               PROVE  IsFree(c, r)'
    BY DEF CheckedIsFree
  <2>1. At(q, Ops, "checked") /\ q \notin done /\ req'[q] # Idle
    BY <1>b, <1>c, <1>e
  <2>2. c \in req[q].need /\ req[q].run = r
    BY <2>1 DEF SameRequest
  <2>3. charLock[c] = q
    BY <2>1, <2>2 DEF IInv, LocksHeld
  <2>4. \A p \in done : ~(At(p, Ops, "checked") /\ c \in req[p].need)
    BY <2>1, <2>3 DEF IInv, LocksHeld
  <2>5. IsFree(c, r)
    BY <2>1, <2>2 DEF IInv, CheckedIsFree
  <2> QED BY <2>4, <2>5, FreeStays DEF IInv
<1> QED BY <1>1, <1>2, <1>3, <1>4, <1>5, <1>6 DEF IInv

-----------------------------------------------------------------------------
(* The locks. *)

LEMMA BeginKeepsIInv ==
    ASSUME IInv, NEW p \in Requests, BeginRosterWrite(p)
    PROVE  IInv'
<1> USE IdleIsNoRow
<1>1. req[p] \in ReqRows /\ req[p].run \in Runs /\ req[p].op \in RosterOps /\ req[p].pc = "loaded"
  BY InFlight DEF IInv, BeginRosterWrite, At, ReqRows
<1>2. req' = [req EXCEPT ![p].pc = "locking"] /\ rosterLock' = [rosterLock EXCEPT ![req[p].run] = p]
  BY DEF BeginRosterWrite
<1>3. [req[p] EXCEPT !.pc = "locking"] \in ReqRows
  BY <1>1 DEF ReqRows
<1>4. /\ req'[p] \in ReqRows /\ req'[p] # Idle /\ req'[p].pc = "locking" /\ req'[p].op = req[p].op
      /\ req'[p].run = req[p].run /\ req'[p].chars = req[p].chars /\ req'[p].need = req[p].need
      /\ req'[p].seen = req[p].seen /\ req'[p].at = req[p].at
  BY <1>1, <1>2, <1>3 DEF IInv, TypeOK, ReqRows
<1>5. \A q \in Requests \ {p} : req'[q] = req[q]
  BY <1>2 DEF IInv, TypeOK
<1>6. UNCHANGED <<status, cancelledFrom, start, revised, attendance, signup, draft, charLock, slipped, issued>>
  BY DEF BeginRosterWrite, runVars
<1>7. req[p].fresh /\ status[req[p].run] \in Editable /\ rosterLock[req[p].run] = NoRequest
  BY DEF BeginRosterWrite, MayWriteRoster, RosterFree
<1>8. \A s \in Runs : rosterLock'[s] = IF s = req[p].run THEN p ELSE rosterLock[s]
  BY <1>1, <1>2 DEF IInv, TypeOK
<1>9. TypeOK'
  <2>1. req' \in [Requests -> ReqRows \cup {Idle}]
    BY <1>2, <1>3 DEF IInv, TypeOK
  <2>2. rosterLock' \in [Runs -> Requests \cup {NoRequest}]
    BY <1>1, <1>2 DEF IInv, TypeOK
  <2> QED BY <1>6, <2>1, <2>2 DEF IInv, TypeOK
<1>10. NeedIsNew'
  BY <1>1, <1>4, <1>5 DEF IInv, NeedIsNew, RosterOps, PlayerOps
<1>11. LocksHeld'
  <2>1. ASSUME NEW q \in Requests, Writing(q)'
        PROVE  rosterLock'[req'[q].run] = q /\ status'[req'[q].run] \in Editable
    <3>1. CASE q = p
      BY <1>1, <1>4, <1>6, <1>7, <1>8, <3>1
    <3>2. CASE q # p
      <4>1. Writing(q) /\ req'[q] = req[q]
        BY <1>5, <2>1, <3>2 DEF Writing, At
      <4>2. req[q] \in ReqRows /\ req[q].run \in Runs
        BY <4>1, InFlight DEF IInv, Writing, At, ReqRows
      <4>3. rosterLock[req[q].run] = q /\ status[req[q].run] \in Editable
        BY <4>1 DEF IInv, LocksHeld
      <4> QED BY <1>6, <1>7, <1>8, <4>1, <4>2, <4>3, BookingsAssumption
    <3> QED BY <3>1, <3>2
  <2>2. \A q \in Requests : At(q, Ops, "checked")' => \A c \in req'[q].need : charLock'[c] = q
    BY <1>4, <1>5, <1>6 DEF IInv, LocksHeld, At
  <2> QED BY <2>1, <2>2 DEF LocksHeld
<1>12. FreshSeesDraft'
  BY <1>4, <1>5, <1>6 DEF IInv, FreshSeesDraft, At
<1>13. OverwritesWhatItSaw'
  <2>1. draft[req[p].run] = req[p].seen
    BY <1>1, <1>7 DEF IInv, FreshSeesDraft, At
  <2> QED BY <1>4, <1>5, <1>6, <2>1 DEF IInv, OverwritesWhatItSaw, At
<1>14. StartKnown'
  BY <1>1, <1>4, <1>5, <1>6 DEF IInv, StartKnown
<1>15. CheckedIsFree'
  <2>1. \A q \in Requests : At(q, Ops, "checked")' =>
            At(q, Ops, "checked") /\ req'[q].need = req[q].need /\ req'[q].run = req[q].run
    BY <1>4, <1>5 DEF At
  <2>2. \A s \in Runs, c \in Characters : Reserves(s, c)' = Reserves(s, c)
    BY <1>6 DEF Reserves
  <2> QED BY <1>6, <2>1, <2>2, CheckedStays
<1> QED BY <1>9, <1>10, <1>11, <1>12, <1>13, <1>14, <1>15 DEF IInv

LEMMA LockKeepsIInv ==
    ASSUME IInv, NEW p \in Requests, NEW c \in Characters, LockCharacter(p, c)
    PROVE  IInv'
<1>1. charLock[c] = NoRequest /\ charLock' = [charLock EXCEPT ![c] = p]
  BY DEF LockCharacter
<1>2. UNCHANGED <<status, cancelledFrom, start, revised, attendance, signup, draft, rosterLock, slipped, req, issued>>
  BY DEF LockCharacter, runVars
<1>3. TypeOK'
  BY <1>1, <1>2 DEF IInv, TypeOK
<1>4. \A s \in Runs, d \in Characters : Reserves(s, d)' = Reserves(s, d)
  BY <1>2 DEF Reserves
<1>5. \A q \in Requests : req'[q] # Idle => SameRequest(q)
  BY <1>2 DEF SameRequest
<1>6. \A q \in Requests, d \in Characters : charLock[d] = q => charLock'[d] = q
  BY <1>1, BookingsAssumption DEF IInv, TypeOK
<1>7. /\ \A q \in Requests : req'[q].pc = req[q].pc /\ req'[q].fresh = req[q].fresh
      /\ \A s \in Runs : /\ rosterLock'[s] = rosterLock[s] /\ status'[s] = status[s]
                         /\ draft'[s] = draft[s] /\ start'[s] = start[s]
      /\ revised \subseteq revised' /\ slipped \subseteq slipped'
  BY <1>2
<1> HIDE DEF IInv
<1> QED BY <1>3, <1>4, <1>5, <1>6, <1>7, StepKeepsIInv, {} \in SUBSET Requests

LEMMA StartsAreHours == MinGap \in Int /\ \A at \in Starts : at \in Int
<1>1. Starts \subseteq Int
  BY BookingsAssumption
<1>2. MinGap \in Int
  BY BookingsAssumption
<1> QED BY <1>1, <1>2

\* The question asked under the locks, against the start the request knows.
LEMMA NoConflictIsFree ==
    ASSUME IInv, NEW p \in Requests, req[p] \in ReqRows, req[p] # Idle, NEW c \in Characters,
           ~ReservationConflict(c, req[p].run, req[p].at)
    PROVE  IsFree(c, req[p].run)
<1>1. req[p].run \in Runs
  BY DEF ReqRows
<1> SUFFICES ASSUME NEW r \in Runs, r = req[p].run, NEW s \in Runs \ {r},
                    status[s] \in Upcoming, Reserves(s, c), Close(r, s)
             PROVE  Excusable(r, s, c)
  BY <1>1 DEF IsFree
<1>2. CASE r \in revised
  BY <1>2 DEF Excusable
<1>3. CASE r \notin revised
  <2>1. req[p].at = start[r]
    BY <1>3 DEF IInv, StartKnown
  <2>2. start[r] \in Starts /\ start[s] \in Starts
    BY DEF IInv, TypeOK
  <2>3. start[r] \in Int /\ start[s] \in Int /\ MinGap \in Int
    BY <2>2, StartsAreHours
  <2>4. ScheduledStartsCollide(start[s], start[r])
    BY <2>3 DEF ScheduledStartsCollide, Close
  <2> QED BY <2>1, <2>4 DEF ReservationConflict
<1> QED BY <1>2, <1>3

LEMMA CheckKeepsIInv ==
    ASSUME IInv, NEW p \in Requests, CheckReservations(p)
    PROVE  IInv'
<1> USE IdleIsNoRow
<1>1. req[p] \in ReqRows /\ req[p] # Idle /\ req[p].run \in Runs /\ req[p].op \in Ops /\ req[p].pc = "locking"
      /\ req[p].need \in SUBSET Characters
  BY InFlight DEF IInv, CheckReservations, At, ReqRows
<1>2. req' = [req EXCEPT ![p].pc = "checked"]
  BY DEF CheckReservations
<1>3. [req[p] EXCEPT !.pc = "checked"] \in ReqRows
  BY <1>1 DEF ReqRows
<1>4. /\ req'[p] \in ReqRows /\ req'[p] # Idle /\ req'[p].pc = "checked" /\ req'[p].op = req[p].op
      /\ req'[p].run = req[p].run /\ req'[p].chars = req[p].chars /\ req'[p].need = req[p].need
      /\ req'[p].seen = req[p].seen /\ req'[p].at = req[p].at
  BY <1>1, <1>2, <1>3 DEF IInv, TypeOK, ReqRows
<1>5. \A q \in Requests \ {p} : req'[q] = req[q]
  BY <1>2 DEF IInv, TypeOK
<1>6. UNCHANGED <<status, cancelledFrom, start, revised, attendance, signup, draft, rosterLock, charLock, slipped, issued>>
  BY DEF CheckReservations, runVars, lockVars
<1>7. \A c \in req[p].need : charLock[c] = p /\ ~ReservationConflict(c, req[p].run, req[p].at)
  BY DEF CheckReservations, Reserved, Unheld
<1>8. TypeOK'
  <2>1. req' \in [Requests -> ReqRows \cup {Idle}]
    BY <1>2, <1>3 DEF IInv, TypeOK
  <2> QED BY <1>6, <2>1 DEF IInv, TypeOK
<1>9. NeedIsNew'
  <2>1. req[p].op \notin PlayerOps
    BY <1>1 DEF IInv, NeedIsNew
  <2> QED BY <1>1, <1>4, <1>5, <2>1 DEF IInv, NeedIsNew
<1>10. LocksHeld'
  <2>1. \A q \in Requests : Writing(q)' => Writing(q) /\ req'[q].run = req[q].run
    BY <1>1, <1>4, <1>5 DEF Writing, At
  <2>2. \A q \in Requests : At(q, Ops, "checked")' => \A c \in req'[q].need : charLock'[c] = q
    BY <1>4, <1>5, <1>6, <1>7 DEF IInv, LocksHeld, At
  <2> QED BY <1>6, <2>1, <2>2 DEF IInv, LocksHeld
<1>11. FreshSeesDraft'
  BY <1>4, <1>5, <1>6 DEF IInv, FreshSeesDraft, At
<1>12. OverwritesWhatItSaw'
  BY <1>1, <1>4, <1>5, <1>6 DEF IInv, OverwritesWhatItSaw, At
<1>13. StartKnown'
  BY <1>1, <1>4, <1>5, <1>6 DEF IInv, StartKnown
<1>14. CheckedIsFree'
  <2> SUFFICES ASSUME NEW q \in Requests, NEW r \in Runs, NEW c \in Characters,
                      At(q, Ops, "checked")', req'[q].run = r, c \in req'[q].need
               PROVE  IsFree(c, r)'
    BY DEF CheckedIsFree
  <2>1. CASE q = p
    <3>1. r = req[p].run /\ c \in req[p].need
      BY <1>4, <2>1
    <3>2. IsFree(c, req[p].run)
      BY <1>1, <1>7, <3>1, NoConflictIsFree
    <3>3. IsFree(c, r)
      BY <3>1, <3>2
    <3> QED BY <1>6, <3>3 DEF IsFree, Reserves, Close, Excusable
  <2>2. CASE q # p
    <3>1. IsFree(c, r)
      BY <1>5, <2>2 DEF IInv, CheckedIsFree, At
    <3> QED BY <1>6, <3>1 DEF IsFree, Reserves, Close, Excusable
  <2> QED BY <2>1, <2>2
<1> QED BY <1>8, <1>9, <1>10, <1>11, <1>12, <1>13, <1>14 DEF IInv

-----------------------------------------------------------------------------
(* The writes.  Each is one write of the rows of a Run r by a request p that *)
(* books nobody but what p has checked, what was booked, and `leftover`.     *)

RowWrite(p, r, leftover) ==
    /\ r \in Runs /\ req[p] \in ReqRows /\ req[p].run = r
    /\ status' \in [Runs -> Statuses] /\ draft' \in [Runs -> SUBSET Characters]
    /\ signup' \in [Runs -> [Characters -> SignupStatuses]]
    /\ attendance' \in [Runs -> SUBSET Characters]
    /\ \A s \in Runs \ {r} :
           signup'[s] = signup[s] /\ draft'[s] = draft[s] /\ status'[s] = status[s]
    /\ status'[r] = status[r] \/ (status[r] \in Editable /\ status'[r] \in Editable)
    /\ leftover \subseteq Characters /\ slipped' = slipped \cup ({r} \X leftover)
    /\ \A c \in leftover : Reserves(r, c)'
    /\ \A c \in Characters : Reserves(r, c)' =>
           Reserves(r, c) \/ c \in leftover \/ (At(p, Ops, "checked") /\ c \in req[p].need)
    /\ Unlock(p) \/ UNCHANGED lockVars
    /\ UNCHANGED <<cancelledFrom, start, revised, issued>>
    /\ \/ req' = [Outdate(r, req) EXCEPT ![p] = Idle] /\ rosterLock[r] \in {p, NoRequest}
       \/ req' = [req EXCEPT ![p] = Idle] /\ draft' = draft
       \/ /\ req' = [req EXCEPT ![p].pc = "clearing"] /\ draft' = draft
          /\ req[p].op \in PlayerOps

\* What a write does to the requests.
LEMMA RowWriteRequests ==
    ASSUME IInv, NEW p \in Requests, NEW r \in Runs, NEW leftover, RowWrite(p, r, leftover)
    PROVE  /\ req' \in [Requests -> ReqRows \cup {Idle}]
           /\ \A q \in Requests : req'[q] # Idle => SameRequest(q)
           /\ \A q \in Requests \ {p} : req'[q] # Idle =>
                  req'[q].pc = req[q].pc /\ (req'[q].fresh => req[q].fresh)
           /\ \A q \in Requests \ {p} : req'[q] = Idle <=> req[q] = Idle
           /\ req'[p] # Idle => req'[p].op \in PlayerOps /\ req'[p].pc = "clearing"
           /\ \/ draft' = draft
              \/ /\ rosterLock[r] \in {p, NoRequest}
                 /\ \A q \in Requests \ {p} :
                        At(q, RosterOps, "loaded") /\ req[q].run = r => req'[q] = Idle \/ ~req'[q].fresh
<1> USE IdleIsNoRow
<1>1. req[p] \in ReqRows /\ req[p] # Idle
  BY DEF RowWrite
<1>2. CASE req' = [Outdate(r, req) EXCEPT ![p] = Idle] /\ rosterLock[r] \in {p, NoRequest}
  <2>1. Outdate(r, req) \in [Requests -> ReqRows \cup {Idle}]
    <3>1. \A q \in Requests : Outdate(r, req)[q] \in ReqRows \cup {Idle}
      BY OutdateKeeps DEF IInv
    <3> QED BY <3>1 DEF Outdate
  <2>2. req'[p] = Idle /\ \A q \in Requests \ {p} : req'[q] = Outdate(r, req)[q]
    BY <1>2, <2>1
  <2>3. ASSUME NEW q \in Requests \ {p}
        PROVE  /\ req'[q] # Idle => SameRequest(q) /\ req'[q].pc = req[q].pc /\ (req'[q].fresh => req[q].fresh)
               /\ req'[q] = Idle <=> req[q] = Idle
               /\ At(q, RosterOps, "loaded") /\ req[q].run = r => ~req'[q].fresh
    <3>1. CASE req'[q] = req[q] /\ ~(At(q, RosterOps, "loaded") /\ req[q].run = r)
      BY <3>1 DEF SameRequest
    <3>2. CASE /\ req[q] \in ReqRows
               /\ At(q, RosterOps, "loaded") /\ req[q].run = r
               /\ req'[q] = [req[q] EXCEPT !.fresh = FALSE]
      BY <3>2 DEF SameRequest, ReqRows
    <3>3. req'[q] = Idle <=> req[q] = Idle
      <4>1. Outdate(r, req)[q] = Idle <=> req[q] = Idle
        BY OutdateKeeps DEF IInv
      <4>2. req'[q] = Outdate(r, req)[q]
        BY <2>2
      <4> QED BY <4>1, <4>2
    <3> QED BY <2>2, <3>1, <3>2, <3>3, OutdateKeeps DEF IInv
  <2>4. req' \in [Requests -> ReqRows \cup {Idle}]
    BY <1>2, <2>1
  <2> QED BY <1>2, <2>2, <2>3, <2>4
<1>3. CASE req' = [req EXCEPT ![p] = Idle] /\ draft' = draft
  <2>1. req'[p] = Idle /\ \A q \in Requests \ {p} : req'[q] = req[q]
    BY <1>3 DEF IInv, TypeOK
  <2>2. req' \in [Requests -> ReqRows \cup {Idle}]
    BY <1>3 DEF IInv, TypeOK
  <2> QED BY <1>3, <2>1, <2>2 DEF SameRequest
<1>4. CASE /\ req' = [req EXCEPT ![p].pc = "clearing"] /\ draft' = draft
           /\ req[p].op \in PlayerOps
  <2>1. /\ req'[p] = [req[p] EXCEPT !.pc = "clearing"]
        /\ \A q \in Requests \ {p} : req'[q] = req[q]
    BY <1>4 DEF IInv, TypeOK
  <2>2. [req[p] EXCEPT !.pc = "clearing"] \in ReqRows
    BY <1>1 DEF ReqRows
  <2>3. req' \in [Requests -> ReqRows \cup {Idle}]
    BY <1>4, <2>2 DEF IInv, TypeOK
  <2>4. SameRequest(p) /\ req'[p].op \in PlayerOps /\ req'[p].pc = "clearing"
    BY <1>1, <1>4, <2>1 DEF SameRequest, ReqRows
  <2> QED BY <1>4, <2>1, <2>3, <2>4 DEF SameRequest
<1> QED BY <1>2, <1>3, <1>4 DEF RowWrite

LEMMA RowWriteKeepsIInv ==
    ASSUME IInv, NEW p \in Requests, NEW r \in Runs, NEW leftover, RowWrite(p, r, leftover)
    PROVE  IInv'
<1>1. UNCHANGED <<cancelledFrom, start, revised, issued>>
  BY DEF RowWrite
<1>2. TypeOK'
  <2>1. rosterLock' \in [Runs -> Requests \cup {NoRequest}] /\ charLock' \in [Characters -> Requests \cup {NoRequest}]
    BY DEF RowWrite, Unlock, lockVars, IInv, TypeOK
  <2>2. slipped' \in SUBSET (Runs \X Characters)
    BY DEF RowWrite, IInv, TypeOK
  <2>3. req' \in [Requests -> ReqRows \cup {Idle}]
    BY RowWriteRequests
  <2> QED BY <1>1, <2>1, <2>2, <2>3 DEF RowWrite, IInv, TypeOK
<1>3. \A q \in Requests : req'[q] # Idle => SameRequest(q)
  BY RowWriteRequests
<1>4. \A q \in Requests \ {p} : req'[q] # Idle =>
          req'[q].pc = req[q].pc /\ (req'[q].fresh => req[q].fresh)
  BY RowWriteRequests
<1>5. \A q \in {p} : req'[q] # Idle => req'[q].op \in PlayerOps /\ req'[q].pc = "clearing"
  BY RowWriteRequests
<1>6. \A q \in Requests \ {p}, s \in Runs : rosterLock[s] = q =>
          rosterLock'[s] = q /\ (status'[s] = status[s] \/ status'[s] \in Editable)
  <2>1. \A s \in Runs : status'[s] = status[s] \/ status'[s] \in Editable
    BY DEF RowWrite
  <2>2. \A q \in Requests \ {p}, s \in Runs : rosterLock[s] = q => rosterLock'[s] = q
    BY DEF RowWrite, Unlock, lockVars
  <2> QED BY <2>1, <2>2
<1>7. \A q \in Requests \ {p}, c \in Characters : charLock[c] = q => charLock'[c] = q
  BY DEF RowWrite, Unlock, lockVars
<1>8. \A s \in Runs : draft'[s] = draft[s] \/ \A q \in Requests \ {p} :
          /\ rosterLock[s] # q
          /\ At(q, RosterOps, "loaded") /\ req[q].run = s => req'[q] = Idle \/ ~req'[q].fresh
  <2>1. \A s \in Runs \ {r} : draft'[s] = draft[s]
    BY DEF RowWrite
  <2>2. draft'[r] = draft[r] \/ \A q \in Requests \ {p} :
            /\ rosterLock[r] # q
            /\ At(q, RosterOps, "loaded") /\ req[q].run = r => req'[q] = Idle \/ ~req'[q].fresh
    BY RowWriteRequests, BookingsAssumption
  <2> QED BY <2>1, <2>2
<1>9. slipped \subseteq slipped' /\ revised \subseteq revised' /\ \A s \in Runs : start'[s] = start[s]
  BY DEF RowWrite
<1>10. \A s \in Runs, c \in Characters : status'[s] \in Upcoming /\ Reserves(s, c)' =>
          \/ status[s] \in Upcoming /\ Reserves(s, c)
          \/ s \in revised' \/ <<s, c>> \in slipped'
          \/ \E q \in {p} : At(q, Ops, "checked") /\ req[q].run = s /\ c \in req[q].need
  <2> SUFFICES ASSUME NEW s \in Runs, NEW c \in Characters, status'[s] \in Upcoming, Reserves(s, c)',
                      <<s, c>> \notin slipped',
                      ~(At(p, Ops, "checked") /\ req[p].run = s /\ c \in req[p].need)
               PROVE  status[s] \in Upcoming /\ Reserves(s, c)
    OBVIOUS
  <2>1. CASE s # r
    BY <2>1 DEF RowWrite, Reserves
  <2>2. CASE s = r
    <3>1. status[r] \in Upcoming
      BY <2>2 DEF RowWrite, Editable, Upcoming
    <3>2. c \notin leftover
      BY <2>2 DEF RowWrite
    <3>3. Reserves(r, c)'
      BY <2>2
    <3>4. Reserves(r, c)
      BY <2>2, <3>2, <3>3 DEF RowWrite
    <3> QED BY <2>2, <3>1, <3>4
  <2> QED BY <2>1, <2>2
<1> HIDE DEF IInv
<1> QED BY <1>2, <1>3, <1>4, <1>5, <1>6, <1>7, <1>8, <1>9, <1>10, StepKeepsIInv, {p} \in SUBSET Requests

\* What the transactions of one request have in common.
LEMMA CheckedWrite ==
    ASSUME IInv, NEW p \in Requests, NEW r \in Runs, At(p, RosterOps, "checked"), req[p].run = r
    PROVE  /\ req[p] \in ReqRows /\ req[p].chars \in SUBSET Characters
           /\ rosterLock[r] = p /\ status[r] \in Editable
           /\ draft[r] = req[p].seen
           /\ At(p, Ops, "checked")
           /\ req[p].op \in {"saveDraft", "addPlayer"} => req[p].need = req[p].chars \ draft[r]
           /\ req[p].op \in {"publishRoster", "updateRoster"} => req[p].need = req[p].chars
<1>1. req[p] \in ReqRows
  BY InFlight, IdleIsNoRow DEF IInv, At
<1>2. draft[r] = req[p].seen
  BY DEF IInv, OverwritesWhatItSaw
<1>3. rosterLock[r] = p /\ status[r] \in Editable
  BY DEF IInv, LocksHeld, Writing
<1>4. req[p] # Idle
  BY <1>1, IdleIsNoRow
<1>5. /\ req[p].op \in {"saveDraft", "addPlayer"} => req[p].need = req[p].chars \ draft[r]
      /\ req[p].op \in {"publishRoster", "updateRoster"} => req[p].need = req[p].chars
  BY <1>2, <1>4 DEF IInv, NeedIsNew
<1> QED BY <1>1, <1>2, <1>3, <1>5 DEF At, ReqRows, Ops

LEMMA SaveDraftWrites ==
    ASSUME IInv, NEW p \in Requests, NEW r \in Runs, req[p].run = r, SaveDraft(p)
    PROVE  RowWrite(p, r, {})
<1>0. At(p, RosterOps, "checked") /\ req[p].op = "saveDraft"
  BY DEF SaveDraft, At, RosterOps
<1>1. /\ req[p] \in ReqRows /\ rosterLock[r] = p /\ req[p].need = req[p].chars \ draft[r]
      /\ At(p, Ops, "checked") /\ req[p].chars \in SUBSET Characters
  BY <1>0, CheckedWrite
<1>3. /\ draft' = [draft EXCEPT ![r] = req[p].chars]
      /\ Unlock(p) /\ req' = [Outdate(r, req) EXCEPT ![p] = Idle]
      /\ UNCHANGED <<slipped, issued, cancelledFrom, start, revised, attendance, status, signup>>
  BY DEF SaveDraft, FinishRosterWrite
<1>4. draft' \in [Runs -> SUBSET Characters] /\ draft'[r] = req[p].chars
      /\ \A s \in Runs \ {r} : draft'[s] = draft[s]
  BY <1>1, <1>3 DEF IInv, TypeOK
<1>5. \A c \in Characters : Reserves(r, c)' => Reserves(r, c) \/ c \in req[p].need
  BY <1>1, <1>3, <1>4 DEF Reserves
<1> QED BY <1>1, <1>3, <1>4, <1>5 DEF RowWrite, IInv, TypeOK

LEMMA AddPlayerWrites ==
    ASSUME IInv, NEW p \in Requests, NEW r \in Runs, req[p].run = r, AddPlayer(p)
    PROVE  RowWrite(p, r, {})
<1>0. At(p, RosterOps, "checked") /\ req[p].op = "addPlayer"
  BY DEF AddPlayer, At, RosterOps
<1>1. /\ req[p] \in ReqRows /\ rosterLock[r] = p /\ req[p].need = req[p].chars \ draft[r]
      /\ At(p, Ops, "checked") /\ req[p].chars \in SUBSET Characters
  BY <1>0, CheckedWrite
<1>2. /\ \A c \in req[p].leave : signup[r][c] = "NONE"
      /\ draft' = [draft EXCEPT ![r] = (@ \ Withdrawn(r)) \cup req[p].chars]
      /\ signup' = [signup EXCEPT ![r] = [c \in Characters |->
                        IF c \in req[p].leave THEN "PENDING" ELSE @[c]]]
      /\ Unlock(p) /\ req' = [Outdate(r, req) EXCEPT ![p] = Idle]
      /\ UNCHANGED <<slipped, issued, cancelledFrom, start, revised, attendance, status>>
  BY DEF AddPlayer, FinishRosterWrite
<1>3. draft' \in [Runs -> SUBSET Characters] /\ draft'[r] = (draft[r] \ Withdrawn(r)) \cup req[p].chars
      /\ \A s \in Runs \ {r} : draft'[s] = draft[s]
  BY <1>1, <1>2 DEF IInv, TypeOK
<1>4. /\ \A c \in Characters : signup'[r][c] = IF c \in req[p].leave THEN "PENDING" ELSE signup[r][c]
      /\ \A s \in Runs \ {r} : signup'[s] = signup[s]
  BY <1>2 DEF IInv, TypeOK
<1>5. signup' \in [Runs -> [Characters -> SignupStatuses]]
  <2>1. [c \in Characters |-> IF c \in req[p].leave THEN "PENDING" ELSE signup[r][c]]
            \in [Characters -> SignupStatuses]
    BY DEF IInv, TypeOK, SignupStatuses
  <2> QED BY <1>2, <2>1 DEF IInv, TypeOK
<1>6. \A c \in Characters : Reserves(r, c)' => Reserves(r, c) \/ c \in req[p].need
  <2> SUFFICES ASSUME NEW c \in Characters, Reserves(r, c)'
               PROVE  Reserves(r, c) \/ c \in req[p].need
    OBVIOUS
  <2>1. signup'[r][c] # "WITHDRAWN" /\ (signup'[r][c] = "SELECTED" \/ c \in draft'[r])
    BY DEF Reserves
  <2>2. signup[r][c] # "WITHDRAWN"
    BY <1>2, <1>4, <2>1
  <2>3. CASE c \in draft[r] \/ c \in req[p].chars
    BY <1>1, <2>2, <2>3 DEF Reserves
  <2>4. CASE c \notin draft[r] /\ c \notin req[p].chars
    BY <1>2, <1>3, <1>4, <2>1, <2>4 DEF Reserves
  <2> QED BY <2>3, <2>4
<1> QED BY <1>1, <1>2, <1>3, <1>4, <1>5, <1>6 DEF RowWrite, IInv, TypeOK

\* publishSelectionsInTx writes SELECTED or NOT_SELECTED, in one Run.
LEMMA PublishedIsTyped ==
    ASSUME IInv, NEW p \in Requests, NEW r \in Runs, req[p].run = r, signup' = PublishedSignups(p)
    PROVE  /\ signup' \in [Runs -> [Characters -> SignupStatuses]]
           /\ \A s \in Runs \ {r} : signup'[s] = signup[s]
           /\ \A c \in Characters : signup'[r][c] =
                  IF c \in req[p].chars THEN "SELECTED"
                  ELSE IF c \in req[p].leave THEN "NOT_SELECTED" ELSE signup[r][c]
<1>1. [c \in Characters |-> IF c \in req[p].chars THEN "SELECTED"
                            ELSE IF c \in req[p].leave THEN "NOT_SELECTED" ELSE signup[r][c]]
          \in [Characters -> SignupStatuses]
  BY DEF IInv, TypeOK, SignupStatuses
<1>2. signup' = [signup EXCEPT ![r] =
                     [c \in Characters |-> IF c \in req[p].chars THEN "SELECTED"
                                           ELSE IF c \in req[p].leave THEN "NOT_SELECTED" ELSE signup[r][c]]]
  BY DEF PublishedSignups, IInv, TypeOK
<1> QED BY <1>1, <1>2 DEF IInv, TypeOK

LEMMA PublishWrites ==
    ASSUME IInv, NEW p \in Requests, NEW r \in Runs, req[p].run = r, PublishRoster(p)
    PROVE  RowWrite(p, r, {})
<1>0. At(p, RosterOps, "checked") /\ req[p].op \in {"publishRoster", "updateRoster"}
  BY DEF PublishRoster, At, RosterOps
<1>1. /\ req[p] \in ReqRows /\ rosterLock[r] = p /\ req[p].need = req[p].chars
      /\ At(p, Ops, "checked") /\ req[p].chars \in SUBSET Characters /\ status[r] \in Editable
  BY <1>0, CheckedWrite
<1>2. /\ signup' = PublishedSignups(p)
      /\ status' = [status EXCEPT ![r] = "PUBLISHED"]
      /\ draft' = [draft EXCEPT ![r] = req[p].chars]
      /\ Unlock(p) /\ req' = [Outdate(r, req) EXCEPT ![p] = Idle]
      /\ UNCHANGED <<slipped, issued, cancelledFrom, start, revised, attendance>>
  BY DEF PublishRoster, FinishRosterWrite
<1>3. draft' \in [Runs -> SUBSET Characters] /\ draft'[r] = req[p].chars
      /\ \A s \in Runs \ {r} : draft'[s] = draft[s]
  BY <1>1, <1>2 DEF IInv, TypeOK
<1>4. status' \in [Runs -> Statuses] /\ status'[r] = "PUBLISHED"
      /\ \A s \in Runs \ {r} : status'[s] = status[s]
  BY <1>2 DEF IInv, TypeOK, Statuses
<1>5. status'[r] \in Editable
  BY <1>4 DEF Editable
<1>6. \A c \in Characters : Reserves(r, c)' => Reserves(r, c) \/ c \in req[p].need
  BY <1>1, <1>2, <1>3, PublishedIsTyped DEF Reserves
<1> QED BY <1>1, <1>2, <1>3, <1>4, <1>5, <1>6, PublishedIsTyped DEF RowWrite, IInv, TypeOK

LEMMA ReplaceWrites ==
    ASSUME IInv, NEW p \in Requests, NEW r \in Runs, req[p].run = r, ReplaceParticipant(p)
    PROVE  \E leftover \in SUBSET Characters : RowWrite(p, r, leftover)
<1> DEFINE leftover == req[p].leave \cap draft[r] \cap Withdrawn(r)
<1>0. At(p, Ops, "checked") /\ req[p].op = "replaceParticipant"
  BY DEF ReplaceParticipant, At, Ops
<1>1. /\ req[p] \in ReqRows /\ req[p] # Idle
      /\ req[p].chars \in SUBSET Characters /\ req[p].leave \in SUBSET Characters
  BY <1>0, InFlight, IdleIsNoRow DEF IInv, At, ReqRows
<1>2. req[p].need = req[p].chars
  BY <1>0, <1>1 DEF IInv, NeedIsNew
<1>3. /\ signup' = PublishedSignups(p)
      /\ draft' = [draft EXCEPT ![r] = @ \cup req[p].chars]
      /\ attendance' = [attendance EXCEPT ![r] = @ \cup req[p].chars]
      /\ slipped' = slipped \cup ({r} \X leftover)
      /\ Unlock(p) /\ req' = [Outdate(r, req) EXCEPT ![p] = Idle]
      /\ rosterLock[r] = NoRequest
      /\ UNCHANGED <<status, cancelledFrom, start, revised, issued>>
  BY DEF ReplaceParticipant, RosterFree
<1>4. leftover \in SUBSET Characters
  BY <1>1
<1>5. draft' \in [Runs -> SUBSET Characters] /\ draft'[r] = draft[r] \cup req[p].chars
      /\ \A s \in Runs \ {r} : draft'[s] = draft[s]
  BY <1>1, <1>3 DEF IInv, TypeOK
<1>6. attendance' \in [Runs -> SUBSET Characters]
  BY <1>1, <1>3 DEF IInv, TypeOK
<1>7. \A c \in Characters : Reserves(r, c)' => Reserves(r, c) \/ c \in leftover \/ c \in req[p].need
  <2> SUFFICES ASSUME NEW c \in Characters, Reserves(r, c)', c \notin req[p].chars, c \notin leftover
               PROVE  Reserves(r, c)
    BY <1>2
  <2>1. signup'[r][c] # "WITHDRAWN" /\ (signup'[r][c] = "SELECTED" \/ c \in draft[r])
    BY <1>5 DEF Reserves
  <2>2. CASE c \in req[p].leave
    BY <1>3, <2>1, <2>2, PublishedIsTyped DEF Reserves, Withdrawn
  <2>3. CASE c \notin req[p].leave
    BY <1>3, <2>1, <2>3, PublishedIsTyped DEF Reserves
  <2> QED BY <2>2, <2>3
<1>8. \A c \in leftover : Reserves(r, c)'
  BY <1>3, <1>4, <1>5, PublishedIsTyped DEF Reserves
<1> HIDE DEF leftover
<1>9. RowWrite(p, r, leftover)
  BY <1>0, <1>1, <1>3, <1>4, <1>5, <1>6, <1>7, <1>8, PublishedIsTyped DEF RowWrite, IInv, TypeOK
<1> QED BY <1>4, <1>9

\* A write that only gives some signups of r another status.
LEMMA SignupsOfOneRun ==
    ASSUME IInv, NEW r \in Runs, NEW chars \in SUBSET Characters, NEW new \in SignupStatuses,
           signup' = [signup EXCEPT ![r] = [c \in Characters |-> IF c \in chars THEN new ELSE @[c]]]
    PROVE  /\ signup' \in [Runs -> [Characters -> SignupStatuses]]
           /\ \A s \in Runs \ {r} : signup'[s] = signup[s]
           /\ \A c \in Characters : signup'[r][c] = IF c \in chars THEN new ELSE signup[r][c]
<1>1. [c \in Characters |-> IF c \in chars THEN new ELSE signup[r][c]] \in [Characters -> SignupStatuses]
  BY DEF IInv, TypeOK
<1> QED BY <1>1 DEF IInv, TypeOK

LEMMA ApplyOfferWrites ==
    ASSUME IInv, NEW p \in Requests, NEW r \in Runs, req[p].run = r, ApplyOffer(p)
    PROVE  \E leftover \in SUBSET Characters : RowWrite(p, r, leftover)
<1> DEFINE leftover == req[p].chars \cap draft[r]
<1>1. req[p] \in ReqRows /\ req[p].chars \in SUBSET Characters
  BY InFlight, IdleIsNoRow DEF IInv, ApplyOffer, At, ReqRows
<1>2. /\ signup' = [signup EXCEPT ![r] = [c \in Characters |->
                        IF c \in req[p].chars THEN "PENDING" ELSE @[c]]]
      /\ slipped' = slipped \cup ({r} \X leftover)
      /\ req' = [req EXCEPT ![p] = Idle]
      /\ UNCHANGED <<status, cancelledFrom, start, revised, attendance, draft, lockVars, issued>>
  BY DEF ApplyOffer, runVars
<1>3. "PENDING" \in SignupStatuses
  BY DEF SignupStatuses
<1>4. /\ signup' \in [Runs -> [Characters -> SignupStatuses]]
      /\ \A s \in Runs \ {r} : signup'[s] = signup[s]
      /\ \A c \in Characters : signup'[r][c] = IF c \in req[p].chars THEN "PENDING" ELSE signup[r][c]
  BY <1>1, <1>2, <1>3, SignupsOfOneRun
<1>5. \A c \in Characters : Reserves(r, c)' => Reserves(r, c) \/ c \in leftover
  BY <1>2, <1>4 DEF Reserves
<1>6. leftover \in SUBSET Characters /\ \A c \in leftover : Reserves(r, c)'
  BY <1>1, <1>2, <1>4 DEF Reserves
<1> HIDE DEF leftover
<1>7. RowWrite(p, r, leftover)
  BY <1>1, <1>2, <1>4, <1>5, <1>6 DEF RowWrite, IInv, TypeOK
<1> QED BY <1>6, <1>7

LEMMA WithdrawOfferWrites ==
    ASSUME IInv, NEW p \in Requests, NEW r \in Runs, req[p].run = r, WithdrawOffer(p)
    PROVE  RowWrite(p, r, {})
<1>1. req[p] \in ReqRows /\ req[p].chars \in SUBSET Characters /\ req[p].op \in PlayerOps
  BY InFlight, IdleIsNoRow DEF IInv, WithdrawOffer, At, ReqRows, PlayerOps
<1>2. /\ signup' = [signup EXCEPT ![r] = [c \in Characters |->
                        IF c \in req[p].chars THEN "WITHDRAWN" ELSE @[c]]]
      /\ req' = [req EXCEPT ![p].pc = "clearing"]
      /\ UNCHANGED <<status, cancelledFrom, start, revised, attendance, draft, lockVars, slipped, issued>>
  BY DEF WithdrawOffer, runVars
<1>3. "WITHDRAWN" \in SignupStatuses
  BY DEF SignupStatuses
<1>4. /\ signup' \in [Runs -> [Characters -> SignupStatuses]]
      /\ \A s \in Runs \ {r} : signup'[s] = signup[s]
      /\ \A c \in Characters : signup'[r][c] = IF c \in req[p].chars THEN "WITHDRAWN" ELSE signup[r][c]
  BY <1>1, <1>2, <1>3, SignupsOfOneRun
<1>5. \A c \in Characters : Reserves(r, c)' => Reserves(r, c)
  BY <1>2, <1>4 DEF Reserves
<1> QED BY <1>1, <1>2, <1>4, <1>5 DEF RowWrite, IInv, TypeOK

LEMMA WithdrawPickedWrites ==
    ASSUME IInv, NEW p \in Requests, NEW r \in Runs, req[p].run = r, WithdrawPicked(p)
    PROVE  RowWrite(p, r, {})
<1>1. req[p] \in ReqRows /\ req[p].chars \in SUBSET Characters
  BY InFlight, IdleIsNoRow DEF IInv, WithdrawPicked, At, ReqRows
<1>2. /\ rosterLock[r] = NoRequest
      /\ signup' = [signup EXCEPT ![r] = [c \in Characters |->
                        IF c \in req[p].chars THEN "WITHDRAWN" ELSE @[c]]]
      /\ draft' = [draft EXCEPT ![r] = @ \ req[p].chars]
      /\ req' = [Outdate(r, req) EXCEPT ![p] = Idle]
      /\ UNCHANGED <<status, cancelledFrom, start, revised, attendance, lockVars, slipped, issued>>
  BY DEF WithdrawPicked, RosterFree, runVars
<1>3. "WITHDRAWN" \in SignupStatuses
  BY DEF SignupStatuses
<1>4. /\ signup' \in [Runs -> [Characters -> SignupStatuses]]
      /\ \A s \in Runs \ {r} : signup'[s] = signup[s]
      /\ \A c \in Characters : signup'[r][c] = IF c \in req[p].chars THEN "WITHDRAWN" ELSE signup[r][c]
  BY <1>1, <1>2, <1>3, SignupsOfOneRun
<1>5. draft' \in [Runs -> SUBSET Characters] /\ draft'[r] = draft[r] \ req[p].chars
      /\ \A s \in Runs \ {r} : draft'[s] = draft[s]
  BY <1>2 DEF IInv, TypeOK
<1>6. \A c \in Characters : Reserves(r, c)' => Reserves(r, c)
  BY <1>4, <1>5 DEF Reserves
<1> QED BY <1>1, <1>2, <1>4, <1>5, <1>6 DEF RowWrite, IInv, TypeOK

LEMMA ClearDraftWrites ==
    ASSUME IInv, NEW p \in Requests, NEW r \in Runs, req[p].run = r,
           ClearDraftSelection(p) \/ ClearNothing(p)
    PROVE  RowWrite(p, r, {})
<1>1. req[p] \in ReqRows
  BY InFlight, IdleIsNoRow DEF IInv, ClearDraftSelection, ClearNothing, At
<1>2. CASE ClearDraftSelection(p)
  <2>1. /\ rosterLock[r] = NoRequest
        /\ draft' = [draft EXCEPT ![r] = @ \ req[p].chars]
        /\ req' = [Outdate(r, req) EXCEPT ![p] = Idle]
        /\ UNCHANGED <<status, cancelledFrom, start, revised, attendance, signup, lockVars, slipped, issued>>
    BY <1>2 DEF ClearDraftSelection, RosterFree, runVars
  <2>2. draft' \in [Runs -> SUBSET Characters] /\ draft'[r] = draft[r] \ req[p].chars
        /\ \A s \in Runs \ {r} : draft'[s] = draft[s]
    BY <2>1 DEF IInv, TypeOK
  <2>3. \A c \in Characters : Reserves(r, c)' => Reserves(r, c)
    BY <2>1, <2>2 DEF Reserves
  <2> QED BY <1>1, <2>1, <2>2, <2>3 DEF RowWrite, IInv, TypeOK
<1>3. CASE ClearNothing(p)
  <2>1. /\ req' = [req EXCEPT ![p] = Idle]
        /\ UNCHANGED <<status, cancelledFrom, start, revised, attendance, signup, draft, lockVars, slipped, issued>>
    BY <1>3 DEF ClearNothing, runVars
  <2>2. \A c \in Characters : Reserves(r, c)' => Reserves(r, c)
    BY <2>1 DEF Reserves
  <2> QED BY <1>1, <2>1, <2>2 DEF RowWrite, IInv, TypeOK
<1> QED BY <1>2, <1>3

LEMMA FailWrites ==
    ASSUME IInv, NEW p \in Requests, NEW r \in Runs, req[p].run = r, Fail(p)
    PROVE  RowWrite(p, r, {})
<1>1. req[p] \in ReqRows
  BY InFlight, IdleIsNoRow DEF IInv, Fail
<1>2. /\ Unlock(p) /\ req' = [req EXCEPT ![p] = Idle]
      /\ UNCHANGED <<status, cancelledFrom, start, revised, attendance, signup, draft, slipped, issued>>
  BY DEF Fail, runVars
<1>3. \A c \in Characters : Reserves(r, c)' => Reserves(r, c)
  BY <1>2 DEF Reserves
<1> QED BY <1>1, <1>2, <1>3 DEF RowWrite, IInv, TypeOK

\* Every write of a request, and every request that ends, is a RowWrite.
LEMMA WriteStepIsRowWrite ==
    ASSUME IInv, NEW p \in Requests, WriteStep(p) \/ Fail(p)
    PROVE  \E r \in Runs, leftover \in SUBSET Characters : RowWrite(p, r, leftover)
<1>1. req[p] \in ReqRows
  BY InFlight, IdleIsNoRow DEF IInv, WriteStep, Fail, SaveDraft, AddPlayer, PublishRoster, ReplaceParticipant,
     ApplyOffer, WithdrawOffer, ClearNothing, ClearDraftSelection, WithdrawPicked, At
<1>2. PICK r \in Runs : req[p].run = r
  BY <1>1 DEF ReqRows
<1>3. \E leftover \in SUBSET Characters : RowWrite(p, r, leftover)
  BY <1>2, SaveDraftWrites, AddPlayerWrites, PublishWrites, ReplaceWrites, ApplyOfferWrites,
     WithdrawOfferWrites, WithdrawPickedWrites, ClearDraftWrites, FailWrites, {} \in SUBSET Characters
     DEF WriteStep
<1> QED BY <1>3

-----------------------------------------------------------------------------
(* The steps of the Run. *)

LEMMA RunStepKeepsIInv ==
    ASSUME IInv, NEW r \in Runs, RunStep(r)
    PROVE  IInv'
<1>1. rosterLock[r] = NoRequest
  BY DEF RunStep, StartRun, CompleteRun, CancelRun, ReactivateRun, RescheduleRun, RosterFree
<1>2. UNCHANGED <<signup, draft, rosterLock, charLock, slipped, req, issued>>
  BY DEF RunStep, StartRun, CompleteRun, CancelRun, ReactivateRun, RescheduleRun, lockVars
<1>3. /\ revised \subseteq revised' /\ revised' \subseteq Runs
      /\ \A s \in Runs : start'[s] = start[s] \/ s \in revised'
      /\ \A s \in Runs \ {r} : status'[s] = status[s]
      /\ status'[r] \in Upcoming => status[r] \in Upcoming \/ r \in revised'
  BY DEF RunStep, StartRun, CompleteRun, CancelRun, ReactivateRun, RescheduleRun, IInv, TypeOK, Upcoming
<1>a. status' \in [Runs -> Statuses]
  BY DEF RunStep, StartRun, CompleteRun, CancelRun, ReactivateRun, RescheduleRun, IInv, TypeOK,
         Statuses, Editable
<1>b. cancelledFrom' \in [Runs -> Editable]
  <2>1. CASE CancelRun(r)
    BY <2>1 DEF CancelRun, MayCancel, IInv, TypeOK
  <2>2. CASE ~CancelRun(r)
    BY <2>2 DEF RunStep, StartRun, CompleteRun, ReactivateRun, RescheduleRun, IInv, TypeOK
  <2> QED BY <2>1, <2>2
<1>4. start' \in [Runs -> Starts] /\ attendance' \in [Runs -> SUBSET Characters]
  BY DEF RunStep, StartRun, CompleteRun, CancelRun, ReactivateRun, RescheduleRun, IInv, TypeOK, Lineup
<1>5. TypeOK'
  BY <1>2, <1>3, <1>4, <1>a, <1>b DEF IInv, TypeOK
<1>6. \A q \in Requests : req'[q] # Idle =>
          SameRequest(q) /\ req'[q].pc = req[q].pc /\ req'[q].fresh = req[q].fresh
  BY <1>2 DEF SameRequest
<1>7. \A s \in Runs, c \in Characters : Reserves(s, c)' = Reserves(s, c)
  BY <1>2 DEF Reserves
<1>8. \A q \in Requests, s \in Runs : rosterLock[s] = q => rosterLock'[s] = q /\ status'[s] = status[s]
  BY <1>1, <1>2, <1>3, BookingsAssumption
<1>9. \A s \in Runs, c \in Characters : status'[s] \in Upcoming /\ Reserves(s, c)' =>
          \/ status[s] \in Upcoming /\ Reserves(s, c)
          \/ s \in revised'
  BY <1>3, <1>7
<1>10. \A q \in Requests, c \in Characters : charLock[c] = q => charLock'[c] = q
  BY <1>2
<1>11. (\A s \in Runs : draft'[s] = draft[s]) /\ slipped \subseteq slipped'
  BY <1>2
<1>12. \A q \in Requests : req'[q] # Idle => SameRequest(q)
  BY <1>6
<1>13. \A q \in Requests : req'[q] # Idle => req'[q].pc = req[q].pc /\ (req'[q].fresh => req[q].fresh)
  BY <1>6
<1>14. revised \subseteq revised'
  BY <1>3
<1>15. \A s \in Runs : start'[s] = start[s] \/ s \in revised'
  BY <1>3
<1>16. PICK done \in SUBSET Requests : \A q \in Requests : q \notin done
  <2>1. {} \in SUBSET Requests /\ \A q \in Requests : q \notin {}
    OBVIOUS
  <2> QED BY <2>1
<1>17. \A q \in done : req'[q] # Idle => req'[q].op \in PlayerOps /\ req'[q].pc = "clearing"
  BY <1>16
<1>18. \A s \in Runs, c \in Characters : status'[s] \in Upcoming /\ Reserves(s, c)' =>
           \/ status[s] \in Upcoming /\ Reserves(s, c)
           \/ s \in revised' \/ <<s, c>> \in slipped'
           \/ \E p \in done : At(p, Ops, "checked") /\ req[p].run = s /\ c \in req[p].need
  BY <1>9
<1> HIDE DEF IInv
<1> QED BY <1>5, <1>8, <1>10, <1>11, <1>12, <1>13, <1>14, <1>15, <1>17, <1>18, StepKeepsIInv

LEMMA NextKeepsIInv ==
    ASSUME IInv, [Next]_vars
    PROVE  IInv'
<1>1. ASSUME NEW p \in Requests, LoadStep(p)
      PROVE  IInv'
  BY <1>1, LoadStepKeepsIInv
<1>2. ASSUME NEW p \in Requests, LockStep(p)
      PROVE  IInv'
  BY <1>2, BeginKeepsIInv, LockKeepsIInv, CheckKeepsIInv DEF LockStep
<1>3. ASSUME NEW p \in Requests, WriteStep(p) \/ Fail(p)
      PROVE  IInv'
  BY <1>3, WriteStepIsRowWrite, RowWriteKeepsIInv
<1>4. ASSUME NEW r \in Runs, RunStep(r)
      PROVE  IInv'
  BY <1>4, RunStepKeepsIInv
<1>5. CASE UNCHANGED vars
  BY <1>5 DEF vars, runVars, lockVars, IInv, TypeOK, NeedIsNew, LocksHeld, FreshSeesDraft, OverwritesWhatItSaw,
              StartKnown, CheckedIsFree, IsFree, Reserves, Close, Excusable, Writing, At
<1> QED BY <1>1, <1>2, <1>3, <1>4, <1>5 DEF Next

THEOREM IInvHolds == Spec => []IInv
BY InitIInv, NextKeepsIInv, PTL DEF Spec

\* Every variable keeps its type.
THEOREM TypeCorrect == Spec => []TypeOK
<1>1. IInv => TypeOK
  BY DEF IInv
<1> QED BY <1>1, IInvHolds, PTL

\* A roster write replaces exactly the draft its Raid Lead saw.
THEOREM WritesOverTheDraftItSaw == Spec => []OverwritesWhatItSaw
<1>1. IInv => OverwritesWhatItSaw
  BY DEF IInv
<1> QED BY <1>1, IInvHolds, PTL

-----------------------------------------------------------------------------
(* No double booking.                                                       *)

\* c is not double booked on r and s.
Apart(c, r, s) ==
    status[r] \in Upcoming /\ status[s] \in Upcoming /\ Reserves(r, c) /\ Reserves(s, c) /\ Close(r, s)
        => Excusable(r, s, c)

AllApart == \A c \in Characters, r, s \in Runs : r # s => Apart(c, r, s)

LEMMA ApartIsBookings == TypeOK => (AllApart <=> NoDoubleBooking)
BY DEF AllApart, Apart, NoDoubleBooking, Bookings!NoDoubleBooking, Bookings!TooClose, Bookings!Excused,
       Close, Excusable

LEMMA InitAllApart == Init => AllApart
<1> SUFFICES ASSUME Init, NEW c \in Characters, NEW r \in Runs, NEW s \in Runs, r # s
             PROVE  Apart(c, r, s)
  BY DEF AllApart
<1>1. Reserves(r, c) => ~ReservationConflict(c, r, start[r])
  BY DEF Init
<1>2. start[r] \in Starts /\ start[s] \in Starts
  BY DEF Init
<1>3. start[r] \in Int /\ start[s] \in Int /\ MinGap \in Int
  BY <1>2, StartsAreHours
<1>4. Close(r, s) => ScheduledStartsCollide(start[s], start[r])
  BY <1>3 DEF ScheduledStartsCollide, Close
<1> QED BY <1>1, <1>4 DEF Apart, ReservationConflict

LEMMA RowWriteKeepsApart ==
    ASSUME IInv, AllApart, NEW p \in Requests, NEW r \in Runs, NEW leftover, RowWrite(p, r, leftover)
    PROVE  AllApart'
<1>1. UNCHANGED <<start, revised>> /\ slipped \subseteq slipped'
  BY DEF RowWrite
<1>2. \A s \in Runs : status'[s] \in Upcoming => status[s] \in Upcoming
  BY DEF RowWrite, Editable, Upcoming
<1>3. \A s \in Runs \ {r}, c \in Characters : Reserves(s, c)' = Reserves(s, c)
  BY DEF RowWrite, Reserves
<1>4. ASSUME NEW c \in Characters, NEW s \in Runs \ {r}
      PROVE  Apart(c, r, s)'
  <2> SUFFICES ASSUME status'[r] \in Upcoming, status'[s] \in Upcoming, Reserves(r, c)', Reserves(s, c)',
                      Close(r, s)'
               PROVE  Excusable(r, s, c)'
    BY DEF Apart
  <2>1. Close(r, s) /\ status[r] \in Upcoming /\ status[s] \in Upcoming /\ Reserves(s, c)
    BY <1>1, <1>2, <1>3 DEF Close
  <2>2. CASE Reserves(r, c)
    <3>1. Excusable(r, s, c)
      BY <2>1, <2>2 DEF AllApart, Apart
    <3> QED BY <1>1, <3>1 DEF Excusable
  <2>3. CASE c \in leftover
    BY <2>3 DEF RowWrite, Excusable
  <2>4. CASE At(p, Ops, "checked") /\ c \in req[p].need
    <3>1. IsFree(c, r)
      BY <2>4 DEF IInv, CheckedIsFree, RowWrite
    <3>2. Excusable(r, s, c)
      BY <2>1, <3>1 DEF IsFree
    <3> QED BY <1>1, <3>2 DEF Excusable
  <2> QED BY <2>2, <2>3, <2>4 DEF RowWrite
<1>5. ASSUME NEW c \in Characters, NEW s \in Runs, NEW t \in Runs, s # t
      PROVE  Apart(c, s, t)'
  <2>1. CASE s = r
    BY <1>4, <1>5, <2>1
  <2>2. CASE t = r
    <3>1. Apart(c, t, s)'
      BY <1>4, <1>5, <2>2
    <3> QED BY <3>1 DEF Apart, Close, Excusable
  <2>3. CASE s # r /\ t # r
    <3>1. Apart(c, s, t)
      BY <1>5 DEF AllApart
    <3> QED BY <1>1, <1>2, <1>3, <2>3, <3>1 DEF Apart, Close, Excusable
  <2> QED BY <2>1, <2>2, <2>3
<1> QED BY <1>5 DEF AllApart

\* Requests that are loaded, or wait for locks, write nothing.
LEMMA NothingWritten ==
    ASSUME NEW p \in Requests, LoadStep(p) \/ LockStep(p)
    PROVE  UNCHANGED <<status, start, revised, signup, draft, slipped>>
<1>1. CASE LoadStep(p)
  BY <1>1 DEF LoadStep, LoadSaveDraft, LoadUpdateRoster, LoadPublishRoster, LoadAddPlayer, LoadOffer,
              LoadWithdraw, LoadWithdrawPicked, BeginReplace, Load, runVars
<1>2. CASE LockStep(p)
  BY <1>2 DEF LockStep, BeginRosterWrite, CheckReservations, LockCharacter, runVars
<1> QED BY <1>1, <1>2

LEMMA NextKeepsApart ==
    ASSUME IInv, AllApart, [Next]_vars
    PROVE  AllApart'
<1>1. ASSUME NEW p \in Requests, LoadStep(p) \/ LockStep(p)
      PROVE  UNCHANGED <<status, start, revised, signup, draft, slipped>>
  BY <1>1, NothingWritten
<1>2. ASSUME UNCHANGED <<status, start, revised, signup, draft, slipped>>
      PROVE  AllApart'
  BY <1>2 DEF AllApart, Apart, Reserves, Close, Excusable
<1>3. ASSUME NEW p \in Requests, WriteStep(p) \/ Fail(p)
      PROVE  AllApart'
  BY <1>3, WriteStepIsRowWrite, RowWriteKeepsApart
<1>4. ASSUME NEW r \in Runs, RunStep(r)
      PROVE  AllApart'
  <2>1. UNCHANGED <<signup, draft, slipped>>
    BY <1>4 DEF RunStep, StartRun, CompleteRun, CancelRun, ReactivateRun, RescheduleRun
  <2>2. \A s \in Runs : s \in revised' \/ (start'[s] = start[s] /\ (status'[s] \in Upcoming => status[s] \in Upcoming))
    BY <1>4 DEF RunStep, StartRun, CompleteRun, CancelRun, ReactivateRun, RescheduleRun, IInv, TypeOK, Upcoming
  <2>3. revised \subseteq revised'
    BY <1>4 DEF RunStep, StartRun, CompleteRun, CancelRun, ReactivateRun, RescheduleRun
  <2>4. ASSUME NEW c \in Characters, NEW s \in Runs, NEW t \in Runs, s # t
        PROVE  Apart(c, s, t)'
    <3>1. CASE s \in revised' \/ t \in revised'
      BY <3>1 DEF Apart, Excusable
    <3>2. CASE s \notin revised' /\ t \notin revised'
      <4>1. Apart(c, s, t)
        BY <2>4 DEF AllApart
      <4>2. start'[s] = start[s] /\ start'[t] = start[t]
            /\ (status'[s] \in Upcoming => status[s] \in Upcoming)
            /\ (status'[t] \in Upcoming => status[t] \in Upcoming)
        BY <2>2, <3>2
      <4> QED BY <2>1, <2>3, <4>1, <4>2 DEF Apart, Reserves, Close, Excusable
    <3> QED BY <3>1, <3>2
  <2> QED BY <2>4 DEF AllApart
<1>5. CASE UNCHANGED vars
  BY <1>2, <1>5 DEF vars, runVars
<1> QED BY <1>1, <1>2, <1>3, <1>4, <1>5 DEF Next

\* No Character is booked on two Runs that start too close together.
THEOREM NobodyIsDoubleBooked == Spec => []NoDoubleBooking
<1>1. Init => IInv /\ AllApart
  BY InitIInv, InitAllApart
<1>2. IInv /\ AllApart /\ [Next]_vars => IInv' /\ AllApart'
  BY NextKeepsIInv, NextKeepsApart
<1>3. IInv /\ AllApart => NoDoubleBooking
  BY ApartIsBookings DEF IInv
<1> QED BY <1>1, <1>2, <1>3, PTL DEF Spec

-----------------------------------------------------------------------------
(* The rosters implement CharacterBookings.                                 *)

LEMMA FreeIsFreeFor ==
    ASSUME NEW c \in Characters, NEW r \in Runs, IsFree(c, r)
    PROVE  Bookings!FreeFor(c, r)
BY DEF IsFree, Bookings!FreeFor, Bookings!TooClose, Bookings!Excused, Close, Excusable

LEMMA RowWriteRebooks ==
    ASSUME IInv, NEW p \in Requests, NEW r \in Runs, NEW leftover, RowWrite(p, r, leftover)
    PROVE  Bookings!Next
<1>1. PICK lineup \in SUBSET Characters : \A c \in Characters : c \in lineup <=> Reserves(r, c)'
  <2>1. {c \in Characters : Reserves(r, c)'} \in SUBSET Characters
    OBVIOUS
  <2> QED BY <2>1
<1>2. leftover \in SUBSET lineup
  BY <1>1 DEF RowWrite
<1>3. \A s \in Runs : status'[s] \in Upcoming <=> status[s] \in Upcoming
  BY DEF RowWrite, Editable, Upcoming
<1>4. \A s \in Runs \ {r}, c \in Characters : Reserves(s, c)' = Reserves(s, c)
  BY DEF RowWrite, Reserves
<1>5. \A c \in lineup \ leftover : Reserves(r, c) \/ Bookings!FreeFor(c, r)
  <2> SUFFICES ASSUME NEW c \in lineup \ leftover, ~Reserves(r, c)
               PROVE  Bookings!FreeFor(c, r)
    OBVIOUS
  <2>1. At(p, Ops, "checked") /\ c \in req[p].need
    BY <1>1 DEF RowWrite
  <2>2. IsFree(c, r)
    BY <2>1 DEF IInv, CheckedIsFree, RowWrite
  <2> QED BY <2>2, FreeIsFreeFor
<1>6. [c \in Characters |-> {s \in Runs : Reserves(s, c)}]'
          = [c \in Characters |-> IF c \in lineup THEN {s \in Runs : Reserves(s, c)} \cup {r}
                                                  ELSE {s \in Runs : Reserves(s, c)} \ {r}]
  <2>1. ASSUME NEW c \in Characters
        PROVE  {s \in Runs : Reserves(s, c)'} =
                   IF c \in lineup THEN {s \in Runs : Reserves(s, c)} \cup {r}
                                   ELSE {s \in Runs : Reserves(s, c)} \ {r}
    BY <1>1, <1>4
  <2> QED BY <2>1
<1>7. {s \in Runs : status[s] \in Upcoming}' = {s \in Runs : status[s] \in Upcoming}
  BY <1>3
<1>8. slipped' = slipped \cup ({r} \X leftover) /\ UNCHANGED <<start, revised>>
  BY DEF RowWrite
<1>9. Bookings!Rebook(r, lineup, leftover)
  BY <1>5, <1>6, <1>7, <1>8 DEF Bookings!Rebook
<1> QED BY <1>2, <1>9 DEF Bookings!Next

LEMMA RunStepIsAbstract ==
    ASSUME IInv, NEW r \in Runs, RunStep(r)
    PROVE  Bookings!Next \/ UNCHANGED Bookings!bookingsVars
<1> DEFINE slots == {s \in Runs : status[s] \in Upcoming}
<1>1. UNCHANGED <<signup, draft, slipped>>
  BY DEF RunStep, StartRun, CompleteRun, CancelRun, ReactivateRun, RescheduleRun
<1>2. [c \in Characters |-> {s \in Runs : Reserves(s, c)}]' = [c \in Characters |-> {s \in Runs : Reserves(s, c)}]
  BY <1>1 DEF Reserves
<1>3. CASE StartRun(r)
  <2>1. slots' = slots /\ UNCHANGED <<start, revised>>
    BY <1>3 DEF StartRun, IInv, TypeOK, Upcoming
  <2> QED BY <1>1, <1>2, <2>1 DEF Bookings!bookingsVars
<1>4. CASE CompleteRun(r) \/ CancelRun(r)
  <2>1. slots' = slots \ {r} /\ UNCHANGED <<start, revised>>
    BY <1>4 DEF CompleteRun, CancelRun, IInv, TypeOK, Upcoming
  <2>2. Bookings!GiveUpSlot(r)
    BY <1>1, <1>2, <2>1 DEF Bookings!GiveUpSlot
  <2> QED BY <2>2 DEF Bookings!Next
<1>5. CASE ReactivateRun(r)
  <2>1. status'[r] \in Upcoming
    BY <1>5 DEF ReactivateRun, IInv, TypeOK, Editable, Upcoming
  <2>2. slots' = slots \cup {r} /\ revised' = revised \cup {r} /\ UNCHANGED start
    BY <1>5, <2>1 DEF ReactivateRun, IInv, TypeOK, Upcoming
  <2>3. Bookings!RetakeSlot(r)
    BY <1>1, <1>2, <2>2 DEF Bookings!RetakeSlot
  <2> QED BY <2>3 DEF Bookings!Next
<1>6. ASSUME NEW at \in Starts, RescheduleRun(r, at)
      PROVE  Bookings!Next
  <2>1. slots' = slots /\ start' = [start EXCEPT ![r] = at] /\ revised' = revised \cup {r}
    BY <1>6 DEF RescheduleRun
  <2>2. Bookings!Reschedule(r)
    BY <1>1, <1>2, <2>1 DEF Bookings!Reschedule
  <2> QED BY <2>2 DEF Bookings!Next
<1> QED BY <1>3, <1>4, <1>5, <1>6 DEF RunStep

\* The rosters keep the promise of CharacterBookings.
THEOREM RostersKeepBookings == Spec => KeepsBookings
<1>1. Init => Bookings!Init
  <2> SUFFICES ASSUME Init PROVE Bookings!Init
    OBVIOUS
  <2>1. \A r \in Runs : status[r] \in Upcoming
    BY DEF Init, Editable, Upcoming
  <2>2. NoDoubleBooking
    BY InitIInv, InitAllApart, ApartIsBookings DEF IInv
  <2> QED BY <2>1, <2>2 DEF Init, Bookings!Init, NoDoubleBooking
<1>2. ASSUME IInv, [Next]_vars
      PROVE  [Bookings!Next]_(Bookings!bookingsVars)
  <2>1. ASSUME NEW p \in Requests, LoadStep(p) \/ LockStep(p)
        PROVE  UNCHANGED <<status, start, revised, signup, draft, slipped>>
    BY <2>1, NothingWritten
  <2>2. ASSUME UNCHANGED <<status, start, revised, signup, draft, slipped>>
        PROVE  UNCHANGED Bookings!bookingsVars
    BY <2>2 DEF Bookings!bookingsVars, Reserves
  <2>3. ASSUME NEW p \in Requests, WriteStep(p) \/ Fail(p)
        PROVE  Bookings!Next
    BY <1>2, <2>3, WriteStepIsRowWrite, RowWriteRebooks
  <2>4. ASSUME NEW r \in Runs, RunStep(r)
        PROVE  Bookings!Next \/ UNCHANGED Bookings!bookingsVars
    BY <1>2, <2>4, RunStepIsAbstract
  <2>5. CASE UNCHANGED vars
    BY <2>2, <2>5 DEF vars, runVars
  <2> QED BY <1>2, <2>1, <2>2, <2>3, <2>4, <2>5 DEF Next
<1> QED BY <1>1, <1>2, IInvHolds, PTL DEF Spec, KeepsBookings, Bookings!Spec

-----------------------------------------------------------------------------
(* No circle of waiting requests.                                          *)
(*                                                                         *)
(* A roster row is held by a roster write, a Character by a request that   *)
(* locks or has checked; who has checked waits for nobody, because a       *)
(* replacement only ever asks for the roster row of a started Run, and     *)
(* roster writes are refused there.  So a circle would consist of requests *)
(* that lock Characters, each waiting for one that is held by the next:    *)
(* the Characters they wait for would grow along it.  SomeoneIsLast, that  *)
(* some request of any group waits for the greatest Character, is kept     *)
(* request by request, so it needs no bound on their number.               *)

Started == {"IN_PROGRESS", "COMPLETED"}
Locking(p) == At(p, Ops, "locking")
NextLock(p, c) == c \in Unheld(p) /\ IsNextToLock(p, c)

\* Who holds a lock is in the middle of its transaction.
HoldersWork ==
    /\ \A r \in Runs, q \in Requests : rosterLock[r] = q => Writing(q) /\ req[q].run = r
    /\ \A c \in Characters, q \in Requests :
           charLock[c] = q => Locking(q) \/ At(q, Ops, "checked")

\* What a request has locked comes before what it has not.
LocksInOrder == \A q \in Requests, c, d \in Characters :
    Locking(q) /\ charLock[c] = q /\ d \in Unheld(q) => c < d

\* A replacement belongs to a Run that has started.
ReplacesStarted == \A q \in Requests :
    req[q] # Idle /\ req[q].op = "replaceParticipant" => status[req[q].run] \in Started

\* Of any requests that lock Characters, one waits for the greatest.
IsLast(m, S) == \A q \in S : \A c, d \in Characters : NextLock(m, c) /\ NextLock(q, d) => d <= c
SomeoneIsLast == \A S \in SUBSET {p \in Requests : Locking(p)} : S # {} => \E m \in S : IsLast(m, S)

WaitInv == HoldersWork /\ LocksInOrder /\ ReplacesStarted /\ SomeoneIsLast

LEMMA CharactersAreNumbers == \A c \in Characters : c \in Nat
<1>1. Characters \subseteq Nat
  BY BookingsAssumption
<1> QED BY <1>1

\* p locks and waits for at most one Character.
LEMMA OneNextLock ==
    ASSUME NEW p, NEW c \in Characters, NEW d \in Characters, NextLock(p, c), NextLock(p, d)
    PROVE  c = d
<1>1. c <= d /\ d <= c
  BY DEF NextLock, IsNextToLock
<1> QED BY <1>1, CharactersAreNumbers

\* One request at a time joins those that lock, leaves them or goes on to its
\* next Character.
LEMMA LastStays ==
    ASSUME SomeoneIsLast, NEW p,
           \A q \in Requests : q # p /\ Locking(q)' =>
               /\ Locking(q)
               /\ \A c \in Characters : NextLock(q, c)' <=> NextLock(q, c)
    PROVE  SomeoneIsLast'
<1> SUFFICES ASSUME NEW S \in SUBSET Requests, S # {}, \A q \in S : Locking(q)'
             PROVE  \E m \in S : IsLast(m, S)'
  BY DEF SomeoneIsLast
<1> DEFINE T == S \ {p}
<1>1. CASE T = {}
  <2>1. S = {p}
    BY <1>1
  <2>2. \A c, d \in Characters : NextLock(p, c)' /\ NextLock(p, d)' => d <= c
    <3> SUFFICES ASSUME NEW c \in Characters, NEW d \in Characters, NextLock(p, c)', NextLock(p, d)'
                 PROVE  d <= c
      OBVIOUS
    <3> QED BY DEF NextLock, IsNextToLock
  <2> QED BY <2>1, <2>2 DEF IsLast
<1>2. CASE T # {}
  <2>1. \A q \in T : Locking(q) /\ \A c \in Characters : NextLock(q, c)' <=> NextLock(q, c)
    OBVIOUS
  <2>2. T \in SUBSET {q \in Requests : Locking(q)}
    BY <1>2, <2>1
  <2>3. PICK m \in T : IsLast(m, T)
    BY <1>2, <2>2 DEF SomeoneIsLast
  <2>4. \A q \in T : \A c, d \in Characters : NextLock(m, c)' /\ NextLock(q, d)' => d <= c
    BY <2>1, <2>3 DEF IsLast
  <2>5. CASE p \in S /\ \E c, d \in Characters : NextLock(m, c)' /\ NextLock(p, d)' /\ ~(d <= c)
    <3>1. PICK c \in Characters, d \in Characters : NextLock(m, c)' /\ NextLock(p, d)' /\ ~(d <= c)
      BY <2>5
    <3>2. ASSUME NEW q \in S, NEW x \in Characters, NEW y \in Characters, NextLock(p, x)', NextLock(q, y)'
          PROVE  y <= x
      <4>1. x <= d /\ d <= x
        BY <3>1, <3>2 DEF NextLock, IsNextToLock
      <4>2. CASE q = p
        BY <3>2, <4>2 DEF NextLock, IsNextToLock
      <4>3. CASE q # p
        <5>1. y <= c
          BY <2>4, <3>1, <3>2, <4>3
        <5> QED BY <3>1, <4>1, <5>1, CharactersAreNumbers
      <4> QED BY <4>2, <4>3
    <3> QED BY <2>5, <3>2 DEF IsLast
  <2>6. CASE ~(p \in S /\ \E c, d \in Characters : NextLock(m, c)' /\ NextLock(p, d)' /\ ~(d <= c))
    BY <2>4, <2>6 DEF IsLast
  <2> QED BY <2>5, <2>6
<1> QED BY <1>1, <1>2

\* What the others wait for and hold does not depend on whether the draft they
\* saw is fresh.
SameWait(q) ==
    /\ req'[q] = Idle <=> req[q] = Idle
    /\ req[q] # Idle => /\ req'[q].pc = req[q].pc /\ req'[q].op = req[q].op
                        /\ req'[q].run = req[q].run /\ req'[q].need = req[q].need

\* A step of p leaves the locks of the others alone, and p works for its own.
LEMMA WaitKeeps ==
    ASSUME IInv, WaitInv, NEW p \in Requests,
           \A q \in Requests \ {p} : SameWait(q),
           \A q \in Requests \ {p}, r \in Runs : rosterLock'[r] = q <=> rosterLock[r] = q,
           \A q \in Requests \ {p}, c \in Characters : charLock'[c] = q <=> charLock[c] = q,
           \A r \in Runs : rosterLock'[r] = p => Writing(p)' /\ req'[p].run = r,
           \A c \in Characters : charLock'[c] = p => Locking(p)' \/ At(p, Ops, "checked")',
           \A c, d \in Characters : Locking(p)' /\ charLock'[c] = p /\ d \in Unheld(p)' => c < d,
           req'[p] # Idle /\ req'[p].op = "replaceParticipant" => status'[req'[p].run] \in Started,
           \A r \in Runs : status[r] \in Started => status'[r] \in Started
    PROVE  WaitInv'
<1> USE IdleIsNoRow
<1>1. \A q \in Requests : req[q] # Idle =>
          req[q].run \in Runs /\ req[q].need \in SUBSET Characters /\ req[q].pc # "idle"
  BY DEF IInv, TypeOK, ReqRows
<1>2. ASSUME NEW q \in Requests \ {p}
      PROVE  /\ Locking(q)' <=> Locking(q)
             /\ At(q, Ops, "checked")' <=> At(q, Ops, "checked")
             /\ Writing(q)' <=> Writing(q)
  BY <1>1 DEF SameWait, Locking, Writing, At
<1>3. ASSUME NEW q \in Requests \ {p}, Locking(q)
      PROVE  Unheld(q)' = Unheld(q) /\ Unheld(q) \in SUBSET Characters
  <2>1. req[q] # Idle
    BY <1>3 DEF Locking, At
  <2>2. req'[q].need = req[q].need /\ req[q].need \in SUBSET Characters
    BY <1>1, <2>1 DEF SameWait
  <2> QED BY <2>2 DEF Unheld
<1>4. HoldersWork'
  <2>1. ASSUME NEW r \in Runs, NEW q \in Requests, rosterLock'[r] = q
        PROVE  Writing(q)' /\ req'[q].run = r
    <3>1. CASE q # p
      <4>1. Writing(q) /\ req[q].run = r
        BY <2>1, <3>1 DEF WaitInv, HoldersWork
      <4>2. req[q] # Idle
        BY <4>1 DEF Writing, At
      <4> QED BY <1>2, <3>1, <4>1, <4>2 DEF SameWait
    <3> QED BY <2>1, <3>1
  <2>2. ASSUME NEW c \in Characters, NEW q \in Requests, charLock'[c] = q
        PROVE  Locking(q)' \/ At(q, Ops, "checked")'
    BY <1>2, <2>2 DEF WaitInv, HoldersWork
  <2> QED BY <2>1, <2>2 DEF HoldersWork
<1>5. LocksInOrder'
  BY <1>2, <1>3 DEF WaitInv, LocksInOrder
<1>6. ReplacesStarted'
  BY <1>1 DEF WaitInv, ReplacesStarted, SameWait
<1>7. SomeoneIsLast'
  <2>1. \A q \in Requests : q # p /\ Locking(q)' =>
            Locking(q) /\ \A c \in Characters : NextLock(q, c)' <=> NextLock(q, c)
    BY <1>2, <1>3 DEF NextLock, IsNextToLock
  <2> QED BY <2>1, LastStays DEF WaitInv
<1> QED BY <1>4, <1>5, <1>6, <1>7 DEF WaitInv

LEMMA InitWaitInv == Init => WaitInv
<1> SUFFICES ASSUME Init PROVE WaitInv
  OBVIOUS
<1>1. \A q \in Requests : req[q] = Idle /\ req[q].pc = "idle"
  BY IdleIsNoRow DEF Init
<1>2. \A q \in Requests : /\ \A r \in Runs : rosterLock[r] # q
                          /\ \A c \in Characters : charLock[c] # q
  BY BookingsAssumption DEF Init
<1> QED BY <1>1, <1>2 DEF WaitInv, HoldersWork, LocksInOrder, ReplacesStarted, SomeoneIsLast, Locking, At

\* A new request holds nothing.
LEMMA LoadKeepsWait ==
    ASSUME IInv, WaitInv, NEW p \in Requests, LoadStep(p)
    PROVE  WaitInv'
<1> USE IdleIsNoRow
<1> DEFINE Arrives == /\ req[p] = Idle
                      /\ req'[p].op = "replaceParticipant" => status'[req'[p].run] \in Started
                      /\ \A q \in Requests \ {p} : req'[q] = req[q]
                      /\ UNCHANGED <<status, rosterLock, charLock>>
<1>1. Arrives
  <2>1. PICK r \in Runs :
          \/ \E op \in RosterOps \cup PlayerOps : \E chars, leave, need : Load(p, op, r, chars, leave, need)
          \/ \E c, out \in Characters : BeginReplace(p, r, out, c)
    BY DEF LoadStep, LoadSaveDraft, LoadUpdateRoster, LoadPublishRoster, LoadAddPlayer, LoadOffer,
           LoadWithdraw, LoadWithdrawPicked, RosterOps, PlayerOps
  <2>2. ASSUME NEW op \in RosterOps \cup PlayerOps, NEW chars, NEW leave, NEW need,
               Load(p, op, r, chars, leave, need)
        PROVE  Arrives
    <3>1. req'[p].op = op /\ op # "replaceParticipant"
      BY <2>2 DEF Load, IInv, TypeOK, RosterOps, PlayerOps
    <3> QED BY <2>2, <3>1 DEF Load, IInv, TypeOK, runVars, lockVars
  <2>3. ASSUME NEW c \in Characters, NEW out \in Characters, BeginReplace(p, r, out, c)
        PROVE  Arrives
    <3>1. req'[p].run = r /\ status[r] \in Started
      BY <2>3 DEF BeginReplace, IInv, TypeOK, Started
    <3> QED BY <2>3, <3>1 DEF BeginReplace, IInv, TypeOK, runVars, lockVars
  <2> QED BY <2>1, <2>2, <2>3
<1>2. /\ \A r \in Runs : rosterLock[r] # p
      /\ \A c \in Characters : charLock[c] # p
  BY <1>1 DEF WaitInv, HoldersWork, Writing, Locking, At
<1>3. \A q \in Requests \ {p} : SameWait(q)
  BY <1>1 DEF SameWait
<1> QED BY <1>1, <1>2, <1>3, WaitKeeps

\* A roster write locks no Character before its roster row.
LEMMA BeginKeepsWait ==
    ASSUME IInv, WaitInv, NEW p \in Requests, BeginRosterWrite(p)
    PROVE  WaitInv'
<1> USE IdleIsNoRow
<1>1. req[p] \in ReqRows /\ req[p].run \in Runs /\ req[p].op \in RosterOps /\ req[p].pc = "loaded"
  BY InFlight DEF IInv, BeginRosterWrite, At, ReqRows
<1>2. /\ req'[p].pc = "locking" /\ req'[p].op = req[p].op /\ req'[p].run = req[p].run
      /\ \A q \in Requests \ {p} : req'[q] = req[q]
  BY <1>1 DEF BeginRosterWrite, IInv, TypeOK, ReqRows
<1>3. UNCHANGED <<status, charLock>> /\ rosterLock[req[p].run] = NoRequest
      /\ \A s \in Runs : rosterLock'[s] = IF s = req[p].run THEN p ELSE rosterLock[s]
  BY <1>1 DEF BeginRosterWrite, RosterFree, IInv, TypeOK, runVars
<1>4. /\ \A r \in Runs : rosterLock[r] # p
      /\ \A c \in Characters : charLock[c] # p
  BY <1>1 DEF WaitInv, HoldersWork, Writing, Locking, At
<1>5. \A q \in Requests \ {p} : SameWait(q)
  BY <1>2 DEF SameWait
<1>6. Writing(p)'
  BY <1>1, <1>2 DEF Writing, At
<1>7. req'[p].op # "replaceParticipant"
  BY <1>1, <1>2 DEF RosterOps
<1> QED BY <1>2, <1>3, <1>4, <1>5, <1>6, <1>7, BookingsAssumption, WaitKeeps

\* The Characters are locked in id order.
LEMMA LockKeepsWait ==
    ASSUME IInv, WaitInv, NEW p \in Requests, NEW c \in Characters, LockCharacter(p, c)
    PROVE  WaitInv'
<1>1. /\ Locking(p) /\ c \in Unheld(p) /\ (\A d \in Unheld(p) : c <= d) /\ charLock[c] = NoRequest
      /\ UNCHANGED <<status, rosterLock, req>>
  BY DEF LockCharacter, IsNextToLock, Locking, runVars
<1>2. \A d \in Characters : charLock'[d] = IF d = c THEN p ELSE charLock[d]
  BY DEF LockCharacter, IInv, TypeOK
<1>3. req[p] # Idle /\ req[p].need \in SUBSET Characters
  BY <1>1, InFlight, IdleIsNoRow DEF IInv, Locking, At, ReqRows
<1>4. Unheld(p)' \subseteq Unheld(p) \ {c} /\ Unheld(p) \subseteq Characters
  BY <1>1, <1>2, <1>3 DEF Unheld
<1>5. ASSUME NEW e \in Characters, NEW d \in Unheld(p)', charLock'[e] = p
      PROVE  e < d
  <2>1. d \in Unheld(p) /\ d # c /\ d \in Characters
    BY <1>4
  <2>2. CASE e = c
    BY <1>1, <2>1, <2>2, CharactersAreNumbers
  <2>3. CASE e # c
    <3>1. charLock[e] = p
      BY <1>2, <1>5, <2>3
    <3> QED BY <1>1, <2>1, <3>1 DEF WaitInv, LocksInOrder
  <2> QED BY <2>2, <2>3
<1>6. Locking(p)' /\ \A q \in Requests \ {p} : SameWait(q)
  BY <1>1 DEF Locking, At, SameWait
<1>7. \A r \in Runs : rosterLock'[r] = p => Writing(p)' /\ req'[p].run = r
  BY <1>1 DEF WaitInv, HoldersWork, Writing, At
<1>8. req'[p] # Idle /\ req'[p].op = "replaceParticipant" => status'[req'[p].run] \in Started
  BY <1>1 DEF WaitInv, ReplacesStarted
<1> QED BY <1>1, <1>2, <1>5, <1>6, <1>7, <1>8, BookingsAssumption, WaitKeeps

LEMMA CheckKeepsWait ==
    ASSUME IInv, WaitInv, NEW p \in Requests, CheckReservations(p)
    PROVE  WaitInv'
<1>1. req[p] \in ReqRows /\ req[p] # Idle /\ req[p].op \in Ops /\ req[p].pc = "locking"
  BY InFlight, IdleIsNoRow DEF IInv, CheckReservations, At, ReqRows
<1>2. /\ req'[p].pc = "checked" /\ req'[p].op = req[p].op /\ req'[p].run = req[p].run
      /\ \A q \in Requests \ {p} : req'[q] = req[q]
      /\ UNCHANGED <<status, rosterLock, charLock>>
  BY <1>1 DEF CheckReservations, IInv, TypeOK, ReqRows, runVars, lockVars
<1>3. \A q \in Requests \ {p} : SameWait(q)
  BY <1>2 DEF SameWait
<1>4. At(p, Ops, "checked")' /\ ~Locking(p)'
  BY <1>1, <1>2 DEF At, Locking
<1>5. \A r \in Runs : rosterLock'[r] = p => Writing(p)' /\ req'[p].run = r
  BY <1>1, <1>2 DEF WaitInv, HoldersWork, Writing, At
<1>6. req'[p] # Idle /\ req'[p].op = "replaceParticipant" => status'[req'[p].run] \in Started
  BY <1>1, <1>2 DEF WaitInv, ReplacesStarted
<1> QED BY <1>2, <1>3, <1>4, <1>5, <1>6, WaitKeeps

\* A write ends the transaction it belongs to; a player's offers hold no lock.
LEMMA WriteReleases ==
    ASSUME IInv, WaitInv, NEW p \in Requests, WriteStep(p) \/ Fail(p)
    PROVE  /\ \A r \in Runs : rosterLock'[r] # p
           /\ \A c \in Characters : charLock'[c] # p
           /\ \A q \in Requests \ {p}, r \in Runs : rosterLock'[r] = q <=> rosterLock[r] = q
           /\ \A q \in Requests \ {p}, c \in Characters : charLock'[c] = q <=> charLock[c] = q
<1>1. Unlock(p) \/ (UNCHANGED lockVars /\ req[p].op \in PlayerOps /\ req[p].pc \in {"loaded", "clearing"})
  BY DEF WriteStep, SaveDraft, AddPlayer, PublishRoster, ReplaceParticipant, ApplyOffer, WithdrawOffer,
         ClearNothing, ClearDraftSelection, WithdrawPicked, FinishRosterWrite, Fail, At, PlayerOps
<1>2. CASE Unlock(p)
  BY <1>2, BookingsAssumption DEF Unlock
<1>3. CASE UNCHANGED lockVars /\ req[p].op \in PlayerOps /\ req[p].pc \in {"loaded", "clearing"}
  <2>1. ~Writing(p) /\ ~Locking(p) /\ ~At(p, Ops, "checked")
    BY <1>3 DEF Writing, Locking, At
  <2> QED BY <1>3, <2>1 DEF WaitInv, HoldersWork, lockVars
<1> QED BY <1>1, <1>2, <1>3

LEMMA WriteKeepsWait ==
    ASSUME IInv, WaitInv, NEW p \in Requests, WriteStep(p) \/ Fail(p)
    PROVE  WaitInv'
<1> USE IdleIsNoRow
<1>1. PICK r \in Runs, leftover \in SUBSET Characters : RowWrite(p, r, leftover)
  BY WriteStepIsRowWrite DEF RowWrite
<1>2. /\ \A q \in Requests : req'[q] # Idle => SameRequest(q)
      /\ \A q \in Requests \ {p} : /\ req'[q] # Idle => req'[q].pc = req[q].pc
                                   /\ req'[q] = Idle <=> req[q] = Idle
      /\ req'[p] # Idle => req'[p].op \in PlayerOps /\ req'[p].pc = "clearing"
  BY <1>1, RowWriteRequests
<1>3. \A q \in Requests \ {p} : SameWait(q)
  BY <1>2 DEF SameWait, SameRequest
<1>4. \A s \in Runs : status[s] \in Started => status'[s] \in Started
  BY <1>1 DEF RowWrite, Started, Editable
<1>5. ~Locking(p)' /\ (req'[p] # Idle => req'[p].op # "replaceParticipant")
  BY <1>2 DEF Locking, At, PlayerOps
<1> QED BY <1>3, <1>4, <1>5, WriteReleases, WaitKeeps

LEMMA LastStaysIdle ==
    ASSUME SomeoneIsLast, UNCHANGED <<req, charLock>>
    PROVE  SomeoneIsLast'
<1>1. \A q \in Requests : q # NoRequest /\ Locking(q)' =>
          Locking(q) /\ \A c \in Characters : NextLock(q, c)' <=> NextLock(q, c)
  BY DEF Locking, At, NextLock, IsNextToLock, Unheld
<1> QED BY <1>1, LastStays

\* Status changes concern no lock, and a started Run stays started.
LEMMA RunKeepsWait ==
    ASSUME IInv, WaitInv, NEW r \in Runs, RunStep(r)
    PROVE  WaitInv'
<1>1. UNCHANGED <<req, rosterLock, charLock>>
  BY DEF RunStep, StartRun, CompleteRun, CancelRun, ReactivateRun, RescheduleRun, lockVars
<1>2. \A s \in Runs : status[s] \in Started => status'[s] \in Started
  BY DEF RunStep, StartRun, CompleteRun, CancelRun, ReactivateRun, RescheduleRun, MayCancel,
         Editable, Started, IInv, TypeOK
<1>3. \A q \in Requests : req[q] # Idle => req[q].run \in Runs
  BY DEF IInv, TypeOK, ReqRows
<1>4. ReplacesStarted'
  BY <1>1, <1>2, <1>3 DEF WaitInv, ReplacesStarted
<1>5. HoldersWork' /\ LocksInOrder'
  BY <1>1 DEF WaitInv, HoldersWork, LocksInOrder, Writing, Locking, Unheld, At
<1>6. SomeoneIsLast'
  BY <1>1, LastStaysIdle DEF WaitInv
<1> QED BY <1>4, <1>5, <1>6 DEF WaitInv

LEMMA NextKeepsWait ==
    ASSUME IInv, WaitInv, [Next]_vars
    PROVE  WaitInv'
<1>1. ASSUME NEW p \in Requests, LoadStep(p)
      PROVE  WaitInv'
  BY <1>1, LoadKeepsWait
<1>2. ASSUME NEW p \in Requests, LockStep(p)
      PROVE  WaitInv'
  BY <1>2, BeginKeepsWait, LockKeepsWait, CheckKeepsWait DEF LockStep
<1>3. ASSUME NEW p \in Requests, WriteStep(p) \/ Fail(p)
      PROVE  WaitInv'
  BY <1>3, WriteKeepsWait
<1>4. ASSUME NEW r \in Runs, RunStep(r)
      PROVE  WaitInv'
  BY <1>4, RunKeepsWait
<1>5. CASE UNCHANGED vars
  <2>1. UNCHANGED <<status, req, rosterLock, charLock>>
    BY <1>5 DEF vars, runVars, lockVars
  <2>2. SomeoneIsLast'
    BY <2>1, LastStaysIdle DEF WaitInv
  <2> QED BY <2>1, <2>2 DEF WaitInv, HoldersWork, LocksInOrder, ReplacesStarted, Writing, Locking, Unheld, At
<1> QED BY <1>1, <1>2, <1>3, <1>4, <1>5 DEF Next

\* Who has checked its reservations waits for nobody.
LEMMA CheckedIsNext ==
    ASSUME IInv, WaitInv, NEW p \in Requests, NEW q \in Requests, At(p, Ops, "checked")
    PROVE  ~WaitsFor(p, q)
<1> SUFFICES ASSUME WaitsFor(p, q) PROVE FALSE
  OBVIOUS
<1>1. req[p] # Idle /\ req[p].op = "replaceParticipant" /\ rosterLock[req[p].run] = q
  BY DEF WaitsFor, At
<1>2. req[p].run \in Runs
  BY <1>1, InFlight DEF IInv, ReqRows
<1>3. Writing(q) /\ req[q].run = req[p].run
  BY <1>1, <1>2 DEF WaitInv, HoldersWork
<1>4. status[req[p].run] \in Editable
  BY <1>3 DEF IInv, LocksHeld
<1>5. status[req[p].run] \in Started
  BY <1>1 DEF WaitInv, ReplacesStarted
<1> QED BY <1>4, <1>5 DEF Editable, Started

\* Who is waited for holds a lock, so is locking or has checked.
LEMMA HolderWorks ==
    ASSUME IInv, WaitInv, NEW p \in Requests, NEW q \in Requests, WaitsFor(p, q)
    PROVE  Locking(q) \/ At(q, Ops, "checked")
<1>1. req[p].run \in Runs /\ Unheld(p) \subseteq Characters
  BY InFlight DEF IInv, ReqRows, WaitsFor, Unheld
<1>2. CASE rosterLock[req[p].run] = q
  BY <1>1, <1>2 DEF WaitInv, HoldersWork, Writing, Locking, At, Ops
<1>3. CASE \E c \in Unheld(p) : charLock[c] = q
  BY <1>1, <1>3 DEF WaitInv, HoldersWork
<1> QED BY <1>2, <1>3 DEF WaitsFor

\* In a circle everybody locks, and the one who waits for the greatest
\* Character waits for somebody who has locked it and still needs a greater one.
LEMMA NoCircle ==
    ASSUME IInv, WaitInv
    PROVE  NoWaitCycle
<1> SUFFICES ASSUME NEW waiting \in SUBSET Requests, waiting # {},
                    \A p \in waiting : \E q \in waiting : WaitsFor(p, q)
             PROVE  FALSE
  BY DEF NoWaitCycle
<1> DEFINE T == {p \in waiting : Locking(p)}
<1>1. \A q \in waiting : ~At(q, Ops, "checked")
  BY CheckedIsNext
<1>2. \A p, q \in waiting : WaitsFor(p, q) => q \in T
  BY <1>1, HolderWorks
<1>3. T # {} /\ \A p \in T : \E q \in T : WaitsFor(p, q)
  BY <1>2
<1>4. T \in SUBSET {p \in Requests : Locking(p)}
  OBVIOUS
<1>5. ASSUME NEW p \in T, NEW q \in T, WaitsFor(p, q)
      PROVE  \E c \in Characters : NextLock(p, c) /\ charLock[c] = q
  <2>1. Unheld(p) \subseteq Characters
    BY <1>5, InFlight DEF IInv, ReqRows, WaitsFor, Unheld
  <2> QED BY <1>5, <2>1 DEF WaitsFor, NextLock, Locking, At
<1> HIDE DEF T
<1>6. PICK m \in T : IsLast(m, T)
  BY <1>3, <1>4 DEF WaitInv, SomeoneIsLast
<1>7. PICK q \in T, c \in Characters : NextLock(m, c) /\ charLock[c] = q
  BY <1>3, <1>5
<1>8. PICK d \in Characters : NextLock(q, d)
  BY <1>3, <1>5
<1>9. d <= c
  BY <1>6, <1>7, <1>8 DEF IsLast
<1>10. c < d
  BY <1>4, <1>7, <1>8 DEF WaitInv, LocksInOrder, NextLock
<1> QED BY <1>9, <1>10, CharactersAreNumbers

\* Requests never wait on each other in a circle.
THEOREM RequestsNeverWaitInACircle == Spec => []NoWaitCycle
<1>1. Init => IInv /\ WaitInv
  BY InitIInv, InitWaitInv
<1>2. IInv /\ WaitInv /\ [Next]_vars => IInv' /\ WaitInv'
  BY NextKeepsIInv, NextKeepsWait
<1>3. IInv /\ WaitInv => NoWaitCycle
  BY NoCircle
<1> QED BY <1>1, <1>2, <1>3, PTL DEF Spec

-----------------------------------------------------------------------------
(* The line-up of a started Run.                                           *)

\* A row of a started Run is taken out of the line-up by no write but these.
LEMMA WriteKeepsLineup ==
    ASSUME IInv, NEW p \in Requests, WriteStep(p), NEW r \in Runs, NEW c \in Characters,
           status[r] = "IN_PROGRESS", signup[r][c] = "SELECTED", signup'[r][c] # "SELECTED"
    PROVE  \/ At(p, {"replaceParticipant"}, "checked") /\ c \in req[p].leave
           \/ At(p, {"withdrawOffer"}, "loaded") /\ c \in req[p].chars
<1>1. signup \in [Runs -> [Characters -> SignupStatuses]]
  BY DEF IInv, TypeOK
<1>2. CASE SaveDraft(p) \/ ClearNothing(p) \/ ClearDraftSelection(p)
  BY <1>2 DEF SaveDraft, ClearNothing, ClearDraftSelection
<1>3. CASE AddPlayer(p)
  BY <1>1, <1>3 DEF AddPlayer
<1>4. CASE PublishRoster(p)
  <2>1. Writing(p)
    BY <1>4 DEF PublishRoster, Writing, At, RosterOps
  <2>2. status[req[p].run] \in Editable
    BY <2>1 DEF IInv, LocksHeld
  <2>3. req[p].run = r
    BY <1>1, <1>4 DEF PublishRoster, PublishedSignups
  <2> QED BY <2>2, <2>3 DEF Editable
<1>5. CASE ReplaceParticipant(p)
  BY <1>1, <1>5 DEF ReplaceParticipant, PublishedSignups
<1>6. CASE ApplyOffer(p)
  BY <1>1, <1>6 DEF ApplyOffer
<1>7. CASE WithdrawOffer(p)
  BY <1>1, <1>7 DEF WithdrawOffer
<1>8. CASE WithdrawPicked(p)
  BY <1>1, <1>8 DEF WithdrawPicked, MayWithdrawPicked, Editable
<1> QED BY <1>2, <1>3, <1>4, <1>5, <1>6, <1>7, <1>8 DEF WriteStep

\* A player of a started Run leaves its line-up only by being replaced, or by a
\* withdrawal planned before the player was selected.
THEOREM StartedLineupAlwaysStays == Spec => StartedLineupStays
<1>1. ASSUME IInv, Next, NEW r \in Runs, NEW c \in Characters,
             status[r] = "IN_PROGRESS", signup[r][c] = "SELECTED", signup'[r][c] # "SELECTED"
      PROVE  \E p \in Requests : \/ At(p, {"replaceParticipant"}, "checked") /\ c \in req[p].leave
                                 \/ At(p, {"withdrawOffer"}, "loaded") /\ c \in req[p].chars
  <2>1. ASSUME NEW p \in Requests, LoadStep(p) \/ LockStep(p)
        PROVE  FALSE
    <3>1. UNCHANGED signup
      BY <2>1, NothingWritten
    <3> QED BY <1>1, <3>1
  <2>2. ASSUME NEW p \in Requests, Fail(p)
        PROVE  FALSE
    BY <1>1, <2>2 DEF Fail
  <2>3. ASSUME NEW s \in Runs, RunStep(s)
        PROVE  FALSE
    BY <1>1, <2>3 DEF RunStep, StartRun, CompleteRun, CancelRun, ReactivateRun, RescheduleRun
  <2>4. ASSUME NEW p \in Requests, WriteStep(p)
        PROVE  \/ At(p, {"replaceParticipant"}, "checked") /\ c \in req[p].leave
               \/ At(p, {"withdrawOffer"}, "loaded") /\ c \in req[p].chars
    BY <1>1, <2>4, WriteKeepsLineup
  <2> QED BY <1>1, <2>1, <2>2, <2>3, <2>4 DEF Next
<1>2. IInv /\ [Next]_vars =>
          [\A r \in Runs, c \in Characters :
              status[r] = "IN_PROGRESS" /\ signup[r][c] = "SELECTED" /\ signup'[r][c] # "SELECTED" =>
                  \E p \in Requests : \/ At(p, {"replaceParticipant"}, "checked") /\ c \in req[p].leave
                                      \/ At(p, {"withdrawOffer"}, "loaded") /\ c \in req[p].chars]_vars
  BY <1>1
<1> QED BY <1>2, IInvHolds, PTL DEF Spec, StartedLineupStays
=============================================================================
