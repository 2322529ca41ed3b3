----------------------------- MODULE RosterNotices -----------------------------
(***************************************************************************)
(* What players hear about their place on a roster before Start: the       *)
(* notifications that Save, Add Booster and Publish write                  *)
(* (roster.repository.ts), and the Discord bot that delivers them as       *)
(* direct messages (discord-sync.service.ts, sync-loop.ts).                *)
(*                                                                         *)
(* A roster write compares its selection with what every signup was last   *)
(* told, which it reads from the notifications themselves.  The bot lists  *)
(* the waiting ones together with the boss plan they will show, asks again *)
(* before each message, sends and reports: four different moments.         *)
(*                                                                         *)
(* Abstractions: one Run, not yet started or cancelled, and its booster    *)
(* signups, which exist from the start; a roster write holds the RunRoster *)
(* row and is one step (its races are the subject of RosterBookings), and  *)
(* so is a withdrawal with the slot it frees, whose message to the Raid    *)
(* Lead is left out; raid roles are left out; the boss plan of a slot is   *)
(* one value; listPending(50) is never full.                               *)
(***************************************************************************)
EXTENDS Integers, FiniteSets

CONSTANTS Players,     \* each the set of its booster signups
          BossPlans,   \* boss plans of a slot
          Default,     \* the plan "every boss as rostered"
          Modes,       \* deliveries a new notification may get from the settings
          NoItem,
          MaxVersion   \* bound on the roster version

Signups == UNION Players

Versions == 1 .. MaxVersion
\* A version tells a signup one thing; "swapped" and "plan" are ROSTER_SELECTED.
Keys == [signup : Signups, version : Versions]
Items == [key : Keys, plan : BossPlans]

ASSUME NoticesAssumption == /\ \A p, q \in Players : p # q => p \cap q = {}
                            /\ Default \in BossPlans
                            /\ Modes \subseteq {"PENDING", "QUIET", "SKIPPED"}
                            /\ NoItem \notin Items
                            /\ MaxVersion \in Nat \ {0}

VARIABLES published,  \* RunRoster.publishedAt is set
          signup,     \* RunSignup.status
          draft,      \* the selected RunRosterEntry rows
          plan,       \* DRAFT boss exceptions by slot
          publicPlan, \* PUBLISHED boss exceptions by slot
          version,    \* RunRoster.version
          row,        \* UserNotification: what a roster version told a signup
          lane,       \* the direct message lane of a sync pass
          heard,      \* history: the plan in the last message about a slot
          newest,     \* history: the latest version a signup had a message about
          delayed,    \* history: keys that waited for quiet hours or failed once
          excused     \* history: openings, see NoticesMatchRoster and PlanIsHeard

lineupVars == <<published, signup, draft, plan, publicPlan, version>>
messageVars == <<heard, newest>>
noticeVars == <<lineupVars, row, lane, messageVars, delayed, excused>>

PickTypes == {"selected", "swapped", "plan"}
NoticeTypes == PickTypes \cup {"removed", "none"}
\* QUIET is PENDING with discordDeliverAfter in the future.
Waiting == {"PENDING", "QUIET"}
Rows == [type : NoticeTypes, status : Waiting \cup {"SENT", "SKIPPED", "FAILED_PERMANENT"}]
NoRow == [type |-> "none", status |-> "SKIPPED"]

LaneIdle == [pc |-> "idle", todo |-> {}, item |-> NoItem]
LaneRows == [pc : {"idle", "listed", "confirmed", "sent", "refused"}, todo : SUBSET Items,
             item : Items \cup {NoItem}]
Openings == [seeded : SUBSET Signups, rejoined : SUBSET Signups,
             overtaken : SUBSET Signups, unheard : SUBSET Signups]

Active(s) == signup[s] # "WITHDRAWN"
SamePlayer(s, t) == \E p \in Players : s \in p /\ t \in p
NoPlans == [s \in Signups |-> Default]

NoticeInit == /\ published = FALSE
              /\ signup \in [Signups -> {"PENDING", "WITHDRAWN"}]
              /\ draft = {} /\ plan = NoPlans /\ publicPlan = NoPlans
              /\ version = 1
              /\ row = [k \in Keys |-> NoRow]
              /\ lane = LaneIdle
              /\ heard = NoPlans
              /\ newest = [s \in Signups |-> 0]
              /\ delayed = {}
              /\ excused = [seeded |-> {}, rejoined |-> {}, overtaken |-> {}, unheard |-> {}]

-----------------------------------------------------------------------------
(* What a roster write tells whom. *)

Noticed(s) == {k \in Keys : k.signup = s /\ row[k].type # "none"}

\* Faulty variant: any earlier pick counts, whatever came after it.
FaultyIsNotifiedSelected(s) == \E k \in Noticed(s) : row[k].type \in PickTypes
\* The latest notification by version; without one, the signup's status.
IsNotifiedSelected(s) ==
    IF Noticed(s) = {} THEN signup[s] = "SELECTED"
    ELSE \E k \in Noticed(s) : row[k].type \in PickTypes /\ \A j \in Noticed(s) : j.version <= k.version

\* notifyRosterSelectionChangesInTx: `known` are the slots a Save found in the draft.
Joining(chars, known) == {s \in chars \ known : ~IsNotifiedSelected(s)}
Leaving(chars) == {s \in Signups \ chars : IsNotifiedSelected(s) /\ Active(s)}
\* Another Character of the same player: one "Roster Update", and the removal
\* of the old one is only recorded.
SwappedIn(chars, s) == \E t \in Leaving(chars) : SamePlayer(s, t)
\* Faulty variant: nobody is taken for staying.
FaultyStaysIn(chars, s) == FALSE
StaysIn(chars, s) == \E t \in chars : SamePlayer(s, t)

SelectionNotices(chars, known) ==
    [s \in Signups |-> CASE s \in Joining(chars, known) -> IF SwappedIn(chars, s) THEN "swapped" ELSE "selected"
                         [] s \in Leaving(chars) -> "removed"
                         [] OTHER -> "none"]

WaitingPicks(s, types) ==
    {k \in Keys : k.signup = s /\ row[k].type \in types /\ row[k].status \in Waiting}

\* Faulty variant: compared with the draft the Raid Lead saved.
FaultyReplanned(chars, new) == {s \in chars \ Joining(chars, {}) : new[s] # plan[s]}
\* notifyBossPlanChangesInTx: the slots whose published plan changes, ...
Replanned(chars, new) == {s \in chars \ Joining(chars, {}) : new[s] # publicPlan[s]}
\* ... those whose waiting "Roster Selected" will show the new plan, ...
Absorbed(chars, new) == {s \in Replanned(chars, new) : WaitingPicks(s, {"selected", "swapped"}) # {}}
\* ... and those who get a notice of their own, in place of one still waiting.
Renoticed(chars, new) == Replanned(chars, new) \ Absorbed(chars, new)
Superseded(chars, new) == UNION {WaitingPicks(s, {"plan"}) : s \in Renoticed(chars, new)}
PublishNotices(chars, new) ==
    [s \in Signups |-> IF s \in Renoticed(chars, new) THEN "plan" ELSE SelectionNotices(chars, {})[s]]

Listed == lane.todo \cup ({lane.item} \ {NoItem})
\* A message about the slot that a listing already rendered cannot absorb.
InLane(s) == \E i \in Listed : i.key.signup = s
\* resolveDiscordDelivery decides once, from the settings of the moment; the
\* removal of a player who stays is only recorded.
WriteNotices(chars, type, superseded, absorbed) ==
    LET told == {s \in Signups : type[s] # "none"}
        silent == {s \in told : type[s] = "removed" /\ StaysIn(chars, s)}
        picked == {s \in told : type[s] \in PickTypes} IN
    \E mode \in [told \ silent -> Modes] :
        /\ row' = [k \in Keys |->
                     IF k.version = version + 1 /\ k.signup \in told
                     THEN [type |-> type[k.signup],
                           status |-> IF k.signup \in silent THEN "SKIPPED" ELSE mode[k.signup]]
                     ELSE IF k \in superseded THEN [row[k] EXCEPT !.status = "SKIPPED"] ELSE row[k]]
        /\ delayed' = delayed \cup {[signup |-> s, version |-> version + 1] :
                                         s \in {t \in told \ silent : mode[t] = "QUIET"}}
        /\ excused' = [seeded |-> excused.seeded \ picked,
                       rejoined |-> excused.rejoined \ picked,
                       overtaken |-> (excused.overtaken \ picked) \cup {s \in absorbed : InLane(s)},
                       unheard |-> (excused.unheard \ picked) \cup {s \in picked : mode[s] = "SKIPPED"}]

-----------------------------------------------------------------------------
(* The roster. *)

\* One slot per player, none for a withdrawn signup.
Lineups == {chars \in SUBSET Signups : /\ \A s \in chars : Active(s)
                                       /\ \A s, t \in chars : SamePlayer(s, t) => s = t}
PlansFor(chars) == {new \in [Signups -> BossPlans] : \A s \in Signups \ chars : new[s] = Default}
Only(chars, p) == [s \in Signups |-> IF s \in chars THEN p[s] ELSE Default]

\* writeDraftSelectionsInTx
SaveDraft(chars, new) ==
    /\ version < MaxVersion
    /\ draft' = chars
    /\ plan' = new
    /\ version' = version + 1
    /\ UNCHANGED <<published, signup, publicPlan, lane, messageVars>>

SaveRoster(chars, new) ==
    /\ SaveDraft(chars, new)
    /\ WriteNotices(chars, SelectionNotices(chars, draft), {}, {})

\* addManagedBoosterAtomic: takes the slot of the player's other Character.
AddBooster(s) ==
    /\ Active(s)
    /\ LET chars == {t \in draft : Active(t) /\ ~SamePlayer(s, t)} \cup {s} IN
       SaveRoster(chars, Only(chars, plan))

\* The seed of Edit Published, which tells nobody.
SeedDraft ==
    LET chars == {s \in Signups : signup[s] = "SELECTED"} IN
    /\ published /\ draft = {}
    /\ SaveDraft(chars, Only(chars, publicPlan))
    /\ excused' = [excused EXCEPT !.seeded = @ \cup {s \in chars : ~IsNotifiedSelected(s)}]
    /\ UNCHANGED <<row, delayed>>

\* publishSelectionsInTx
Publish(chars, new) ==
    /\ version < MaxVersion
    /\ published' = TRUE
    /\ draft' = chars
    /\ plan' = new
    /\ publicPlan' = new
    /\ signup' = [s \in Signups |-> IF s \in chars THEN "SELECTED"
                                    ELSE IF Active(s) THEN "NOT_SELECTED" ELSE signup[s]]
    /\ version' = version + 1
    /\ WriteNotices(chars, PublishNotices(chars, new), Superseded(chars, new), Absorbed(chars, new))
    /\ UNCHANGED <<lane, messageVars>>
PublishRoster == ~published /\ Publish(draft, plan)
UpdateRoster(chars, new) == published /\ Publish(chars, new)

\* A picked player withdraws with a reason, another one takes the offer back;
\* who was published as not selected can do neither.
Withdraw(s) ==
    /\ signup[s] \in {"PENDING", "SELECTED"}
    /\ LET picked == signup[s] = "SELECTED" \/ s \in draft IN
       /\ picked => version < MaxVersion
       /\ version' = IF picked THEN version + 1 ELSE version
    /\ signup' = [signup EXCEPT ![s] = "WITHDRAWN"]
    /\ draft' = draft \ {s}
    /\ plan' = [plan EXCEPT ![s] = Default]
    /\ publicPlan' = [publicPlan EXCEPT ![s] = Default]
    /\ UNCHANGED <<published, row, lane, messageVars, delayed, excused>>

\* applyOfferPlan's toReactivate: the same row, offered again.
Renew(s) ==
    /\ signup[s] = "WITHDRAWN"
    /\ signup' = [signup EXCEPT ![s] = "PENDING"]
    /\ excused' = [excused EXCEPT !.rejoined = IF Noticed(s) # {} /\ IsNotifiedSelected(s)
                                               THEN @ \cup {s} ELSE @]
    /\ UNCHANGED <<published, draft, plan, publicPlan, version, row, lane, messageVars, delayed>>

-----------------------------------------------------------------------------
(* The bot. *)

\* discordDeliverAfter has passed for all that waited in a player's quiet hours.
QuietHoursEnd(p) ==
    LET quiet == {k \in Keys : k.signup \in p /\ row[k].status = "QUIET"} IN
    /\ quiet # {}
    /\ row' = [k \in Keys |-> IF k \in quiet THEN [row[k] EXCEPT !.status = "PENDING"] ELSE row[k]]
    /\ UNCHANGED <<lineupVars, lane, messageVars, delayed, excused>>

\* buildPendingNotificationDms: a pick is rendered with the published plan of now.
ListNotices ==
    /\ lane = LaneIdle
    /\ lane' = [LaneIdle EXCEPT !.pc = "listed",
                   !.todo = {[key |-> k, plan |-> publicPlan[k.signup]] :
                                 k \in {j \in Keys : row[j].status = "PENDING"}}]
    /\ lane'.todo # {}
    /\ UNCHANGED <<lineupVars, row, messageVars, delayed, excused>>

\* Faulty variant: the newest first.
FaultyIsNext(i) == i \in lane.todo /\ \A j \in lane.todo : i.key.version >= j.key.version
\* The list is ordered by createdAt.
IsNext(i) == i \in lane.todo /\ \A j \in lane.todo : i.key.version <= j.key.version
After(todo) == IF todo = {} THEN LaneIdle ELSE [pc |-> "listed", todo |-> todo, item |-> NoItem]

\* getNotificationDmDeliveryAuthority
ConfirmDm(i) ==
    /\ lane.pc = "listed" /\ IsNext(i)
    /\ lane' = IF row[i.key].status = "PENDING"
               THEN [pc |-> "confirmed", todo |-> lane.todo \ {i}, item |-> i]
               ELSE After(lane.todo \ {i})
    /\ UNCHANGED <<lineupVars, row, messageVars, delayed, excused>>

\* Discord or the website is unavailable: the row stays PENDING.
DmFails(i) ==
    /\ \/ lane.pc = "listed" /\ IsNext(i)
       \/ lane.pc \in {"confirmed", "sent", "refused"} /\ i = lane.item
    /\ lane' = After(lane.todo \ {i})
    /\ delayed' = delayed \cup {i.key}
    /\ UNCHANGED <<lineupVars, row, messageVars, excused>>

SendDm ==
    /\ lane.pc = "confirmed"
    /\ lane' = [lane EXCEPT !.pc = "sent"]
    /\ LET k == lane.item.key IN
       /\ heard' = IF row[k].type = "removed" THEN heard ELSE [heard EXCEPT ![k.signup] = lane.item.plan]
       /\ newest' = [newest EXCEPT ![k.signup] = IF @ < k.version THEN k.version ELSE @]
    /\ UNCHANGED <<lineupVars, row, delayed, excused>>

\* The player does not take direct messages.
DmIsRefused ==
    /\ lane.pc = "confirmed"
    /\ lane' = [lane EXCEPT !.pc = "refused"]
    /\ UNCHANGED <<lineupVars, row, messageVars, delayed, excused>>

\* updateDiscordDelivery, a compare-and-set on PENDING.
RecordDm ==
    /\ lane.pc \in {"sent", "refused"}
    /\ LET k == lane.item.key IN
       /\ row' = IF row[k].status # "PENDING" THEN row
                 ELSE [row EXCEPT ![k].status = IF lane.pc = "sent" THEN "SENT" ELSE "FAILED_PERMANENT"]
       /\ excused' = IF lane.pc = "refused" /\ row[k].type \in PickTypes
                     THEN [excused EXCEPT !.unheard = @ \cup {k.signup}] ELSE excused
    /\ lane' = After(lane.todo)
    /\ UNCHANGED <<lineupVars, messageVars, delayed>>

BotRestarts ==
    /\ lane # LaneIdle
    /\ lane' = LaneIdle
    /\ UNCHANGED <<lineupVars, row, messageVars, delayed, excused>>

-----------------------------------------------------------------------------
RosterStep == \/ \E chars \in Lineups : \E new \in PlansFor(chars) :
                   SaveRoster(chars, new) \/ UpdateRoster(chars, new)
              \/ SeedDraft
              \/ PublishRoster
              \/ \E s \in Signups : AddBooster(s) \/ Withdraw(s) \/ Renew(s)
BotStep == \/ \E p \in Players : QuietHoursEnd(p)
           \/ ListNotices
           \/ \E i \in Listed : ConfirmDm(i) \/ DmFails(i)
           \/ SendDm
           \/ DmIsRefused
           \/ RecordDm
           \/ BotRestarts
NoticeNext == RosterStep \/ BotStep
NoticeSpec == NoticeInit /\ [][NoticeNext]_noticeVars

-----------------------------------------------------------------------------
(* Properties. *)

\* The type invariant.
NoticeTypeOK == /\ published \in BOOLEAN
                /\ signup \in [Signups -> {"PENDING", "SELECTED", "NOT_SELECTED", "WITHDRAWN"}]
                /\ draft \subseteq Signups
                /\ plan \in [Signups -> BossPlans]
                /\ publicPlan \in [Signups -> BossPlans]
                /\ version \in Versions
                /\ row \in [Keys -> Rows]
                /\ lane \in LaneRows
                /\ heard \in [Signups -> BossPlans]
                /\ newest \in [Signups -> Nat]
                /\ delayed \subseteq Keys
                /\ excused \in Openings

ToldIn(s) == Noticed(s) # {} /\ IsNotifiedSelected(s)

\* What a signup was last told agrees with the roster: who is published and
\* still in the draft was told they are in, unless an Edit Published put them
\* back in silence after a Save that dropped them; and who was told so is in
\* the draft, unless they withdrew or offered again after withdrawing.
NoticesMatchRoster ==
    \A s \in Signups :
        /\ signup[s] = "SELECTED" /\ s \in draft => ToldIn(s) \/ s \in excused.seeded
        /\ ToldIn(s) => s \in draft \/ ~Active(s) \/ s \in excused.rejoined

\* One roster write sends a player at most one message, a change of Character
\* included, unless one of their signups was told of a pick it gave up.
Announced(p) == {k \in Keys : k.signup \in p /\ row[k] = NoRow /\ row'[k].status \in Waiting}
OneMessagePerWrite ==
    [][\A p \in Players : Cardinality(Announced(p)) <= 1 \/ p \cap excused.rejoined # {}]_noticeVars

\* A message older than one the player already had about the same slot goes
\* out only after it waited for quiet hours or an attempt at it failed: the
\* authority asked before each message does not look at what came later.
OldNewsNeedsARetry ==
    [][lane.pc = "confirmed" /\ lane'.pc = "sent" =>
           LET k == lane.item.key IN
           newest[k.signup] > k.version => k \in delayed]_noticeVars

PlanIsMissed(s) == published /\ signup[s] = "SELECTED" /\ heard[s] # publicPlan[s]
                   /\ WaitingPicks(s, PickTypes) = {}

\* A published player who last heard another boss plan than the published one
\* has a message still waiting; otherwise Discord or the settings refused one,
\* they offered again after withdrawing, or the plan changed while the bot had
\* already rendered the message that was to carry it.
PlanIsHeard ==
    \A s \in Signups : PlanIsMissed(s) => s \in excused.overtaken \cup excused.unheard \cup excused.rejoined

\* docs/DEVELOPER.md:2953, roster.repository.ts:1488: an undelivered "Roster
\* Selected" is rendered at delivery and so absorbs a later plan change.
BossPlanIsHeard ==
    \A s \in Signups : PlanIsMissed(s) => s \in excused.unheard \cup excused.rejoined
=============================================================================
