----------------------------- MODULE AIOperation -----------------------------
(***************************************************************************)
(* The AI operations of the workspace (Goal Refine, Action Generate and    *)
(* Action Refine) and everything that races with them: the drafts and      *)
(* cycles they are about being started, completed, abandoned or deleted,   *)
(* the account being deleted, retention cleanup, expired leases, and the   *)
(* server dying between the transaction that accepts an operation and the  *)
(* one that records its result.                                            *)
(*                                                                         *)
(* An action is one committed PostgreSQL transaction (its row locks make   *)
(* it atomic for the rows it reads and writes), or a step of the request   *)
(* goroutine outside a transaction. A transaction the code rolls back      *)
(* changes nothing and is not a step. The two-step finalization, a         *)
(* non-locking read followed by the locked transaction, is two actions.    *)
(***************************************************************************)
EXTENDS Integers, FiniteSets

CONSTANTS
    Users, Goals,
    Gens,            \* generation ids; the request that created one retries it
    Owner,           \* the user a goal (or its creation draft) belongs to
    Months, MonthOf, \* UTC budget month of an instant
    MaxTime,         \* bound: instants are 0..MaxTime
    Lease,           \* AI_LEASE_SECONDS
    Window,          \* AIRollingWindow, 24 hours
    Margin,          \* AIUsageRetentionSafetyMargin, 15 minutes
    Skew,            \* how old the clock reading of a handler may be at commit
    Reservation,     \* maximum cost of an operation, by kind
    MonthlyBudget,   \* AI_MONTHLY_BUDGET_USD
    MaxOps,          \* MaxAIOperationsPer24Hours
    MaxEpoch,        \* bound on the drafts and cycles one goal goes through
    MaxRevision,     \* bound on the edits of one draft or cycle
    NoSnap, NoGoal   \* "no row" and SQL NULL

Kinds == {"goal_refine", "action"}
Times == 0..MaxTime

Phases == {"none", "creation", "active_cycle", "goal_review", "terminal", "gone"}

\* Columns of an ai_generations row that its INSERT fixes; the goroutine that
\* runs the operation holds them in its AISnapshot. `at' is the clock reading
\* the lease, the quota and the budget month are computed from.
Snap == [goal: Goals, kind: Kinds, epoch: Nat, rev: Nat, at: Times]

ASSUME AIAssumption ==
    /\ IsFiniteSet(Gens)
    /\ Owner \in [Goals -> Users]
    /\ Months # {}
    /\ MaxTime \in Nat /\ MonthOf \in [Times -> Months]
    /\ Lease \in Nat /\ Window \in Nat /\ Margin \in Nat /\ Skew \in Nat
    /\ Reservation \in [Kinds -> Nat]
    /\ MonthlyBudget \in Nat /\ MaxOps \in Nat
    /\ MaxEpoch \in Nat /\ MaxRevision \in Nat
    /\ NoGoal \notin Goals /\ NoSnap \notin Snap

GenStatuses == {"absent", "running", "succeeded", "adopted", "failed"}

\* An ai_usage_events row: "closed" stands for succeeded and failed, which no
\* statement tells apart. `final' is provider_usage_finalized_at IS NOT NULL;
\* the settlement month and amount are those of the snapshot until then.
Usage == [status: {"absent", "accepted", "closed"},
          final: BOOLEAN, goalId: Goals \cup {NoGoal}, redacted: BOOLEAN]

NoUsage == [status |-> "absent", final |-> FALSE, goalId |-> NoGoal, redacted |-> FALSE]

NoAnswer == [cost |-> 0, ok |-> FALSE]

VARIABLES
    now,            \* the clock of the servers
    userRow,        \* users: the accounts that exist
    goal,           \* phase, number and content revision of the current
                    \* creation draft, cycle or review draft of a goal
    gen,            \* ai_generations.status; "adopted" is succeeded, adopted_at set
    usage,          \* ai_usage_events
    reserved, actual, unattributed,  \* ai_budget_monthly
    pc, snap, answer,  \* the request goroutine of an operation
    fate            \* history: where the operation's cost was put for good

rows == <<userRow, goal, gen, usage, reserved, actual, unattributed>>
request == <<pc, snap, answer>>
vars == <<now, userRow, goal, gen, usage, reserved, actual, unattributed,
          pc, snap, answer, fate>>

PCs == {"idle", "provider", "answered", "located", "late", "done", "lost"}

TypeOK ==
    /\ now \in Times
    /\ userRow \in [Users -> BOOLEAN]
    /\ goal \in [Goals -> [phase: Phases, epoch: Nat, rev: Nat]]
    /\ gen \in [Gens -> GenStatuses]
    /\ usage \in [Gens -> Usage]
    /\ reserved \in [Months -> Nat]
    /\ actual \in [Months -> Nat]
    /\ unattributed \in [Months -> Nat]
    /\ pc \in [Gens -> PCs]
    /\ snap \in [Gens -> Snap \cup {NoSnap}]
    /\ answer \in [Gens -> [cost: Nat, ok: BOOLEAN]]
    /\ fate \in [Gens -> {"open", "charged", "late", "absorbed"}]

Init ==
    /\ now = 0
    /\ userRow = [u \in Users |-> TRUE]
    /\ goal = [g \in Goals |-> [phase |-> "none", epoch |-> 0, rev |-> 0]]
    /\ gen = [x \in Gens |-> "absent"]
    /\ usage = [x \in Gens |-> NoUsage]
    /\ reserved = [m \in Months |-> 0]
    /\ actual = [m \in Months |-> 0]
    /\ unattributed = [m \in Months |-> 0]
    /\ pc = [x \in Gens |-> "idle"]
    /\ snap = [x \in Gens |-> NoSnap]
    /\ answer = [x \in Gens |-> NoAnswer]
    /\ fate = [x \in Gens |-> "open"]

-----------------------------------------------------------------------------
(***************************************************************************)
(* Rows                                                                    *)
(***************************************************************************)

UserOf(x) == Owner[snap[x].goal]
MonthOfGen(x) == MonthOf[snap[x].at]

\* The clock readings a transaction that commits now may have started from.
Readings == {t \in Times : t <= now /\ now <= t + Skew}

\* Mutant: an expired lease is taken for the end of the operation.
RunningOn_UnexpiredOnly(g) ==
    {x \in Gens : gen[x] = "running" /\ snap[x].goal = g /\ snap[x].at + Lease > now}

\* HasRunningDraftGeneration, HasRunningCycleGeneration, HasRunningGoalGeneration
RunningOn(g) == {x \in Gens : gen[x] = "running" /\ snap[x].goal = g}

\* The draft or cycle the generation is about is still the current one.
OnCurrent(x) ==
    /\ snap[x].epoch = goal[snap[x].goal].epoch
    /\ goal[snap[x].goal].phase \notin {"none", "gone"}

\* The generations LockDraftGenerations finds: those of the current draft.
DraftGens(g) ==
    {x \in Gens : /\ gen[x] # "absent"
                  /\ snap[x].kind = "goal_refine"
                  /\ snap[x].goal = g
                  /\ OnCurrent(x)}

\* LockExpiredGenerations
Expired(u, t) ==
    {x \in Gens : gen[x] = "running" /\ UserOf(x) = u /\ snap[x].at + Lease <= t}

\* Mutant: the action operations are left out.
SumReservations_GoalRefine(S, m) ==
    Reservation["goal_refine"]
        * Cardinality({x \in S : snap[x].kind = "goal_refine" /\ MonthOfGen(x) = m})

\* SumLockedReservationsByMonth over the running generations of S.
SumReservations(S, m) ==
    LET InKind(k) == {x \in S : snap[x].kind = k /\ MonthOfGen(x) = m}
    IN  Reservation["goal_refine"] * Cardinality(InKind("goal_refine"))
            + Reservation["action"] * Cardinality(InKind("action"))

\* Mutant: the row is kept for exactly the window the quota counts.
QuotaRetainUntil_NoMargin(x) == snap[x].at + Window

\* AIUsageQuotaRetainUntil: the quota counts Window, the row is kept longer.
QuotaRetainUntil(x) == snap[x].at + Window + Margin

\* ExpireUsageCAS and FailRunningGoalUsageCAS find the row as Begin left it.
Accepted(x) == usage[x].status = "accepted" /\ ~usage[x].final

\* CountRollingUsage
RollingUsage(u, t) ==
    Cardinality({x \in Gens : /\ usage[x].status # "absent"
                              /\ UserOf(x) = u
                              /\ snap[x].at > t - Window})

\* Mutant: a row outside the quota is deleted although its cost is unknown.
Scrubbed_Unfinalized(x, t) ==
    IF usage[x].status # "absent" /\ QuotaRetainUntil(x) <= t
    THEN NoUsage
    ELSE [usage[x] EXCEPT !.goalId = NoGoal, !.redacted = TRUE]

\* partitionDraftUsages, partitionReviewUsages, partitionGoalDeleteUsages: a
\* finalized row outside the quota is deleted, the others lose their content.
Scrubbed(x, t) ==
    IF usage[x].status # "absent" /\ usage[x].final /\ QuotaRetainUntil(x) <= t
    THEN NoUsage
    ELSE [usage[x] EXCEPT !.goalId = NoGoal, !.redacted = TRUE]

-----------------------------------------------------------------------------
(***************************************************************************)
(* Accepting an operation                                                  *)
(***************************************************************************)

\* Mutant: the usage event is looked up by goal, which a creation draft has not.
CanRecover_ByGoal(E) ==
    /\ \A x \in E : Accepted(x) /\ usage[x].goalId = snap[x].goal
    /\ \A m \in Months : reserved[m] >= SumReservations(E, m)

\* recoverExpiredAI, recoverExpiredActionAI: every CAS has to hit its row.
CanRecover(E) ==
    /\ \A x \in E : Accepted(x)
    /\ \A m \in Months : reserved[m] >= SumReservations(E, m)

RecoveredGen(E) == [x \in Gens |-> IF x \in E THEN "failed" ELSE gen[x]]
RecoveredUsage(E) ==
    [x \in Gens |-> IF x \in E THEN [usage[x] EXCEPT !.status = "closed"] ELSE usage[x]]

\* Mutant: the amounts are those of every usage event that waits for its cost.
RecoveredReserved_ByUsage(E) ==
    [m \in Months |-> reserved[m] - SumReservations(
        {x \in Gens : E # {} /\ usage[x].status # "absent" /\ ~usage[x].final}, m)]

RecoveredReserved(E) == [m \in Months |-> reserved[m] - SumReservations(E, m)]

\* Mutant: the actual cost is forgotten.
Affordable_NoActual(k, m, E) ==
    RecoveredReserved(E)[m] + unattributed[m] + Reservation[k] <= MonthlyBudget

\* exceedsBudget, after the recovery of E.
Affordable(k, m, E) ==
    RecoveredReserved(E)[m] + actual[m] + unattributed[m] + Reservation[k] <= MonthlyBudget

\* The target a new operation of kind k may be started on.
Startable(k, g) ==
    IF k = "action" THEN goal[g].phase = "active_cycle"
                    ELSE goal[g].phase \in {"creation", "goal_review"}

(***************************************************************************)
(* BeginGoalRefine and ActionAIUseCases.begin with a new idempotency key,  *)
(* at the clock reading t: recover the user's expired generations, then    *)
(* refuse a second running generation on the same draft or cycle, a user   *)
(* over the rolling quota and an operation over the monthly budget, then   *)
(* reserve and insert the generation and its usage event.                  *)
(***************************************************************************)
Begin(x, g, k, t) ==
    LET u == Owner[g]
        E == Expired(u, t)
        m == MonthOf[t]
    IN
    /\ pc[x] = "idle"
    /\ userRow[u]
    /\ Startable(k, g)
    /\ CanRecover(E)
    /\ RunningOn(g) \subseteq E
    /\ RollingUsage(u, t) < MaxOps
    /\ Affordable(k, m, E)
    /\ gen' = [RecoveredGen(E) EXCEPT ![x] = "running"]
    /\ usage' = [RecoveredUsage(E) EXCEPT
                    ![x] = [status |-> "accepted", final |-> FALSE,
                            goalId |-> IF goal[g].phase = "creation" THEN NoGoal ELSE g,
                            redacted |-> FALSE]]
    /\ reserved' = [RecoveredReserved(E) EXCEPT ![m] = @ + Reservation[k]]
    /\ pc' = [pc EXCEPT ![x] = "provider"]
    /\ snap' = [snap EXCEPT ![x] = [goal |-> g, kind |-> k, epoch |-> goal[g].epoch,
                                    rev |-> goal[g].rev, at |-> t]]
    /\ UNCHANGED <<now, userRow, goal, actual, unattributed, answer, fate>>

(***************************************************************************)
(* The same request again, with the idempotency key of x. The outcome of   *)
(* x is replayed; what changes is that the user's expired generations are  *)
(* recovered: always by Goal Refine (its draft must still be there), by an *)
(* action operation only when x itself is the expired one.                 *)
(***************************************************************************)
Replay(x, t) ==
    LET E == Expired(UserOf(x), t)
    IN
    /\ gen[x] # "absent"
    /\ userRow[UserOf(x)]
    /\ IF snap[x].kind = "goal_refine" THEN OnCurrent(x) ELSE x \in E
    /\ E # {}
    /\ CanRecover(E)
    /\ gen' = RecoveredGen(E)
    /\ usage' = RecoveredUsage(E)
    /\ reserved' = RecoveredReserved(E)
    /\ UNCHANGED <<now, userRow, goal, actual, unattributed, request, fate>>

-----------------------------------------------------------------------------
(***************************************************************************)
(* The request goroutine outside transactions                              *)
(***************************************************************************)

\* executeAI: all attempts together cost at most the reservation.
ProviderReturns(x, cost, ok) ==
    /\ pc[x] = "provider"
    /\ cost \in 0..Reservation[snap[x].kind]
    /\ pc' = [pc EXCEPT ![x] = "answered"]
    /\ answer' = [answer EXCEPT ![x] = [cost |-> cost, ok |-> ok]]
    /\ UNCHANGED <<now, rows, snap, fate>>

\* The server dies, or finalization fails or outlives its grace period.
Crash(x) ==
    /\ pc[x] \in {"provider", "answered", "located", "late"}
    /\ pc' = [pc EXCEPT ![x] = "lost"]
    /\ answer' = [answer EXCEPT ![x] = NoAnswer]
    /\ UNCHANGED <<now, rows, snap, fate>>

\* FindGenerationLocator, without a lock.
Locate(x) ==
    /\ pc[x] = "answered"
    /\ pc' = [pc EXCEPT ![x] = IF gen[x] = "running" THEN "located" ELSE "late"]
    /\ UNCHANGED <<now, rows, snap, answer, fate>>

-----------------------------------------------------------------------------
(***************************************************************************)
(* Finalization                                                            *)
(***************************************************************************)

\* The user row is there and, behind it, the target and the running generation.
LocksHold(x) ==
    /\ userRow[UserOf(x)]
    /\ OnCurrent(x)
    /\ gen[x] = "running"

\* Mutant: the cost is booked in the month of the answer.
ActualWith_MonthOfAnswer(x) == [actual EXCEPT ![MonthOf[now]] = @ + answer[x].cost]

\* SettleBudgetCAS, AddLateActualCostCAS: the month is that of the reservation.
ActualWith(x) == [actual EXCEPT ![MonthOfGen(x)] = @ + answer[x].cost]

\* The result of an action operation is written to its cycle, and only then is
\* the operation a success; a suggestion for a goal is only kept.
FinishNormally(x) ==
    LET m == MonthOfGen(x)
        kind == snap[x].kind
        conflict == IF kind = "action" THEN goal[snap[x].goal].phase # "active_cycle"
                    ELSE goal[snap[x].goal].phase \notin {"creation", "goal_review"}
        status == IF answer[x].ok /\ ~conflict THEN "succeeded" ELSE "failed"
    IN
    /\ pc[x] = "located"
    /\ LocksHold(x)
    /\ Accepted(x)
    /\ reserved[m] >= Reservation[kind]
    /\ goal' = IF kind = "action" /\ status = "succeeded"
               THEN [goal EXCEPT ![snap[x].goal].rev = @ + 1]
               ELSE goal
    /\ gen' = [gen EXCEPT ![x] = status]
    /\ usage' = [usage EXCEPT ![x].status = "closed", ![x].final = TRUE]
    /\ reserved' = [reserved EXCEPT ![m] = @ - Reservation[kind]]
    /\ actual' = ActualWith(x)
    /\ fate' = [fate EXCEPT ![x] = "charged"]
    /\ pc' = [pc EXCEPT ![x] = "done"]
    /\ UNCHANGED <<now, userRow, unattributed, snap, answer>>

\* Mutant: the late settlement looks for the row as Begin left it.
AwaitsCost_Accepted(x) == Accepted(x)

\* FinalizeLateUsageCAS: the cost of the event is not known yet.
AwaitsCost(x) == usage[x].status # "absent" /\ ~usage[x].final

\* settleLateUsage, settleLateActionAIUsage: the cost is added if the usage
\* event still waits for it, and nothing else is touched.
SettleLate(x) ==
    /\ pc[x] = "late" \/ (pc[x] = "located" /\ userRow[UserOf(x)] /\ ~LocksHold(x))
    /\ IF AwaitsCost(x)
       THEN /\ actual' = ActualWith(x)
            /\ usage' = [usage EXCEPT ![x].status = "closed", ![x].final = TRUE]
            /\ fate' = [fate EXCEPT ![x] = "late"]
       ELSE UNCHANGED <<actual, usage, fate>>
    /\ pc' = [pc EXCEPT ![x] = "done"]
    /\ UNCHANGED <<now, userRow, goal, gen, reserved, unattributed, snap, answer>>

\* The account was deleted after the locator was read: LockUser fails.
FinishWithoutUser(x) ==
    /\ pc[x] = "located"
    /\ ~userRow[UserOf(x)]
    /\ pc' = [pc EXCEPT ![x] = "done"]
    /\ UNCHANGED <<now, rows, snap, answer, fate>>

-----------------------------------------------------------------------------
(***************************************************************************)
(* The drafts, cycles and goals the operations are about                   *)
(***************************************************************************)

\* The current draft or cycle of g is replaced by a new one.
Moves(g, phase) ==
    /\ goal[g].epoch < MaxEpoch
    /\ goal' = [goal EXCEPT ![g] = [phase |-> phase, epoch |-> @.epoch + 1, rev |-> 0]]

\* CreateDraft: at most one creation draft per user.
CreateDraft(g) ==
    /\ userRow[Owner[g]]
    /\ goal[g].phase = "none"
    /\ \A h \in Goals : Owner[h] = Owner[g] => goal[h].phase # "creation"
    /\ goal' = [goal EXCEPT ![g].phase = "creation"]
    /\ UNCHANGED <<now, userRow, gen, usage, reserved, actual, unattributed, request, fate>>

\* SaveDraft, SaveReview, SaveFrame: only the action frame waits for the AI.
SaveContent(g, frame) ==
    /\ goal[g].phase \in {"creation", "active_cycle", "goal_review"}
    /\ goal[g].phase = "active_cycle" /\ frame = "action" => RunningOn(g) = {}
    /\ goal[g].rev < MaxRevision
    /\ goal' = [goal EXCEPT ![g].rev = @ + 1]
    /\ UNCHANGED <<now, userRow, gen, usage, reserved, actual, unattributed, request, fate>>

\* AdoptGoalSuggestion of a suggestion that was not adopted before: the draft
\* holds the text the suggestion was made for. The texts are not kept here; a
\* later revision may have left that text alone or brought it back.
AdoptGoalSuggestion(x) ==
    LET g == snap[x].goal IN
    /\ gen[x] = "succeeded"
    /\ snap[x].kind = "goal_refine"
    /\ OnCurrent(x)
    /\ userRow[UserOf(x)]
    /\ goal[g].phase \in {"creation", "goal_review"}
    /\ snap[x].rev <= goal[g].rev
    /\ goal[g].rev < MaxRevision
    /\ goal' = [goal EXCEPT ![g].rev = @ + 1]
    /\ gen' = [gen EXCEPT ![x] = "adopted"]
    /\ UNCHANGED <<now, userRow, usage, reserved, actual, unattributed, request, fate>>

\* AttachUsageToGoal for the generations of the current draft.
Attached(g) ==
    [x \in Gens |-> IF x \in DraftGens(g) /\ usage[x].status # "absent"
                    THEN [usage[x] EXCEPT !.goalId = g] ELSE usage[x]]

\* StartGoal: the draft becomes a goal with its first cycle and keeps the
\* generations, whose usage events must all be there (requireRows).
StartGoal(g) ==
    /\ userRow[Owner[g]]
    /\ goal[g].phase = "creation"
    /\ RunningOn(g) = {}
    /\ \A x \in DraftGens(g) : usage[x].status # "absent"
    /\ Moves(g, "active_cycle")
    /\ usage' = Attached(g)
    /\ UNCHANGED <<now, userRow, gen, reserved, actual, unattributed, request, fate>>

\* The draft goes, and with it the generations made for it.
DropDraftGens(g, t) ==
    /\ gen' = [x \in Gens |-> IF x \in DraftGens(g) THEN "absent" ELSE gen[x]]
    /\ usage' = [x \in Gens |->
                    IF x \in DraftGens(g) /\ usage[x].status # "absent"
                    THEN Scrubbed(x, t) ELSE usage[x]]

\* AbandonDraft
AbandonDraft(g, t) ==
    /\ userRow[Owner[g]]
    /\ goal[g].phase = "creation"
    /\ RunningOn(g) = {}
    /\ DropDraftGens(g, t)
    /\ goal' = [goal EXCEPT ![g].phase = "gone"]
    /\ UNCHANGED <<now, userRow, reserved, actual, unattributed, request, fate>>

\* CompleteCycle: the cycle is completed and a review draft is created.
CompleteCycle(g) ==
    /\ userRow[Owner[g]]
    /\ goal[g].phase = "active_cycle"
    /\ RunningOn(g) = {}
    /\ Moves(g, "goal_review")
    /\ UNCHANGED <<now, userRow, gen, usage, reserved, actual, unattributed, request, fate>>

\* ReplanCycle: the cycle is canceled and the next one is started.
ReplanCycle(g) ==
    /\ userRow[Owner[g]]
    /\ goal[g].phase = "active_cycle"
    /\ RunningOn(g) = {}
    /\ Moves(g, "active_cycle")
    /\ UNCHANGED <<now, userRow, gen, usage, reserved, actual, unattributed, request, fate>>

\* ContinueReview: the review ends in a new cycle and keeps its generations.
\* It takes no lock on the user; usage events cleanup removed are tolerated.
ContinueReview(g) ==
    /\ goal[g].phase = "goal_review"
    /\ RunningOn(g) = {}
    /\ Moves(g, "active_cycle")
    /\ usage' = Attached(g)
    /\ UNCHANGED <<now, userRow, gen, reserved, actual, unattributed, request, fate>>

\* Terminate, from the active cycle (its generations stay with the goal) or
\* from the review (the generations of the review draft go).
Terminate(g, t) ==
    /\ userRow[Owner[g]]
    /\ goal[g].phase \in {"active_cycle", "goal_review"}
    /\ RunningOn(g) = {}
    /\ IF goal[g].phase = "goal_review" THEN DropDraftGens(g, t)
                                        ELSE UNCHANGED <<gen, usage>>
    /\ Moves(g, "terminal")
    /\ UNCHANGED <<now, userRow, reserved, actual, unattributed, request, fate>>

(***************************************************************************)
(* DeleteGoal does not wait for running generations: it releases their     *)
(* reservations, fails them, takes the content from (or deletes) the usage *)
(* events of the goal and deletes the goal with everything below it.       *)
(***************************************************************************)
DeleteGoal(g, t) ==
    LET R == RunningOn(g) IN
    /\ userRow[Owner[g]]
    /\ goal[g].phase \in {"active_cycle", "goal_review", "terminal"}
    /\ \A x \in R : Accepted(x) /\ usage[x].goalId = g
    /\ \A m \in Months : reserved[m] >= SumReservations(R, m)
    /\ reserved' = RecoveredReserved(R)
    /\ gen' = [x \in Gens |->
                  IF gen[x] # "absent" /\ snap[x].goal = g THEN "absent" ELSE gen[x]]
    /\ usage' = [x \in Gens |->
                    IF x \in R
                    THEN [usage[x] EXCEPT !.goalId = NoGoal, !.status = "closed", !.redacted = TRUE]
                    ELSE IF usage[x].status # "absent" /\ usage[x].goalId = g
                         THEN Scrubbed(x, t) ELSE usage[x]]
    /\ goal' = [goal EXCEPT ![g].phase = "gone"]
    /\ UNCHANGED <<now, userRow, actual, unattributed, request, fate>>

\* Mutant: running generations are in both halves.
ReleasedExposures_WithRunning(S) ==
    {x \in S : usage[x].status # "absent" /\ ~usage[x].final}

\* The second half of ListAccountMonthlyExposures: usage events that wait for
\* their cost and whose generation no longer holds a reservation.
ReleasedExposures(S) ==
    {x \in S : usage[x].status # "absent" /\ ~usage[x].final /\ gen[x] # "running"}

(***************************************************************************)
(* DeleteAccount removes the user and every row below it. The reservations *)
(* of running generations move to the unattributed cost, and the amount of *)
(* usage events that lost their generation is added to it.                 *)
(***************************************************************************)
DeleteAccount(u) ==
    LET Mine == {x \in Gens : pc[x] # "idle" /\ UserOf(x) = u}
        R == {x \in Mine : gen[x] = "running"}
        Exposed == ReleasedExposures(Mine)
    IN
    /\ userRow[u]
    /\ \A m \in Months : reserved[m] >= SumReservations(R, m)
    /\ reserved' = RecoveredReserved(R)
    /\ unattributed' = [m \in Months |->
           unattributed[m] + SumReservations(R, m) + SumReservations(Exposed, m)]
    /\ userRow' = [userRow EXCEPT ![u] = FALSE]
    /\ goal' = [g \in Goals |->
                   IF Owner[g] = u THEN [goal[g] EXCEPT !.phase = "gone"] ELSE goal[g]]
    /\ gen' = [x \in Gens |-> IF x \in Mine THEN "absent" ELSE gen[x]]
    /\ usage' = [x \in Gens |-> IF x \in Mine THEN NoUsage ELSE usage[x]]
    /\ fate' = [x \in Gens |-> IF x \in R \cup Exposed THEN "absorbed" ELSE fate[x]]
    /\ UNCHANGED <<now, actual, request>>

\* DeleteCleanupAIUsageEventsBatch: content-free, finalized, out of the quota.
Removable(x, t) ==
    /\ usage[x].status # "absent"
    /\ usage[x].redacted
    /\ usage[x].final
    /\ QuotaRetainUntil(x) <= t

Cleanup(t) ==
    \E S \in SUBSET {x \in Gens : Removable(x, t)} :
        /\ S # {}
        /\ usage' = [x \in Gens |-> IF x \in S THEN NoUsage ELSE usage[x]]
        /\ UNCHANGED <<now, userRow, goal, gen, reserved, actual, unattributed, request, fate>>

Tick ==
    /\ now < MaxTime
    /\ now' = now + 1
    /\ UNCHANGED <<rows, request, fate>>

RequestStep(x) ==
    \/ \E cost \in 0..Reservation[snap[x].kind], ok \in BOOLEAN :
           ProviderReturns(x, cost, ok)
    \/ Locate(x)
    \/ FinishNormally(x)
    \/ SettleLate(x)
    \/ FinishWithoutUser(x)

Next ==
    \/ \E x \in Gens, g \in Goals, k \in Kinds, t \in Readings : Begin(x, g, k, t)
    \/ \E x \in Gens, t \in Readings : Replay(x, t)
    \/ \E x \in Gens : pc[x] # "idle" /\ RequestStep(x)
    \/ \E x \in Gens : Crash(x)
    \/ \E x \in Gens : AdoptGoalSuggestion(x)
    \/ \E g \in Goals : CreateDraft(g)
    \/ \E g \in Goals, frame \in {"action", "other"} : SaveContent(g, frame)
    \/ \E g \in Goals : StartGoal(g)
    \/ \E g \in Goals, t \in Readings : AbandonDraft(g, t)
    \/ \E g \in Goals : CompleteCycle(g)
    \/ \E g \in Goals : ReplanCycle(g)
    \/ \E g \in Goals : ContinueReview(g)
    \/ \E g \in Goals, t \in Readings : Terminate(g, t)
    \/ \E g \in Goals, t \in Readings : DeleteGoal(g, t)
    \/ \E u \in Users : DeleteAccount(u)
    \/ \E t \in Readings : Cleanup(t)
    \/ Tick

Spec == Init /\ [][Next]_vars

\* The request goroutine goes on unless the server dies, and the clock runs.
RequestFairness ==
    /\ \A x \in Gens : WF_vars(pc[x] # "idle" /\ RequestStep(x))
    /\ WF_vars(Tick)

\* A client that got no answer sends its request again with the same key.
ClientFairness == \A x \in Gens : WF_vars(Replay(x, now))

FairSpec == Spec /\ RequestFairness /\ ClientFairness

-----------------------------------------------------------------------------
(***************************************************************************)
(* The cost ledger this module implements                                  *)
(***************************************************************************)

\* Where the accounting of operation x stands.
PlaceOf(x) ==
    IF pc[x] = "idle" THEN "none"
    ELSE IF fate[x] # "open" THEN fate[x]
    ELSE IF gen[x] = "running" THEN "reserved" ELSE "exposed"

EntryOf(x) ==
    IF pc[x] = "idle"
    THEN [place |-> "none", kind |-> "action", month |-> MonthOf[0]]
    ELSE [place |-> PlaceOf(x), kind |-> snap[x].kind, month |-> MonthOfGen(x)]

Ledger == INSTANCE AILedger WITH
              Budget <- MonthlyBudget, entry <- [x \in Gens |-> EntryOf(x)]

(***************************************************************************)
(* Every committed transaction moves the budget columns exactly as the     *)
(* ledger allows: an operation is charged, settled late or absorbed once,  *)
(* whatever the order of the answer, the lease recovery, the deletions and *)
(* the retries (FinishGoalRefine, Finish, recoverExpiredAI, DeleteGoal,    *)
(* DeleteAccount).                                                         *)
(***************************************************************************)
LedgerSpec == Ledger!Spec

(***************************************************************************)
(* The reserved cost of a month is exactly the maximum cost of the         *)
(* operations that still run, and its unattributed cost exactly that of    *)
(* those that went with their account: through lease recovery, late        *)
(* answers and deletions nothing is reserved or given back twice, and      *)
(* nothing leaks (ai_budget_monthly).                                      *)
(***************************************************************************)
Balanced == Ledger!Balanced

(***************************************************************************)
(* A month counts more than the budget only by costs that became known     *)
(* after their reservation had been given back, or that went with their    *)
(* account: exceedsBudget of a later operation could not see them.         *)
(***************************************************************************)
WithinBudget == Ledger!WithinBudget

(***************************************************************************)
(* As long as the cost of an accepted operation is unknown its usage event *)
(* is there to receive it: no draft, goal or retention cleanup deletes an  *)
(* event before provider_usage_finalized_at is set, and once it is set the *)
(* cost has been counted.                                                  *)
(***************************************************************************)
ExposureKept ==
    \A x \in Gens : pc[x] # "idle" =>
        (fate[x] = "open" <=> AwaitsCost(x))

(***************************************************************************)
(* A running generation is about the current draft or active cycle of its  *)
(* goal, of a living user, and is the only one: no transition moves on     *)
(* under a running generation, and the lease recovery makes room for at    *)
(* most one successor.                                                     *)
(***************************************************************************)
RunningTargetCurrent ==
    \A x \in Gens : gen[x] = "running" =>
        /\ userRow[UserOf(x)]
        /\ OnCurrent(x)
        /\ Startable(snap[x].kind, snap[x].goal)
        /\ \A y \in Gens :
               gen[y] = "running" /\ snap[y].goal = snap[x].goal => y = x

(***************************************************************************)
(* In no window of AIRollingWindow has a user more accepted operations     *)
(* than the limit, counted from the operations themselves and not from the *)
(* usage events that survive: deletions, retention cleanup and clock       *)
(* readings that are up to Skew old never give quota back.                 *)
(***************************************************************************)
RollingQuota ==
    \A u \in Users, s \in Times :
        Cardinality({x \in Gens : /\ pc[x] # "idle"
                                  /\ UserOf(x) = u
                                  /\ snap[x].at \in (s - Window + 1)..s}) <= MaxOps

(***************************************************************************)
(* The cost of an operation whose server survives is settled, late or not, *)
(* or was absorbed by the deletion of the account.                         *)
(***************************************************************************)
CostIsSettled ==
    \A x \in Gens : pc[x] = "provider" ~> (fate[x] # "open" \/ pc[x] = "lost")

(***************************************************************************)
(* An operation whose server died stops blocking its draft or cycle once   *)
(* its lease is over and its client asks again with the same key.          *)
(***************************************************************************)
LeaseIsRecovered ==
    \A x \in Gens :
        (gen[x] = "running" /\ snap[x].at + Lease <= now) ~> gen[x] # "running"

=============================================================================
