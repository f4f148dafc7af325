---------------------------- MODULE Transactions ----------------------------
(***************************************************************************)
(* The transactions of the server: every use case that writes, as the      *)
(* sequence of statements it sends when nothing refuses it.  A statement   *)
(* says itself where the use case goes when its answer is another one:     *)
(* parameters named late, lost, replay and so on are the names of the      *)
(* programs it continues with.                                             *)
(***************************************************************************)
EXTENDS AIUnitsOfWork

CONSTANTS GoalLimit,    \* limits.MaxProgressingGoals
          UsageLimit,   \* limits.MaxAIOperationsPer24Hours
          RateLimit,    \* the limit of every minute bucket
          BudgetLimit   \* reservations the monthly budget has room for

ASSUME LimitsAreNaturals == {GoalLimit, UsageLimit, RateLimit, BudgetLimit} \subseteq Nat

\* ------------------------------------------------------------------ drafts

CreateDraft(user, id) ==
    LockUser(user) \o FindCreationDraft(user, "commit") \o InsertCreationDraft(user, id)

SaveDraft(user, draft, rev, signal) ==
    LockDraftByID(user, draft, "creation", rev) \o SaveDraftCAS(user, draft, "creation", signal)

\* Mutant: the draft is locked before its goal.
MutSaveReview(user, goal, draft, rev, signal) ==
    LockDraftByID(user, draft, "review", rev)
        \o LockGoalWithCurrentVersion(user, goal, [status |-> {"goal_review"}], "refused", "refused")
        \o SaveDraftCAS(user, draft, "review", signal)

SaveReview(user, goal, draft, rev, signal) ==
    LockGoalWithCurrentVersion(user, goal, [status |-> {"goal_review"}], "refused", "refused")
        \o LockDraftByID(user, draft, "review", rev) \o SaveDraftCAS(user, draft, "review", signal)

\* What becomes of the usages and generations of a draft that is given up.
DiscardDraftContents(user, draft) ==
    RedactDraftUsagesCAS(user) \o DeleteExpiredFinalizedDraftUsagesCAS(user)
        \o DeleteDraftGenerationsCAS(user, draft)

AbandonDraft(user, draft, rev) ==
    LockUser(user) \o LockDraftByID(user, draft, "creation", rev)
        \o LockDraftGenerations(user, draft) \o LockDraftUsages(user)
        \o DiscardDraftContents(user, draft) \o DeleteCreationDraftCAS(user, draft)

\* ------------------------------------------------------------------- goals

CheckStartRateLimits(buckets) ==
    IncrementRateBucket(buckets[1], RateLimit) \o IncrementRateBucket(buckets[2], RateLimit)

\* goal, version and cycle are the new ids.
InsertInitialAggregate(user, goal, version, cycle, op, lost) ==
    InsertInitialGoal(user, goal) \o InsertInitialVersion(user, goal, version, op, TRUE)
        \o TryInsertInitialCycleClaim(user, goal, version, cycle, op, lost)

\* Two of the same request: the second one finds the cycle the first started.
StartGoal(user, draft, rev, id, op, buckets, replay, lost) ==
    LockUser(user) \o FindStartReplay(user, op, replay) \o LockDraftByID(user, draft, "creation", rev)
        \o LockDraftGenerations(user, draft) \o CountProgressingGoals(user, GoalLimit)
        \o CheckStartRateLimits(buckets) \o InsertInitialAggregate(user, id, id, id, op, lost)
        \o AttachDraftGenerations(user, draft, id, id) \o AttachUsageToGoal(user, id, "generations")
        \o DeleteCreationDraftCAS(user, draft)
        \o LoadGoalView(user, id, "refused") \o LoadCycleView(user, id, id, "cycle", "refused")

ReplayStart(user) == LoadReceiptGoalView(user, "refused") \o LoadReceiptCycleView(user, "refused")

\* A lost claim must be that of an operation that has committed, and of
\* another request: the locks keep an equal one out.
ClassifyLostStart(user, op) == <<One(Cycles!FindStartReplay(user, op), "error"),
                                 None(Cycles!FindStartReplay(user, op), "refused")>>

ClassifyLostClaim(user, goal, op) ==
    FindReplanCycleReceipt(user, goal, op, "error") \o <<One(Cycles!FindStartReplay(user, op), "error")>>

DeleteGoal(user, goal, rev, id, op) ==
    LockUser(user) \o FindGoalDeleteReceipt(user, op, "commit") \o LockGoalForDelete(user, goal, rev)
        \o LockGoalDraftIDs(user, goal) \o LockGoalCycleIDs(user, goal)
        \o LockRunningGoalGenerations(user, goal) \o SumLockedGoalReservationsByMonth(user, goal)
        \o ReleaseBudgetReservationCAS \o TerminalizeGoalGenerationCAS(user, goal)
        \o FailRunningGoalUsageCAS(user, goal) \o LockGoalUsages(user, goal)
        \o RedactGoalUsagesCAS(user, goal) \o DeleteExpiredFinalizedGoalUsagesCAS(user, goal)
        \o DeleteGoalCAS(user, goal) \o InsertGoalDeleteReceipt(user, id, op)

\* ------------------------------------------------------------------ cycles

\* Only a save of the action asks for running generations.  The format of
\* the locked row decides which of the two programs goes on.
SaveFrame(user, goal, cycle, frame, rev, legacy) ==
    <<Check(One(Goals!LockGoalForTransition(user, goal), "refused"), [status |-> {"active_cycle"}])>>
        \o LockCycle(user, goal, cycle, (frame :> {rev}) @@ [status |-> {"active"}])
        \o (IF frame = "action" THEN HasRunningCycleGeneration(user, goal, cycle) ELSE <<>>)
        \o <<Differs(Check(Select("cycles", [id |-> {cycle}]), [format |-> {"encrypted"}]), legacy)>>
        \o SaveCycleFrameCAS(user, goal, cycle, frame)

ChangeReviewSchedule(user, goal, cycle, rev) ==
    <<Check(One(Goals!LockGoalForTransition(user, goal), "refused"), [status |-> {"active_cycle"}])>>
        \o LockCycle(user, goal, cycle, [status |-> {"active"}])
        \o <<Check(Select("schedules", [id |-> {cycle}]), [rev |-> {rev}])>>
        \o SaveCycleReviewScheduleCAS(cycle, rev)
        \o Agreeing(LoadCycleView(user, goal, cycle, "cycle", "refused"), "cycle")

\* A replayed operation locks the goal and answers with what is stored.
LockReplayed(user, goal) == <<One(Goals!LockGoalForTransition(user, goal), "refused")>>

ReplayComplete(user, goal, cycle) ==
    LockReplayed(user, goal) \o LoadGoalView(user, goal, "error")
        \o LoadCycleView(user, goal, cycle, "cycle", "error")
        \o Agreeing(FindReviewDraftByCycle(user, goal, cycle, "next"), "completed before")

ReplayReplan(user, goal, cycle) ==
    LockReplayed(user, goal) \o LoadCycleView(user, goal, cycle, "canceled", "error")
        \o LoadGoalView(user, goal, "error")
        \o Agreeing(LoadReceiptCycleView(user, "error"), "replanned before")

\* The code also looks for the receipt before it locks the user, and does
\* nothing with the answer.
CompleteCycle(user, goal, cycle, rev, content, id, op, replay) ==
    LockUser(user) \o FindCompleteCycleReceipt(user, goal, cycle, op, replay)
        \o LockGoal(user, goal, "active_cycle", rev)
        \o LockCycle(user, goal, cycle, [status |-> {"active"}, rev |-> {content}])
        \o LoadCurrentGoalVersion(user, goal) \o HasRunningCycleGeneration(user, goal, cycle)
        \o CompleteCycleCAS(user, goal, cycle, op) \o InsertReviewDraft(user, goal, cycle, id, TRUE)
        \o EnterGoalReviewCAS(user, goal) \o LoadCycleView(user, goal, cycle, "cycle", "error")
        \o LoadGoalView(user, goal, "error")
        \o Agreeing(FindReviewDraftByCycle(user, goal, cycle, "error"), "completed")

ReplanCycle(user, goal, cycle, rev, content, id, op, replay, lost) ==
    LockUser(user) \o FindReplanCycleReceipt(user, goal, op, replay)
        \o LockGoal(user, goal, "active_cycle", rev)
        \o LockCycle(user, goal, cycle, [status |-> {"active"}, rev |-> {content}])
        \o LoadCurrentGoalVersion(user, goal) \o HasRunningCycleGeneration(user, goal, cycle)
        \o CancelCycleCAS(user, goal, cycle, "replanned") \o TryInsertCycleClaim(user, goal, id, op, lost)
        \o ReplanGoalCAS(user, goal) \o LoadCycleView(user, goal, cycle, "canceled", "error")
        \o LoadGoalView(user, goal, "error")
        \o Agreeing(LoadCycleView(user, goal, id, "cycle", "error"), "replanned")

\* ----------------------------------------------------------------- reviews

\* A goal in review has its draft: a missing one is an invariant error.
LockReview(user, goal, rev, draft) ==
    LockGoal(user, goal, "goal_review", rev) \o LockReviewDraftByGoal(user, goal, "error")
        \o LockDraftGenerations(user, draft) \o LockDraftUsages(user) \o LoadCurrentGoalVersion(user, goal)

\* The only transition that does not lock the user.  An edited review makes
\* a new version.
ContinueReview(user, goal, rev, draft, id, op, replay, lost, edited) ==
    FindContinueReviewReceipt(user, goal, op, replay)
        \o <<One(Goals!LockGoalForTransition(user, goal), "refused")>>
        \o FindContinueReviewReceipt(user, goal, op, replay) \o LockReview(user, goal, rev, draft)
        \o (IF edited THEN InsertGoalVersion(user, goal, id, op, TRUE)
                           \o TryInsertEditedCycleClaim(user, goal, id, id, op, lost)
                           \o ContinueGoalCAS(user, goal, TRUE)
                           \o AttachDraftGenerations(user, draft, goal, id)
                      ELSE TryInsertCycleClaim(user, goal, id, op, lost)
                           \o ContinueGoalCAS(user, goal, FALSE)
                           \o AttachDraftGenerationsToCurrent(user, draft, goal))
        \o AttachUsageToGoal(user, goal, "usages") \o DeleteReviewDraftCAS(user, draft)
        \o LoadGoalView(user, goal, "error")
        \o Agreeing(LoadCycleView(user, goal, id, "cycle", "error"), "continued")

ReplayContinue(user, goal) ==
    LockReplayed(user, goal) \o LoadGoalView(user, goal, "error")
        \o Agreeing(LoadReceiptCycleView(user, "error"), "cycle")

Terminate(user, goal, op, replay) ==
    LockUser(user) \o FindGoalTerminationReceipt(user, goal, op, replay)

\* cycle is the one the request wanted to cancel, 0 for a goal in review.
ReplayTerminate(user, goal, cycle) ==
    LockReplayed(user, goal)
        \o Agreeing(LoadGoalView(user, goal, "error")
                      \o (IF cycle = 0 THEN <<>> ELSE LoadCycleView(user, goal, cycle, "canceled", "error")),
                  "terminated before")

TerminateActiveCycle(user, goal, cycle, rev, content, op, replay) ==
    Terminate(user, goal, op, replay) \o LockGoal(user, goal, "active_cycle", rev)
        \o LockCycle(user, goal, cycle, [status |-> {"active"}, rev |-> {content}])
        \o HasRunningGoalGeneration(user, goal) \o CancelCycleCAS(user, goal, cycle, "goal_ended")
        \o TerminateGoalCAS(user, goal, op) \o LoadGoalView(user, goal, "error")
        \o Agreeing(LoadCycleView(user, goal, cycle, "canceled", "error"), "terminated")

TerminateGoalReview(user, goal, rev, draft, op, replay) ==
    Terminate(user, goal, op, replay) \o LockReview(user, goal, rev, draft)
        \o DiscardDraftContents(user, draft) \o DeleteReviewDraftCAS(user, draft)
        \o TerminateGoalCAS(user, goal, op) \o Agreeing(LoadGoalView(user, goal, "error"), "terminated")

\* --------------------------------------------------------------------- AI

\* Generations whose lease has expired are failed and their reservations
\* given back, month by month.
RecoverExpiredAI(user) ==
    LockExpiredGenerations(user) \o SumLockedReservationsByMonth \o ReleaseBudgetReservationCAS
        \o ExpireGenerationCAS(user) \o ExpireUsageCAS

CheckAIRateLimits(buckets) ==
    CheckStartRateLimits(buckets) \o IncrementRateBucket(buckets[3], RateLimit)

ReserveBudget(user, month, buckets) ==
    CountRollingUsage(user, UsageLimit) \o EnsureBudgetMonth(month) \o LockBudgetMonth(month, BudgetLimit)
        \o CheckAIRateLimits(buckets) \o ReserveBudgetCAS(month)

\* The draft is a creation draft, or that of a goal under review.
BeginGoalRefine(user, draft, rev, goal, version, id, month, op, buckets) ==
    LockUser(user)
        \o (IF goal = 0 THEN <<>>
            ELSE LockGoalWithCurrentVersion(user, goal, [status |-> {"goal_review"}], "refused", "refused"))
        \o <<One(Goals!LockDraftByID(user, draft), "refused")>>
        \o RecoverExpiredAI(user) \o FindGoalRefineReplay(user, op, "commit")
        \o <<Check(Exists("drafts", [id |-> {draft}]), [rev |-> {rev}])>>
        \o (IF goal = 0 THEN <<>> ELSE ListAIContextCycles(user, goal, 0))
        \o HasRunningDraftGeneration(draft) \o ReserveBudget(user, month, buckets)
        \o InsertGoalRefineGeneration(id, user, draft, goal, version, month, op)
        \o InsertAcceptedUsage(id, user, goal, month)

BeginActionAI(user, type, goal, cycle, version, content, id, month, op, buckets, replay) ==
    LockUser(user) \o FindActionAIReplay(user, type, op, replay)
        \o LockGoalWithCurrentVersion(user, goal, [status |-> {"active_cycle"}], "refused", "refused")
        \o LockActionCycle(user, goal, cycle, [status |-> {"active"}], "refused", "refused")
        \o RecoverExpiredAI(user)
        \o <<Check(Exists("cycles", [id |-> {cycle}]), [version |-> {version}, rev |-> {content}])>>
        \o ListAIContextCycles(user, goal, cycle)
        \o HasRunningActionGeneration(user, goal, cycle) \o ReserveBudget(user, month, buckets)
        \o InsertActionAIGeneration(id, user, type, goal, cycle, version, month, op)
        \o InsertAcceptedUsage(id, user, goal, month)

\* A replay of a generation whose lease has expired recovers it first.
ReplayActionAI(user, type, op, goal, cycle) ==
    <<One(Where(Exists("generations", [user |-> {user}, type |-> {type}, op |-> {op}]),
                [status |-> {"running"}, lease |-> {"expired"}]), "commit")>>
        \o LockGoalWithCurrentVersion(user, goal, <<>>, "refused", "refused")
        \o LockActionCycle(user, goal, cycle, <<>>, "refused", "refused") \o RecoverExpiredAI(user)

\* The outcome of the provider is stored, the reservation becomes a cost and
\* the usage is final.
SettleGoalRefine(generation, month, status) ==
    TerminalizeGenerationCAS(generation, status) \o SettleBudgetCAS(month)
        \o FinalizeUsageCAS(generation, month, status)

SettleActionAI(type, generation, month, status) ==
    TerminalizeActionAIGenerationCAS(type, generation, status) \o SettleBudgetCAS(month)
        \o FinalizeUsageCAS(generation, month, status)

\* late takes no lock yet; lateLocked already has the user.
FinishGoalRefine(user, draft, goal, generation, month, status, late, lateLocked, failed) ==
    FindGenerationLocator(generation, late) \o LockUser(user)
        \o (IF goal = 0 THEN <<>>
            ELSE LockGoalWithCurrentVersion(user, goal, [status |-> {"goal_review"}], lateLocked, failed))
        \o <<One(Goals!LockDraftByID(user, draft), lateLocked)>>
        \o LockGoalRefineGeneration(user, draft, generation, lateLocked)
        \o SettleGoalRefine(generation, month, status)

FailGoalRefine(user, draft, generation, month, lateLocked) ==
    <<One(Goals!LockDraftByID(user, draft), lateLocked)>>
        \o LockGoalRefineGeneration(user, draft, generation, lateLocked)
        \o SettleGoalRefine(generation, month, "failed")

\* The generation is locked after goal and cycle; a target that has moved on
\* fails it, a generation that is no longer running is settled late.
FinishActionAI(user, type, goal, cycle, legacy, generation, month, late, lateLocked, failed) ==
    FindGenerationLocator(generation, late) \o LockUser(user)
        \o LockGoalWithCurrentVersion(user, goal, [status |-> {"active_cycle"}], lateLocked, failed)
        \o LockActionCycle(user, goal, cycle, [status |-> {"active"}], lateLocked, failed)
        \o LockActionAIGeneration(user, goal, cycle, type, generation, lateLocked)
        \o ApplyActionAICAS(user, goal, cycle, legacy)
        \o SettleActionAI(type, generation, month, "succeeded")

FailActionAI(user, type, goal, cycle, generation, month, lateLocked) ==
    LockActionCycle(user, goal, cycle, <<>>, lateLocked, "refused")
        \o LockActionAIGeneration(user, goal, cycle, type, generation, lateLocked)
        \o SettleActionAI(type, generation, month, "failed")

\* An answer that comes too late still costs: the month of the usage is
\* charged, unless the usage is final or gone.
SettleLateUsage(user, generation, month) ==
    LockUsage(user, generation) \o EnsureBudgetMonth(month) \o AddLateActualCostCAS(month)
        \o FinalizeLateUsageCAS(generation, month)

SettleLate(user, generation, month) ==
    FindUsageLocator(generation) \o <<One(Accounts!LockUser(user), "commit")>>
        \o SettleLateUsage(user, generation, month)

SettleLateLocked(user, generation, month) ==
    FindUsageLocator(generation) \o SettleLateUsage(user, generation, month)

AdoptGoalSuggestion(user, goal, goalRev, draft, rev, generation) ==
    LockUser(user)
        \o (IF goal = 0 THEN <<>>
            ELSE LockGoalWithCurrentVersion(user, goal, [status |-> {"goal_review"}, rev |-> {goalRev}], "refused", "refused"))
        \o <<One(Goals!LockDraftByID(user, draft), "refused")>>
        \o LockSucceededGoalRefineGeneration(user, draft, generation)
        \o <<Check(Exists("drafts", [id |-> {draft}]), [rev |-> {rev}])>>
        \o AdoptDraftCAS(user, draft) \o MarkSuggestionAdoptedCAS(generation)

=============================================================================
