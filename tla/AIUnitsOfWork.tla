--------------------------- MODULE AIUnitsOfWork ---------------------------
(***************************************************************************)
(* The methods of the units of work that deal with AI generations, usages  *)
(* and budget months, those of goal deletion, and the statements of        *)
(* account deletion.  Where the code loops over rows it holds locked, one  *)
(* statement stands for the loop.                                          *)
(***************************************************************************)
EXTENDS UnitsOfWork

\* ----------------------------------------------------------------- begins

\* differs: what the code does when the goal, or the cycle, has moved on.
LockGoalWithCurrentVersion(user, goal, checks, missing, differs) ==
    <<Differs(Check(One(Goals!LockGoalWithCurrentVersion(user, goal), missing), checks), differs)>>

LockActionCycle(user, goal, cycle, checks, missing, differs) ==
    <<Differs(Check(One(Cycles!LockCycleForTransition(user, goal, cycle), missing), checks), differs)>>

LockExpiredGenerations(user) == <<AI!LockExpiredGenerations(user)>>

SumLockedReservationsByMonth == <<AI!SumLockedReservationsByMonth>>

ReleaseBudgetReservationCAS == <<Each(AI!ReleaseBudgetReservationCAS)>>

ExpireGenerationCAS(user) == <<Each(AI!ExpireGenerationCAS(user))>>

ExpireUsageCAS == <<Each(AI!ExpireUsageCAS)>>

FindGoalRefineReplay(user, op, found) ==
    <<None([AI!FindGoalRefineReplay(user, op) EXCEPT !.keep = FALSE], found)>>

FindActionAIReplay(user, type, op, found) ==
    <<None([AI!FindActionAIReplay(user, type, op) EXCEPT !.keep = FALSE], found)>>

ListAIContextCycles(user, goal, excluded) == <<Cycles!ListAIContextCycles(user, goal, excluded)>>

HasRunningDraftGeneration(draft) == <<None(AI!HasRunningDraftGeneration(draft), "refused")>>

HasRunningActionGeneration(user, goal, cycle) ==
    <<None(AI!HasRunningCycleGeneration(user, goal, cycle), "refused")>>

CountRollingUsage(user, limit) == <<Fewer(AI!CountRollingUsage(user), limit, "refused")>>

EnsureBudgetMonth(month) == <<[AI!EnsureBudgetMonth(month) EXCEPT !.otherwise = "next"]>>

\* The reservations must leave room for one more.
LockBudgetMonth(month, limit) ==
    <<Check(One(AI!LockBudgetMonth(month), "refused"), [reserved |-> 0..(limit - 1)])>>

IncrementRateBucket(bucket, limit) ==
    <<Check(Accounts!IncrementRateBucket(bucket), [count |-> 0..limit])>>

ReserveBudgetCAS(month) == <<One(AI!ReserveBudgetCAS(month), "error")>>

InsertGoalRefineGeneration(id, user, draft, goal, version, month, op) ==
    <<Duplicate(AI!InsertGoalRefineGeneration(id, user, draft, goal, version, month, op), "refused")>>

InsertActionAIGeneration(id, user, type, goal, cycle, version, month, op) ==
    <<Duplicate(AI!InsertActionAIGeneration(id, user, type, goal, cycle, version, month, op), "refused")>>

InsertAcceptedUsage(id, user, goal, month) == <<AI!InsertAcceptedUsage(id, user, goal, month)>>

\* ---------------------------------------------------------------- finishes

\* A generation that is gone, or no longer running, is settled late.
FindGenerationLocator(generation, late) ==
    <<Differs(Check(One([AI!FindGenerationLocator(generation) EXCEPT !.keep = FALSE], late),
                    [status |-> {"running"}]), late)>>

LockGoalRefineGeneration(user, draft, generation, late) ==
    <<One(AI!LockGoalRefineGeneration(user, draft, generation), late)>>

LockActionAIGeneration(user, goal, cycle, type, generation, late) ==
    <<One(AI!LockActionAIGeneration(user, goal, cycle, type, generation), late)>>

TerminalizeGenerationCAS(generation, status) ==
    <<One(AI!TerminalizeGenerationCAS(generation, status), "error")>>

TerminalizeActionAIGenerationCAS(type, generation, status) ==
    <<One(AI!TerminalizeActionAIGenerationCAS(type, generation, status), "error")>>

\* A cycle still stored as plain text takes the variant that encrypts it.
ApplyActionAICAS(user, goal, cycle, legacy) ==
    <<One(IF legacy THEN Cycles!ApplyActionAIMigrateLegacyCAS(user, goal, cycle)
                    ELSE Cycles!ApplyActionAICAS(user, goal, cycle), "error")>>

SettleBudgetCAS(month) == <<One(AI!SettleBudgetCAS(month), "error")>>

FinalizeUsageCAS(generation, month, status) ==
    <<One(AI!FinalizeUsageCAS(generation, month, status), "error")>>

\* Nothing is left to settle when the usage is gone or final.
FindUsageLocator(generation) ==
    <<Differs(Check(One(AI!FindUsageLocator(generation), "commit"), [final |-> {FALSE}]), "commit")>>

LockUsage(user, generation) ==
    <<Differs(Check(One(AI!LockUsage(user, generation), "commit"), [final |-> {FALSE}]), "commit")>>

AddLateActualCostCAS(month) == <<One(AI!AddLateActualCostCAS(month), "error")>>

FinalizeLateUsageCAS(generation, month) == <<One(AI!FinalizeLateUsageCAS(generation, month), "error")>>

LockSucceededGoalRefineGeneration(user, draft, generation) ==
    <<Check(One(AI!LockSucceededGoalRefineGeneration(user, draft, generation), "refused"), [adopted |-> {0}])>>

MarkSuggestionAdoptedCAS(generation) == <<One(AI!MarkSuggestionAdoptedCAS(generation), "error")>>

\* ----------------------------------------------------------- goal deletion

FindGoalDeleteReceipt(user, op, found) == <<None(Goals!FindGoalDeleteReceipt(user, op), found)>>

LockGoalForDelete(user, goal, rev) ==
    <<Check(One(Goals!LockGoalForDelete(user, goal), "refused"), [rev |-> {rev}])>>

LockGoalDraftIDs(user, goal) == <<Goals!LockGoalDraftIDs(user, goal)>>

LockGoalCycleIDs(user, goal) == <<Cycles!LockGoalCycleIDs(user, goal)>>

LockRunningGoalGenerations(user, goal) == <<AI!LockRunningGoalGenerations(user, goal)>>

SumLockedGoalReservationsByMonth(user, goal) == <<AI!SumLockedGoalReservationsByMonth(user, goal)>>

TerminalizeGoalGenerationCAS(user, goal) == <<Each(AI!TerminalizeGoalGenerationCAS(user, goal))>>

FailRunningGoalUsageCAS(user, goal) == <<Each(AI!FailRunningGoalUsageCAS(user, goal))>>

LockGoalUsages(user, goal) == <<AI!LockGoalUsages(user, goal)>>

RedactGoalUsagesCAS(user, goal) == <<Each(AI!RedactGoalUsagesCAS(user, goal))>>

DeleteExpiredFinalizedGoalUsagesCAS(user, goal) ==
    <<Each(AI!DeleteExpiredFinalizedGoalUsagesCAS(user, goal))>>

DeleteGoalCAS(user, goal) == <<One(Goals!DeleteGoalCAS(user, goal), "error")>>

InsertGoalDeleteReceipt(user, id, op) == <<Goals!InsertGoalDeleteReceipt(user, id, op)>>

=============================================================================
