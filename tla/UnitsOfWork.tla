---------------------------- MODULE UnitsOfWork ----------------------------
(***************************************************************************)
(* The methods of the workspace's units of work: the statements a method   *)
(* sends, and what it makes of their answers.  A missing row is "refused"  *)
(* (ErrNotFound and the like), a row count that the code does not accept   *)
(* is an "error" (a persistence invariant).                                *)
(***************************************************************************)
EXTENDS Statements, Sequences

Goals    == INSTANCE GoalQueries
Cycles   == INSTANCE CycleQueries
AI       == INSTANCE AIQueries
Accounts == INSTANCE AccountQueries

\* ------------------------------------------------------------------ drafts

LockUser(user) == <<One(Accounts!LockUser(user), "refused")>>

\* found: what the code does when there is one already.
FindCreationDraft(user, found) == <<None(Goals!FindCreationDraft(user), found)>>

LockDraftByID(user, draft, type, rev) ==
    <<Check(One(Goals!LockDraftByID(user, draft), "refused"), [type |-> {type}, rev |-> {rev}])>>

LockReviewDraftByGoal(user, goal, missing) ==
    <<One(Goals!LockReviewDraftByGoal(user, goal), missing)>>

InsertCreationDraft(user, id) ==
    <<Duplicate(Goals!InsertCreationDraft(user, id), "refused")>>

\* A draft without a success signal loses its signal row.
SaveDraftCAS(user, draft, type, signal) ==
    <<One(Goals!SaveDraftCAS(user, draft, type), "error"),
      IF signal THEN Goals!UpsertGoalDraftSuccessSignal(draft)
                ELSE Goals!DeleteGoalDraftSuccessSignal(draft)>>

DeleteCreationDraftCAS(user, draft) == <<One(Goals!DeleteCreationDraftCAS(user, draft), "error")>>

DeleteReviewDraftCAS(user, draft) == <<One(Goals!DeleteReviewDraftCAS(user, draft), "error")>>

\* No generation of the draft may be running.
LockDraftGenerations(user, draft) ==
    <<Check(AI!LockDraftGenerations(user, draft), [status |-> {"succeeded", "failed"}])>>

LockDraftUsages(user) == <<AI!LockDraftUsages(user)>>

RedactDraftUsagesCAS(user) == <<Each(AI!RedactDraftUsagesCAS(user))>>

DeleteExpiredFinalizedDraftUsagesCAS(user) == <<Each(AI!DeleteExpiredFinalizedDraftUsagesCAS(user))>>

DeleteDraftGenerationsCAS(user, draft) == <<Each(AI!DeleteDraftGenerationsCAS(user, draft))>>

AdoptDraftCAS(user, draft) == <<One(Goals!AdoptDraftCAS(user, draft), "error")>>

\* ------------------------------------------------------------ goal starts

FindStartReplay(user, op, found) == <<None(Cycles!FindStartReplay(user, op), found)>>

\* Views are loaded again after the writes; as names the answer.
LoadGoalView(user, goal, missing) == <<View("goal", [user |-> user, goal |-> goal], "goal", missing)>>

LoadCycleView(user, goal, cycle, as, missing) ==
    <<View("cycle", [user |-> user, goal |-> goal, cycle |-> cycle], as, missing)>>

\* The cycle, and the goal, that the receipt names.
LoadReceiptGoalView(user, missing) ==
    <<Copy(View("goal", [user |-> user, goal |-> 0], "goal", missing), [goal |-> At(<<"receipt", 0>>, "goal")])>>

LoadReceiptCycleView(user, missing) ==
    <<Copy(View("cycle", [user |-> user, goal |-> 0, cycle |-> 0], "cycle", missing),
           [goal |-> At(<<"receipt", 0>>, "goal"), cycle |-> At(<<"receipt", 0>>, "id")])>>

\* What the answers must agree on, the last of them included.
Agreeing(statements, name) ==
    [statements EXCEPT ![Len(statements)] = Agree(statements[Len(statements)], name)]

CountProgressingGoals(user, limit) ==
    <<Fewer(Goals!CountProgressingGoals(user), limit, "refused")>>

InsertInitialGoal(user, goal) == <<Goals!InsertInitialGoal(user, goal)>>

InsertInitialVersion(user, goal, id, op, signal) ==
    <<Goals!InsertInitialVersion(user, goal, id, op)>>
        \o (IF signal THEN <<Goals!InsertGoalVersionSuccessSignal(id)>> ELSE <<>>)

\* lost: what the code does when another request holds the claim.
TryInsertInitialCycleClaim(user, goal, version, id, op, lost) ==
    <<[Cycles!TryInsertInitialCycleClaim(user, goal, version, id, op, "encrypted") EXCEPT !.otherwise = lost]>>

AttachDraftGenerations(user, draft, goal, version) ==
    <<Each(AI!AttachDraftGenerations(user, draft, goal, version))>>

AttachDraftGenerationsToCurrent(user, draft, goal) ==
    <<Each(AI!AttachDraftGenerationsToCurrent(user, draft, goal))>>

AttachUsageToGoal(user, goal, ids) == <<Each(AI!AttachUsageToGoal(user, goal, ids))>>

\* ------------------------------------------------------------------ cycles

LockGoal(user, goal, status, rev) ==
    <<Check(One(Goals!LockGoalForTransition(user, goal), "refused"), [status |-> {status}, rev |-> {rev}])>>

LockCycle(user, goal, cycle, checks) ==
    <<Check(One(Cycles!LockCycleForTransition(user, goal, cycle), "refused"), checks),
      Cycles!GetCycleReviewSchedule(cycle)>>

LoadCurrentGoalVersion(user, goal) ==
    <<One(Goals!LoadCurrentGoalVersionForTransition(user, goal), "refused")>>

HasRunningCycleGeneration(user, goal, cycle) ==
    <<None(Cycles!HasRunningCycleGenerationForTransition(user, goal, cycle), "refused")>>

HasRunningGoalGeneration(user, goal) ==
    <<None(Cycles!HasRunningGoalGenerationForReviewTransition(user, goal), "refused")>>

\* One query per frame; a row still stored as plain text takes the variant
\* that encrypts all four frames at once.
SaveCycleFrameCAS(user, goal, cycle, frame) ==
    <<One(CASE frame = "plan"   -> Cycles!SaveCyclePlanCAS(user, goal, cycle)
            [] frame = "do"     -> Cycles!SaveCycleDoCAS(user, goal, cycle)
            [] frame = "check"  -> Cycles!SaveCycleCheckCAS(user, goal, cycle)
            [] frame = "action" -> Cycles!SaveCycleActionCAS(user, goal, cycle), "error")>>

saveLegacyCycleFrameCAS(user, goal, cycle, frame) ==
    <<One(CASE frame = "plan"   -> Cycles!MigrateLegacyCyclePlanCAS(user, goal, cycle)
            [] frame = "do"     -> Cycles!MigrateLegacyCycleDoCAS(user, goal, cycle)
            [] frame = "check"  -> Cycles!MigrateLegacyCycleCheckCAS(user, goal, cycle)
            [] frame = "action" -> Cycles!MigrateLegacyCycleActionCAS(user, goal, cycle), "error")>>

SaveCycleReviewScheduleCAS(cycle, rev) == <<Cycles!SaveCycleReviewScheduleCAS(cycle, rev)>>

CompleteCycleCAS(user, goal, cycle, op) == <<One(Cycles!CompleteCycleCAS(user, goal, cycle, op), "error")>>

CancelCycleCAS(user, goal, cycle, reason) ==
    <<One(Cycles!CancelCycleCAS(user, goal, cycle, reason), "error")>>

TryInsertCycleClaim(user, goal, id, op, lost) ==
    <<[Cycles!TryInsertCycleClaim(user, goal, id, op, "encrypted") EXCEPT !.otherwise = lost]>>

TryInsertEditedCycleClaim(user, goal, version, id, op, lost) ==
    <<[Cycles!TryInsertEditedCycleClaim(user, goal, version, id, op, "encrypted") EXCEPT !.otherwise = lost]>>

ReplanGoalCAS(user, goal) == <<One(Goals!ReplanGoalCAS(user, goal), "error")>>

InsertReviewDraft(user, goal, cycle, id, signal) ==
    <<Goals!InsertReviewDraftForTransition(user, goal, cycle, id)>>
        \o (IF signal THEN <<Goals!InsertReviewDraftSuccessSignalForTransition(id)>> ELSE <<>>)

EnterGoalReviewCAS(user, goal) == <<One(Goals!EnterGoalReviewCAS(user, goal), "error")>>

\* missing: "error", or "next" where the draft may have gone.
FindReviewDraftByCycle(user, goal, cycle, missing) ==
    <<One(Goals!FindReviewDraftByCycle(user, goal, cycle), missing)>>

\* A receipt tells an operation that has been carried out from a new one; one
\* of another request (its hash, of which the goal is a part) is refused.
FindCompleteCycleReceipt(user, goal, cycle, op, found) ==
    <<Check(None(Cycles!FindCompleteCycleReceipt(user, op), found), [goal |-> {goal}, id |-> {cycle}])>>

FindReplanCycleReceipt(user, goal, op, found) ==
    <<Check(None(Cycles!FindReplanCycleReceipt(user, op), found), [goal |-> {goal}])>>

\* ----------------------------------------------------------------- reviews

FindContinueReviewReceipt(user, goal, op, found) ==
    <<Check(None(Cycles!FindContinueReviewReceipt(user, op), found), [goal |-> {goal}])>>

FindGoalTerminationReceipt(user, goal, op, found) ==
    <<Check(None(Goals!FindGoalTerminationReceipt(user, op), found), [id |-> {goal}])>>

InsertGoalVersion(user, goal, id, op, signal) ==
    <<Goals!InsertGoalVersion(user, goal, id, op)>>
        \o (IF signal THEN <<Goals!InsertGoalVersionSuccessSignal(id)>> ELSE <<>>)

ContinueGoalCAS(user, goal, edited) == <<One(Goals!ContinueGoalCAS(user, goal, edited), "error")>>

TerminateGoalCAS(user, goal, op) == <<One(Goals!TerminateGoalCAS(user, goal, op), "error")>>

=============================================================================
