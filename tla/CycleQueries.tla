---------------------------- MODULE CycleQueries ----------------------------
(***************************************************************************)
(* The queries about cycles.  A cycle has a revision for each of its four  *)
(* frames and one (rev) for its content as a whole; format says whether    *)
(* its content is still stored as plain text.                              *)
(***************************************************************************)
EXTENDS Statements

\* ---------------------------------------------------------------- receipts

FindCompleteCycleReceipt(user, op) ==
    As(Select("cycles", [user |-> {user}, finish |-> {op}]), "receipt")

FindStartReplay(user, op) ==
    As(Select("cycles", [user |-> {user}, start |-> {op}]), "receipt")

\* The two below also return the cycle before it, or whether the operation
\* created a version; both are facts about the same committed operation.
FindReplanCycleReceipt(user, op) ==
    As(Select("cycles", [user |-> {user}, start |-> {op}]), "receipt")

FindContinueReviewReceipt(user, op) ==
    As(Select("cycles", [user |-> {user}, start |-> {op}]), "receipt")

\* ------------------------------------------------------------------- locks

LockCycleForTransition(user, goal, cycle) ==
    Lock("cycles", [id |-> {cycle}, goal |-> {goal}, user |-> {user}])

LockGoalCycleIDs(user, goal) == Lock("cycles", [goal |-> {goal}, user |-> {user}])

LockAccountCycleIDs(user) == Lock("cycles", [user |-> {user}])

GetCycleReviewSchedule(cycle) == Select("schedules", [id |-> {cycle}])

HasRunningCycleGenerationForTransition(user, goal, cycle) ==
    Exists("generations", [user |-> {user}, goal |-> {goal}, cycle |-> {cycle}, status |-> {"running"}])

HasRunningGoalGenerationForReviewTransition(user, goal) ==
    Exists("generations", [user |-> {user}, goal |-> {goal}, status |-> {"running"}])

ListAIContextCycles(user, goal, excluded) ==
    Select("cycles", [user |-> {user}, goal |-> {goal}, status |-> {"completed", "canceled"}])

\* ------------------------------------------------------------------ starts

\* The claim on (user, start operation) lets one of two equal requests start
\* the cycle; the other one inserts nothing.
NewCycle(user, goal, id, op, format) ==
    [id |-> id, user |-> user, goal |-> goal, version |-> 0, seq |-> 0, status |-> "active",
     rev |-> 0, plan |-> 0, do |-> 0, check |-> 0, action |-> 0, format |-> format,
     start |-> op, finish |-> 0, reason |-> "none"]

TryInsertInitialCycleClaim(user, goal, version, id, op, format) ==
    OrNothing(Insert("cycles", [NewCycle(user, goal, id, op, format) EXCEPT
                                    !.version = version, !.seq = 1]))

TryInsertCycleClaim(user, goal, id, op, format) ==
    Copy(OrNothing(Insert("cycles", NewCycle(user, goal, id, op, format))),
         [version |-> At(<<"current", 0>>, "id"), seq |-> At(<<"goals", goal>>, "next")])

TryInsertEditedCycleClaim(user, goal, version, id, op, format) ==
    Copy(OrNothing(Insert("cycles", [NewCycle(user, goal, id, op, format) EXCEPT !.version = version])),
         [seq |-> At(<<"goals", goal>>, "next")])

\* ------------------------------------------------------------------- saves

\* Mutant: the save of a frame leaves the revision of the content.
MutSaveFrameCAS(user, goal, cycle, frame) ==
    Plus(Cas(Update("cycles", [id |-> {cycle}, user |-> {user}, goal |-> {goal}, status |-> {"active"}]),
             <<"cycles", cycle>>, {frame}),
         [f \in {frame} |-> 1])

\* One frame of an active cycle, at the revision the code has read.
SaveFrameCAS(user, goal, cycle, frame) ==
    Plus(Cas(Update("cycles", [id |-> {cycle}, user |-> {user}, goal |-> {goal}, status |-> {"active"}]),
             <<"cycles", cycle>>, {frame}),
         [f \in {frame, "rev"} |-> 1])

SaveCyclePlanCAS(user, goal, cycle) == SaveFrameCAS(user, goal, cycle, "plan")

SaveCycleDoCAS(user, goal, cycle) == SaveFrameCAS(user, goal, cycle, "do")

SaveCycleCheckCAS(user, goal, cycle) == SaveFrameCAS(user, goal, cycle, "check")

SaveCycleActionCAS(user, goal, cycle) == SaveFrameCAS(user, goal, cycle, "action")

\* The first save of a row stored as plain text encrypts all four frames.
MigrateLegacy(save) ==
    Set(Where(save, [format |-> {"legacy"}]), [format |-> "encrypted"])

MigrateLegacyCyclePlanCAS(user, goal, cycle) == MigrateLegacy(SaveCyclePlanCAS(user, goal, cycle))

MigrateLegacyCycleDoCAS(user, goal, cycle) == MigrateLegacy(SaveCycleDoCAS(user, goal, cycle))

MigrateLegacyCycleCheckCAS(user, goal, cycle) == MigrateLegacy(SaveCycleCheckCAS(user, goal, cycle))

MigrateLegacyCycleActionCAS(user, goal, cycle) == MigrateLegacy(SaveCycleActionCAS(user, goal, cycle))

\* A generated action is stored at the revisions it was asked for.
ApplyActionAICAS(user, goal, cycle) ==
    Plus(Cas(Update("cycles", [id |-> {cycle}, user |-> {user}, goal |-> {goal}, status |-> {"active"}]),
             <<"cycles", cycle>>, {"rev", "action", "version"}),
         [rev |-> 1, action |-> 1])

ApplyActionAIMigrateLegacyCAS(user, goal, cycle) == MigrateLegacy(ApplyActionAICAS(user, goal, cycle))

\* The first date of a schedule is an insert, a later one an update of the
\* revision the code has read.
SaveCycleReviewScheduleCAS(cycle, expected) ==
    Plus(Where(OrUpdate(Insert("schedules", [id |-> cycle, rev |-> 1])), [rev |-> {expected}]), [rev |-> 1])

\* -------------------------------------------------------------------- ends

CompleteCycleCAS(user, goal, cycle, op) ==
    Set(Cas(Update("cycles", [id |-> {cycle}, user |-> {user}, goal |-> {goal}, status |-> {"active"},
                              finish |-> {0}]),
            <<"cycles", cycle>>, {"rev"}),
        [status |-> "completed", finish |-> op])

CancelCycleCAS(user, goal, cycle, reason) ==
    Set(Cas(Update("cycles", [id |-> {cycle}, user |-> {user}, goal |-> {goal}, status |-> {"active"}]),
            <<"cycles", cycle>>, {"rev"}),
        [status |-> "canceled", reason |-> reason])

=============================================================================
