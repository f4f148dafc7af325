----------------------------- MODULE AIQueries -----------------------------
(***************************************************************************)
(* The queries about AI generations, usage events and budget months.       *)
(* Every reservation is worth 1; a usage is old when its quota retention   *)
(* has passed, a lease is live or expired.                                 *)
(***************************************************************************)
EXTENDS Statements

\* ------------------------------------------------------------- generations

LockDraftGenerations(user, draft) ==
    Lock("generations", [user |-> {user}, draft |-> {draft}])

DeleteDraftGenerationsCAS(user, draft) ==
    Among(Delete("generations", [user |-> {user}, draft |-> {draft}, status |-> {"succeeded", "failed"}]),
          "generations")

\* The generations of a draft move to the goal and the version it became.
AttachDraftGenerations(user, draft, goal, version) ==
    Set(Among(Update("generations", [user |-> {user}, draft |-> {draft}]), "generations"),
        [draft |-> 0, goal |-> goal, version |-> version])

AttachDraftGenerationsToCurrent(user, draft, goal) ==
    Copy(Set(Among(Update("generations", [user |-> {user}, draft |-> {draft}]), "generations"),
             [draft |-> 0, goal |-> goal]),
         [version |-> At(<<"current", 0>>, "id")])

LockExpiredGenerations(user) ==
    Lock("generations", [user |-> {user}, status |-> {"running"}, lease |-> {"expired"}])

SumLockedReservationsByMonth ==
    Among(Total("generations", [status |-> {"running"}]), "generations")

Failed == [status |-> "failed", cost |-> 0, lease |-> "none"]

ExpireGenerationCAS(user) ==
    Set(Among(Update("generations", [status |-> {"running"}, cost |-> {1}]), "generations"), Failed)

HasRunningDraftGeneration(draft) ==
    Exists("generations", [draft |-> {draft}, status |-> {"running"}])

HasRunningCycleGeneration(user, goal, cycle) ==
    Exists("generations", [user |-> {user}, goal |-> {goal}, cycle |-> {cycle}, status |-> {"running"}])

FindGenerationLocator(generation) == Select("generations", [id |-> {generation}])

LockGoalRefineGeneration(user, draft, generation) ==
    Lock("generations", [id |-> {generation}, user |-> {user}, type |-> {"goal_refine"},
                         draft |-> {draft}, status |-> {"running"}])

TerminalizeGenerationCAS(generation, status) ==
    Set(Update("generations", [id |-> {generation}, type |-> {"goal_refine"}, status |-> {"running"},
                               cost |-> {1}]),
        [Failed EXCEPT !.status = status])

LockActionAIGeneration(user, goal, cycle, type, generation) ==
    Lock("generations", [id |-> {generation}, user |-> {user}, goal |-> {goal}, cycle |-> {cycle},
                         type |-> {type}, status |-> {"running"}])

TerminalizeActionAIGenerationCAS(type, generation, status) ==
    Set(Update("generations", [id |-> {generation}, type |-> {type}, status |-> {"running"},
                               cost |-> {1}]),
        [Failed EXCEPT !.status = status])

LockSucceededGoalRefineGeneration(user, draft, generation) ==
    Lock("generations", [id |-> {generation}, user |-> {user}, type |-> {"goal_refine"},
                         draft |-> {draft}, status |-> {"succeeded"}])

MarkSuggestionAdoptedCAS(generation) ==
    Set(Update("generations", [id |-> {generation}, type |-> {"goal_refine"}, status |-> {"succeeded"},
                               adopted |-> {0}]),
        [adopted |-> 1])

FindGoalRefineReplay(user, op) ==
    Select("generations", [user |-> {user}, type |-> {"goal_refine"}, op |-> {op}])

FindActionAIReplay(user, type, op) ==
    Select("generations", [user |-> {user}, type |-> {type}, op |-> {op}])

NewGeneration(id, user, type, month, op) ==
    [id |-> id, user |-> user, type |-> type, op |-> op, status |-> "running", goal |-> 0,
     version |-> 0, cycle |-> 0, draft |-> 0, month |-> month, cost |-> 1, lease |-> "live",
     adopted |-> 0]

InsertGoalRefineGeneration(id, user, draft, goal, version, month, op) ==
    Insert("generations", [NewGeneration(id, user, "goal_refine", month, op) EXCEPT
                               !.draft = draft, !.goal = goal, !.version = version])

InsertActionAIGeneration(id, user, type, goal, cycle, version, month, op) ==
    Insert("generations", [NewGeneration(id, user, type, month, op) EXCEPT
                               !.goal = goal, !.version = version, !.cycle = cycle])

\* ------------------------------------------------------------------ usages

LockDraftUsages(user) == Among(Lock("usages", [user |-> {user}]), "generations")

RedactDraftUsagesCAS(user) ==
    Set(Part(Among(Update("usages", [user |-> {user}]), "usages"), "kept"),
        [goal |-> 0, content_deleted |-> TRUE])

DeleteExpiredFinalizedDraftUsagesCAS(user) ==
    Part(Among(Delete("usages", [user |-> {user}, old |-> {TRUE}, final |-> {TRUE}]), "usages"), "old")

\* ids: the code names the usages by its generations or by the usages it locked.
AttachUsageToGoal(user, goal, ids) ==
    Set(Among(Update("usages", [user |-> {user}]), ids), [goal |-> goal])

ExpireUsageCAS ==
    Set(Among(Update("usages", [status |-> {"accepted"}, final |-> {FALSE}, cost |-> {1}]), "generations"),
        [status |-> "failed"])

CountRollingUsage(user) == Exists("usages", [user |-> {user}])

InsertAcceptedUsage(id, user, goal, month) ==
    Insert("usages", [id |-> id, user |-> user, goal |-> goal, status |-> "accepted", final |-> FALSE,
                      month |-> month, cost |-> 1, old |-> FALSE, content_deleted |-> FALSE])

Finalized == [final |-> TRUE, month |-> 0, cost |-> 0]

FinalizeUsageCAS(generation, month, status) ==
    Set(Update("usages", [id |-> {generation}, status |-> {"accepted"}, final |-> {FALSE},
                          month |-> {month}, cost |-> {1}]),
        [status |-> status] @@ Finalized)

FindUsageLocator(generation) == Select("usages", [id |-> {generation}])

LockUsage(user, generation) == Lock("usages", [id |-> {generation}, user |-> {user}])

FinalizeLateUsageCAS(generation, month) ==
    Set(Update("usages", [id |-> {generation}, final |-> {FALSE}, month |-> {month}, cost |-> {1}]),
        [status |-> "failed"] @@ Finalized)

\* ------------------------------------------------------------------ months

\* One update per month of the sum taken before.
ReleaseBudgetReservationCAS ==
    BySum(Among(Update("months", <<>>), "sums"), [reserved |-> -1])

EnsureBudgetMonth(month) ==
    OrNothing(Insert("months", [id |-> month, reserved |-> 0, actual |-> 0, unattributed |-> 0]))

LockBudgetMonth(month) == Lock("months", [id |-> {month}])

ReserveBudgetCAS(month) == Plus(Update("months", [id |-> {month}]), [reserved |-> 1])

SettleBudgetCAS(month) == Plus(Update("months", [id |-> {month}]), [reserved |-> -1, actual |-> 1])

AddLateActualCostCAS(month) == Plus(Update("months", [id |-> {month}]), [actual |-> 1])

\* ---------------------------------------------------------- goal deletion

LockRunningGoalGenerations(user, goal) ==
    Lock("generations", [user |-> {user}, goal |-> {goal}, status |-> {"running"}])

\* Mutant: the reservations of the user's other goals are given back too.
MutSumLockedGoalReservationsByMonth(user, goal) ==
    Total("generations", [user |-> {user}, status |-> {"running"}])

SumLockedGoalReservationsByMonth(user, goal) ==
    Among(Total("generations", [user |-> {user}, goal |-> {goal}, status |-> {"running"}]), "generations")

TerminalizeGoalGenerationCAS(user, goal) ==
    Set(Among(Update("generations", [user |-> {user}, goal |-> {goal}, status |-> {"running"},
                                     cost |-> {1}]), "generations"),
        Failed)

FailRunningGoalUsageCAS(user, goal) ==
    Set(Among(Update("usages", [user |-> {user}, goal |-> {goal}, status |-> {"accepted"},
                                final |-> {FALSE}]), "generations"),
        [goal |-> 0, status |-> "failed", content_deleted |-> TRUE])

LockGoalUsages(user, goal) == Lock("usages", [user |-> {user}, goal |-> {goal}])

RedactGoalUsagesCAS(user, goal) ==
    Map(Set(Part(Among(Update("usages", [user |-> {user}, goal |-> {goal}]), "usages"), "kept"),
            [goal |-> 0, content_deleted |-> TRUE]),
        [status |-> <<"accepted", "failed">>])

DeleteExpiredFinalizedGoalUsagesCAS(user, goal) ==
    Part(Among(Delete("usages", [user |-> {user}, goal |-> {goal}, old |-> {TRUE}, final |-> {TRUE}]),
               "usages"), "old")

\* -------------------------------------------------------- account deletion

LockAccountRunningGenerationExposures(user) ==
    Lock("generations", [user |-> {user}, status |-> {"running"}])

LockAccountUnfinalizedUsageExposures(user) ==
    Lock("usages", [user |-> {user}, final |-> {FALSE}])

ListAccountMonthlyExposures(user) ==
    [Total("generations", [user |-> {user}, status |-> {"running"}]) EXCEPT !.exposed = TRUE]

ReleaseAccountGenerationReservationCAS(user) ==
    Set(Among(Update("generations", [user |-> {user}, status |-> {"running"}, cost |-> {1}]), "generations"),
        [cost |-> 0])

MoveAccountExposureToUnattributedCAS ==
    BySum(Among(Update("months", <<>>), "sums"), [reserved |-> -1, unattributed |-> 1])

\* A usage that a running generation still stands for is left to the cascade.
DeleteReleasedAccountUsageExposureCAS(user) ==
    [Among(Delete("usages", [user |-> {user}, final |-> {FALSE}, cost |-> {1}]), "usages") EXCEPT !.left = TRUE]

=============================================================================
