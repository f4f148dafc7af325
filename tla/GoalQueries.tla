---------------------------- MODULE GoalQueries ----------------------------
(***************************************************************************)
(* The queries about goals, their versions and their drafts.  Contents     *)
(* (bodies, success signals, request hashes, times) are left out; a draft  *)
(* has a row in draftSignals when it has a success signal.                 *)
(***************************************************************************)
EXTENDS Statements

\* Mutant: goals under review are not counted.
MutProgressing == {"active_cycle"}

Progressing == {"active_cycle", "goal_review"}

\* ------------------------------------------------------------------ drafts

FindCreationDraft(user) ==
    Select("drafts", [user |-> {user}, type |-> {"creation"}])

LockDraftByID(user, draft) ==
    Lock("drafts", [id |-> {draft}, user |-> {user}])

LockReviewDraftByGoal(user, goal) ==
    As(Lock("drafts", [goal |-> {goal}, user |-> {user}, type |-> {"review"}]), "review")

InsertCreationDraft(user, id) ==
    Insert("drafts", [id |-> id, user |-> user, type |-> "creation", goal |-> 0,
                      version |-> 0, cycle |-> 0, rev |-> 0])

SaveDraftCAS(user, draft, type) ==
    Plus(Cas(Update("drafts", [id |-> {draft}, user |-> {user}, type |-> {type}]),
             <<"drafts", draft>>, {"rev"}),
         [rev |-> 1])

AdoptDraftCAS(user, draft) ==
    Plus(Cas(Update("drafts", [id |-> {draft}, user |-> {user}]), <<"drafts", draft>>, {"rev"}),
         [rev |-> 1])

UpsertGoalDraftSuccessSignal(draft) ==
    OrUpdate(Insert("draftSignals", [id |-> draft]))

DeleteGoalDraftSuccessSignal(draft) ==
    Delete("draftSignals", [id |-> {draft}])

DeleteCreationDraftCAS(user, draft) ==
    Cas(Delete("drafts", [id |-> {draft}, user |-> {user}, type |-> {"creation"}]),
        <<"drafts", draft>>, {"rev"})

DeleteReviewDraftCAS(user, draft) ==
    Cas(Delete("drafts", [id |-> {draft}, user |-> {user}, type |-> {"review"}]),
        <<"drafts", draft>>, {"rev"})

InsertReviewDraftForTransition(user, goal, cycle, id) ==
    Copy(Insert("drafts", [id |-> id, user |-> user, type |-> "review", goal |-> goal,
                           version |-> 0, cycle |-> cycle, rev |-> 0]),
         [version |-> At(<<"current", 0>>, "id")])

InsertReviewDraftSuccessSignalForTransition(id) ==
    Insert("draftSignals", [id |-> id])

FindReviewDraftByCycle(user, goal, cycle) ==
    As(Select("drafts", [user |-> {user}, goal |-> {goal}, cycle |-> {cycle}, type |-> {"review"}]), "draft")

\* ---------------------------------------------------------------- versions

InsertInitialVersion(user, goal, id, op) ==
    Insert("versions", [id |-> id, user |-> user, goal |-> goal, number |-> 1, op |-> op])

InsertGoalVersion(user, goal, id, op) ==
    Plus(Copy(Insert("versions", [id |-> id, user |-> user, goal |-> goal, number |-> 0, op |-> op]),
              [number |-> At(<<"goals", goal>>, "ver")]),
         [number |-> 1])

InsertGoalVersionSuccessSignal(version) ==
    Insert("versionSignals", [id |-> version])

\* The version whose number is the goal's current one; later statements call
\* it <<"current", 0>>.
LoadCurrentGoalVersionForTransition(user, goal) ==
    As([Select("versions", [user |-> {user}, goal |-> {goal}]) EXCEPT
            !.same = [number |-> At(<<"goals", goal>>, "ver")]],
       "current")

\* ------------------------------------------------------------------- goals

\* The query also joins the current version; only the goal is locked.
LockGoalWithCurrentVersion(user, goal) ==
    Lock("goals", [id |-> {goal}, user |-> {user}])

LockGoalForTransition(user, goal) ==
    Lock("goals", [id |-> {goal}, user |-> {user}])

InsertInitialGoal(user, id) ==
    Insert("goals", [id |-> id, user |-> user, status |-> "active_cycle", rev |-> 0,
                     ver |-> 1, next |-> 2, op |-> 0])

CountProgressingGoals(user) ==
    Exists("goals", [user |-> {user}, status |-> Progressing])

EnterGoalReviewCAS(user, goal) ==
    Plus(Set(Cas(Update("goals", [id |-> {goal}, user |-> {user}, status |-> {"active_cycle"}]),
                 <<"goals", goal>>, {"rev", "ver", "next"}),
             [status |-> "goal_review"]),
         [rev |-> 1])

\* edited: a new version has been inserted under the next number.
ContinueGoalCAS(user, goal, edited) ==
    Plus(Set(Cas(Update("goals", [id |-> {goal}, user |-> {user}, status |-> {"goal_review"}]),
                 <<"goals", goal>>, {"rev"}),
             [status |-> "active_cycle"]),
         [rev |-> 1, ver |-> IF edited THEN 1 ELSE 0, next |-> 1])

ReplanGoalCAS(user, goal) ==
    Plus(Cas(Update("goals", [id |-> {goal}, user |-> {user}, status |-> {"active_cycle"}]),
             <<"goals", goal>>, {"rev", "ver", "next"}),
         [rev |-> 1, next |-> 1])

TerminateGoalCAS(user, goal, op) ==
    Plus(Set(Cas(Update("goals", [id |-> {goal}, user |-> {user}, status |-> Progressing]),
                 <<"goals", goal>>, {"rev"}),
             [status |-> "ended", op |-> op]),
         [rev |-> 1])

FindGoalTerminationReceipt(user, op) ==
    Select("goals", [user |-> {user}, op |-> {op}])

\* ---------------------------------------------------------------- deletion

\* The receipt is one whose expires_at is still to come; GoalLifecycle has others.
FindGoalDeleteReceipt(user, op) ==
    Select("receipts", [user |-> {user}, op |-> {op}])

LockGoalForDelete(user, goal) ==
    Lock("goals", [id |-> {goal}, user |-> {user}])

LockGoalDraftIDs(user, goal) ==
    Lock("drafts", [goal |-> {goal}, user |-> {user}])

DeleteGoalCAS(user, goal) ==
    Cas(Delete("goals", [id |-> {goal}, user |-> {user}]), <<"goals", goal>>, {"rev"})

InsertGoalDeleteReceipt(user, id, op) ==
    Insert("receipts", [id |-> id, user |-> user, op |-> op])

LockAccountGoalIDs(user) == Lock("goals", [user |-> {user}])

LockAccountGoalDraftIDs(user) == Lock("drafts", [user |-> {user}])

=============================================================================
