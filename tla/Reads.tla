-------------------------------- MODULE Reads --------------------------------
(***************************************************************************)
(* The requests that only read and need several statements.  The home page *)
(* is not a transaction: its two statements see two moments.  The others   *)
(* read one snapshot (REPEATABLE READ, READ ONLY).                         *)
(***************************************************************************)
EXTENDS UnitsOfWork

Home(user) ==
    <<View("home", [user |-> user], "goals", "refused"), View("creation", [user |-> user], "draft", "next")>>

\* Mutant: every statement of the review page sees its own moment.
MutGetReview(user, goal) ==
    LoadGoalView(user, goal, "refused")
        \o <<Check(Exists("goals", [id |-> {goal}]), [status |-> {"goal_review"}]),
             View("review", [user |-> user, goal |-> goal], "draft", "error"),
             Agree(Copy(View("cycle", [user |-> user, goal |-> goal, cycle |-> 0], "cycle", "error"),
                        [cycle |-> At(<<"draft", 0>>, "cycle")]), "review")>>

\* A goal in review whose draft or completed cycle is missing, or about
\* something else, is an invariant error.
GetReview(user, goal) ==
    <<Snapshot>> \o LoadGoalView(user, goal, "refused")
        \o <<Check(Exists("goals", [id |-> {goal}]), [status |-> {"goal_review"}]),
             View("review", [user |-> user, goal |-> goal], "draft", "error"),
             Agree(Copy(View("cycle", [user |-> user, goal |-> goal, cycle |-> 0], "cycle", "error"),
                        [cycle |-> At(<<"draft", 0>>, "cycle")]), "review")>>

OwnedGoal(user, goal) == <<Snapshot, One(Exists("goals", [id |-> {goal}, user |-> {user}]), "refused")>>

QueryCycleRows(user, goal) ==
    OwnedGoal(user, goal) \o <<View("cycles", [user |-> user, goal |-> goal], "cycles", "refused")>>

QueryCycle(user, goal, cycle) ==
    OwnedGoal(user, goal) \o Agreeing(LoadCycleView(user, goal, cycle, "cycle", "refused"), "cycle")

=============================================================================
