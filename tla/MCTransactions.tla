--------------------------- MODULE MCTransactions ---------------------------
(***************************************************************************)
(* Pairs of transactions for TLC.  User 1 owns a creation draft, goal 1    *)
(* with an active cycle and goal 2 under review, with generations on all   *)
(* three; user 2 owns a creation draft.  The rows a transaction inserts    *)
(* take ids of its own (10 + t), and requests marked "same" share the      *)
(* operation id of the other transaction.                                  *)
(***************************************************************************)
EXTENDS StoredData

NewId(t) == 10 + t
SharedOperation == 7

Users == {1, 2}

StartBuckets == <<1, 2>>
AIBuckets(user) == <<2 + user, 5, 6>>

\* -------------------------------------------------------------- databases

Goal(user, status) ==
    [id |-> 0, user |-> user, status |-> status, rev |-> 0, ver |-> 1, next |-> 2, op |-> 0]

Version(goal) == [id |-> goal, user |-> 1, goal |-> goal, number |-> 1, op |-> goal]

Cycle(goal, status, format) ==
    [id |-> goal, user |-> 1, goal |-> goal, version |-> goal, seq |-> 1, status |-> status,
     rev |-> 0, plan |-> 0, do |-> 0, check |-> 0, action |-> 0, format |-> format,
     start |-> goal, finish |-> IF status = "completed" THEN goal ELSE 0, reason |-> "none"]

Draft(id, user, type) ==
    IF type = "creation"
    THEN [id |-> id, user |-> user, type |-> type, goal |-> 0, version |-> 0, cycle |-> 0, rev |-> 0]
    ELSE [id |-> id, user |-> user, type |-> type, goal |-> id, version |-> id, cycle |-> id, rev |-> 0]

\* A third goal of user 1, under review: no room for another one.
ThirdGoal ==
    (<<"goals", 3>> :> [Goal(1, "goal_review") EXCEPT !.id = 3]) @@ (<<"versions", 3>> :> Version(3))
        @@ (<<"cycles", 3>> :> Cycle(3, "completed", "encrypted"))
        @@ (<<"drafts", 4>> :> [Draft(3, 1, "review") EXCEPT !.id = 4])

\* Generation 1 is for the action of cycle 1, 2 for the review, 3 for the
\* creation draft.
Target(id) ==
    CASE id = 1 -> [goal |-> 1, version |-> 1, cycle |-> 1, draft |-> 0]
      [] id = 2 -> [goal |-> 2, version |-> 2, cycle |-> 0, draft |-> 2]
      [] id = 3 -> [goal |-> 0, version |-> 0, cycle |-> 0, draft |-> 1]

Kind(id) == IF id = 1 THEN "action_generate" ELSE "goal_refine"
MonthOf(id) == IF id = 1 THEN 1 ELSE 2

Generation(id, status, lease) ==
    Target(id) @@ [id |-> id, user |-> 1, type |-> Kind(id), op |-> id, status |-> status,
                   month |-> MonthOf(id), cost |-> IF status = "running" THEN 1 ELSE 0,
                   lease |-> lease, adopted |-> 0]

Usage(id, status, old) ==
    [id |-> id, user |-> 1, goal |-> Target(id).goal, status |-> status, final |-> status # "accepted",
     month |-> IF status = "accepted" THEN MonthOf(id) ELSE 0,
     cost |-> IF status = "accepted" THEN 1 ELSE 0, old |-> old, content_deleted |-> FALSE]

\* A usage whose generation has gone, still waiting for its cost.
Orphan(id) == [Usage(id, "accepted", FALSE) EXCEPT !.goal = 0, !.status = "failed", !.content_deleted = TRUE]

Aggregates(format) ==
    (<<"goals", 1>> :> [Goal(1, "active_cycle") EXCEPT !.id = 1])
        @@ (<<"goals", 2>> :> [Goal(1, "goal_review") EXCEPT !.id = 2])
        @@ [k \in {"versions"} \X {1, 2} |-> Version(k[2])]
        @@ (<<"cycles", 1>> :> Cycle(1, "active", format))
        @@ (<<"cycles", 2>> :> Cycle(2, "completed", format))
        @@ (<<"schedules", 1>> :> [id |-> 1, rev |-> 1])
        @@ (<<"drafts", 1>> :> Draft(1, 1, "creation"))
        @@ (<<"drafts", 2>> :> Draft(2, 1, "review"))
        @@ (<<"drafts", 3>> :> Draft(3, 2, "creation"))
        @@ (<<"draftSignals", 2>> :> [id |-> 2])

People ==
    [k \in {"users"} \X Users |-> [id |-> k[2]]]
        @@ [k \in {"sessions"} \X {1} |-> [id |-> 1, user |-> 1, revoked |-> FALSE, seen |-> 0]]

Budget(running) ==
    [k \in {"months"} \X {1, 2} |->
        [id |-> k[2], reserved |-> Cardinality({i \in running : MonthOf(i) = k[2]}),
         actual |-> 0, unattributed |-> 0]]

Operations(running, lease, status, old) ==
    [k \in {"generations"} \X (1..3) |->
        IF k[2] \in running THEN Generation(k[2], "running", lease) ELSE Generation(k[2], status, "none")]
      @@ [k \in {"usages"} \X (1..3) |->
            IF k[2] \in running THEN Usage(k[2], "accepted", FALSE) ELSE Usage(k[2], status, old)]

Workspace(format, running, lease, status, old) ==
    Aggregates(format) @@ People @@ Budget(running) @@ Operations(running, lease, status, old)

Expiring == Workspace("encrypted", 1..3, "expired", "succeeded", FALSE)

\* Generations that have ended, lately or long ago, that run, that run past
\* their lease.
Quiet == Workspace("encrypted", {}, "none", "succeeded", FALSE)
Legacy == ThirdGoal @@ Workspace("legacy", {}, "none", "failed", TRUE)
Live == Workspace("encrypted", 1..3, "live", "succeeded", FALSE)

\* --------------------------------------------------------------- programs

Operation(t, same) == IF same THEN SharedOperation ELSE NewId(t)

\* The requests about goals, cycles and reviews, with an operation of their
\* own or a shared one.
Transitions(t, same) ==
    LET n == NewId(t)  op == Operation(t, same)
    IN  [start     |-> StartGoal(1, 1, 0, n, op, StartBuckets, "replayStart", "lostStart"),
         delete1   |-> DeleteGoal(1, 1, 0, n, op),
         delete2   |-> DeleteGoal(1, 2, 0, n, op),
         complete  |-> CompleteCycle(1, 1, 1, 0, 0, n, op, "replayComplete"),
         replan    |-> ReplanCycle(1, 1, 1, 0, 0, n, op, "replayReplan", "lostReplan"),
         continue  |-> ContinueReview(1, 2, 0, 2, n, op, "replayContinue", "lostContinue", FALSE),
         edited    |-> ContinueReview(1, 2, 0, 2, n, op, "replayContinue", "lostContinue", TRUE),
         terminate |-> TerminateActiveCycle(1, 1, 1, 0, 0, op, "replayTerminate"),
         end       |-> TerminateGoalReview(1, 2, 0, 2, op, "replayEnd")]

Saves(t) ==
    [create   |-> CreateDraft(2, NewId(t)),
     save     |-> SaveDraft(1, 1, 0, TRUE),
     review   |-> SaveReview(1, 2, 2, 0, FALSE),
     abandon  |-> AbandonDraft(1, 1, 0),
     plan     |-> SaveFrame(1, 1, 1, "plan", 0, "migratePlan"),
     action   |-> SaveFrame(1, 1, 1, "action", 0, "migrateAction"),
     schedule |-> ChangeReviewSchedule(1, 1, 1, 1)]

Refines(t) ==
    LET n == NewId(t)
    IN  [refine   |-> BeginGoalRefine(1, 1, 0, 0, 0, n, 1, n, AIBuckets(1)),
         rethink  |-> BeginGoalRefine(1, 2, 0, 2, 2, n, 1, n, AIBuckets(1)),
         generate |-> BeginActionAI(1, "action_generate", 1, 1, 1, 0, n, 1, n, AIBuckets(1), "replayAI"),
         repeat   |-> BeginActionAI(1, "action_generate", 1, 1, 1, 0, n, 1, 1, AIBuckets(1), "replayAI"),
         other    |-> BeginGoalRefine(2, 3, 0, 0, 0, n, 1, n, AIBuckets(2)),
         refined  |-> FinishGoalRefine(1, 1, 0, 3, 2, "succeeded", "late3", "lateLocked3", "failed3"),
         rethought |-> FinishGoalRefine(1, 2, 2, 2, 2, "succeeded", "late2", "lateLocked2", "failed2"),
         generated |-> FinishActionAI(1, "action_generate", 1, 1, FALSE, 1, 1, "late1", "lateLocked1", "failed1"),
         adopt    |-> AdoptGoalSuggestion(1, 2, 0, 2, 0, 2),
         leave    |-> DeleteAccount(1)]

Pages ==
    [home   |-> Home(1),
     page   |-> GetReview(1, 2),
     cycles |-> QueryCycleRows(1, 1),
     cycle  |-> QueryCycle(1, 1, 1)]

\* What they continue with.
Continuations(t, same) ==
    LET op == Operation(t, same)
    IN  [lostStart    |-> ClassifyLostStart(1, op),
         lostReplan   |-> ClassifyLostClaim(1, 1, op),
         lostContinue |-> ClassifyLostClaim(1, 2, op),
         replayStart  |-> ReplayStart(1),
         replayComplete |-> ReplayComplete(1, 1, 1),
         replayReplan |-> ReplayReplan(1, 1, 1),
         replayContinue |-> ReplayContinue(1, 2),
         replayTerminate |-> ReplayTerminate(1, 1, 1),
         replayEnd    |-> ReplayTerminate(1, 2, 0),
         migratePlan  |-> saveLegacyCycleFrameCAS(1, 1, 1, "plan"),
         migrateAction |-> saveLegacyCycleFrameCAS(1, 1, 1, "action"),
         replayAI     |-> ReplayActionAI(1, "action_generate", 1, 1, 1),
         late1        |-> SettleLate(1, 1, 1),
         late2        |-> SettleLate(1, 2, 2),
         late3        |-> SettleLate(1, 3, 2),
         lateLocked1  |-> SettleLateLocked(1, 1, 1),
         lateLocked2  |-> SettleLateLocked(1, 2, 2),
         lateLocked3  |-> SettleLateLocked(1, 3, 2),
         failed1      |-> FailActionAI(1, "action_generate", 1, 1, 1, 1, "lateLocked1"),
         failed2      |-> FailGoalRefine(1, 2, 2, 2, "lateLocked2"),
         failed3      |-> FailGoalRefine(1, 1, 3, 2, "lateLocked3")]

\* A name stands for itself, "same " before it for its shared operation.
SameNames == [start |-> "same start", delete1 |-> "same delete1", delete2 |-> "same delete2",
              complete |-> "same complete", replan |-> "same replan", continue |-> "same continue",
              edited |-> "same edited", terminate |-> "same terminate", end |-> "same end"]

Renamed(programs, names) ==
    [n \in {names[m] : m \in DOMAIN names} |-> programs[CHOOSE m \in DOMAIN names : names[m] = n]]

\* ---------------------------------------------------------------- requests

Names(list) == {list[n] : n \in DOMAIN list}

\* Two of the names, or three different ones; their order does not matter.
Pairs(names) ==
    {(1 :> names[p[1]] @@ 2 :> names[p[2]]) :
        p \in {q \in (DOMAIN names) \X (DOMAIN names) : q[1] <= q[2]}}

Triples(names) ==
    {(1 :> names[p[1]] @@ 2 :> names[p[2]] @@ 3 :> names[p[3]]) :
        p \in {q \in (DOMAIN names) \X (DOMAIN names) \X (DOMAIN names) : q[1] < q[2] /\ q[2] < q[3]}}

With(names, others) == {(1 :> p[1] @@ 2 :> p[2]) : p \in names \X others}

TransitionNames ==
    <<"start", "delete1", "delete2", "complete", "replan", "continue", "edited", "terminate", "end">>

SharedNames == [n \in DOMAIN TransitionNames |-> SameNames[TransitionNames[n]]]

SaveNames == <<"save", "review", "abandon", "plan", "action", "schedule">>

AINames == <<"refine", "rethink", "generate", "repeat", "refined", "rethought", "generated", "adopt", "leave">>

WorkspaceNames == SaveNames \o TransitionNames \o AINames

PlainAsked ==
    Pairs(SaveNames \o TransitionNames) \cup Pairs(SharedNames)
        \cup With(Names(TransitionNames), DOMAIN Pages \cup {"create"})

AIAsked ==
    Pairs(AINames) \cup With(Names(SaveNames \o TransitionNames), Names(AINames))
        \cup With(Names(WorkspaceNames), {"other"})

\* Three at a time, of those that lock in the most different ways.
TripleNames ==
    <<"continue", "delete2", "rethink", "generate", "generated", "leave", "other">>

\* ---------------------------------------------------------------- accounts

\* User 1 came by bootstrap key 1; subject 5 may be linked to user 2.
Account(fresh, linked) ==
    (<<"bootstraps", 1>> :> [id |-> 1, user |-> 1, fresh |-> fresh])
        @@ (<<"sessions", 2>> :> [id |-> 2, user |-> 2, revoked |-> FALSE, seen |-> 0])
        @@ (IF linked THEN <<"identities", 2>> :> [id |-> 2, user |-> 2, subject |-> 5] ELSE NoRows)

\* Counters, guards and usages whose time has passed.
Leftovers ==
    [k \in {"buckets"} \X {2, 7} |-> [id |-> k[2], count |-> 1, old |-> TRUE]]
        @@ (<<"guards", 1>> :> [id |-> 1, old |-> TRUE])
        @@ (<<"usages", 4>> :> [Usage(3, "failed", TRUE) EXCEPT !.id = 4, !.content_deleted = TRUE])

AccountScenes ==
    {Account(TRUE, FALSE) @@ Leftovers @@ Workspace("encrypted", {}, "none", "succeeded", FALSE),
     Account(FALSE, TRUE) @@ Leftovers @@ Workspace("encrypted", 1..3, "live", "succeeded", FALSE),
     People @@ Aggregates("encrypted") @@ (<<"sessions", 2>> :> [id |-> 2, user |-> 2, revoked |-> FALSE, seen |-> 0])}

\* key 1 may be found with user 1, or with the user the other one created.
Visits(t) ==
    LET n == NewId(t)  other == NewId(IF t = 1 THEN 2 ELSE 1)
    IN  [resume      |-> CreateOrResumeAnonymous(1, 1, n, "arrive", "recreate", "resumeOther"),
         resumeOther |-> CreateOrResumeAnonymous(1, other, n, "arrive", "recreate", "error"),
         arrive      |-> CreateAnonymous(1, n, "resumeAgain"),
         recreate    |-> RecreateAnonymous(1, n, "resumeAgain"),
         resumeAgain |-> CreateOrResumeAnonymous(1, other, n, "arrive", "recreate", "error"),
         touch       |-> Touch(1, 1),
         converge    |-> ConvergeCSRF(1),
         upgrade     |-> UpgradeGoogle(1, 1, 5, n, "link"),
         link        |-> LinkGoogle(1, 1, 5, n),
         upgrade2    |-> UpgradeGoogle(2, 2, 5, n, "link2"),
         link2       |-> LinkGoogle(2, 2, 5, n),
         login       |-> LoginGoogle(2, 1, 5, n),
         leave2      |-> DeleteAccount(2)]

Limits(t) ==
    [rate   |-> CheckAnonymousRate(1, 7),
     count  |-> CountCandidates,
     usages |-> DeleteAIUsageEventsBatch,
     buckets |-> DeleteAbuseRateBucketsBatch,
     guards |-> DeleteAnonymousRateLimitGuardsBatch]

AccountNames ==
    <<"resume", "touch", "converge", "upgrade", "upgrade2", "login", "leave", "leave2", "rate",
      "count", "usages", "buckets", "guards", "start", "other">>

AccountAsked == Pairs(AccountNames)

\* ------------------------------------------------------------------ starts

Programs(t) ==
    Transitions(t, FALSE) @@ Renamed(Transitions(t, TRUE), SameNames) @@ Saves(t) @@ Refines(t)
        @@ Visits(t) @@ Limits(t) @@ Pages @@ Continuations(t, TRUE)

AllPrograms == (1 :> Programs(1)) @@ (2 :> Programs(2)) @@ (3 :> Programs(3))

\* asked names a program for some of the transactions, the others are idle.
StartsOf(scenes, asked) ==
    {[db |-> scene, asked |-> request @@ [t \in Tx |-> "none"]] : scene \in scenes, request \in asked}

AllStarts ==
    StartsOf({Quiet, Legacy}, PlainAsked) \cup StartsOf({Quiet, Live, Expiring}, AIAsked)
        \cup StartsOf(AccountScenes, AccountAsked)
        \cup StartsOf({Expiring}, Triples(TripleNames))

\* The values of the constants; TLC evaluates what they stand for once.
MCProgram == AllPrograms
MCStarts == AllStarts

=============================================================================
