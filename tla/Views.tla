-------------------------------- MODULE Views --------------------------------
(***************************************************************************)
(* What the server reads back: the queries that join a goal, a cycle or a  *)
(* draft with what belongs to it, the rows that the mappings accept, and   *)
(* the agreement the use cases ask of several answers before they send     *)
(* them.  A mapping that refuses a row makes the whole request fail with a *)
(* persistence invariant error.                                            *)
(***************************************************************************)
EXTENDS Schema

Sought(rows, table, columns) ==
    {k \in DOMAIN rows : k[1] = table /\ rows[k] # Absent
                         /\ \A c \in DOMAIN columns : rows[k][c] = columns[c]}

\* A LEFT JOIN on columns that are unique together.
Joined(rows, table, columns) ==
    LET found == Sought(rows, table, columns)
    IN  IF found = {} THEN Absent ELSE rows[CHOOSE k \in found : TRUE]

\* ------------------------------------------------------------------- goals

GoalColumns(rows, g) ==
    LET active == Joined(rows, "cycles", [user |-> g.user, goal |-> g.id, status |-> "active"])
        draft  == Joined(rows, "drafts", [user |-> g.user, goal |-> g.id, type |-> "review"])
    IN  [goal     |-> g,
         version  |-> Joined(rows, "versions", [user |-> g.user, goal |-> g.id, number |-> g.ver]),
         active   |-> active,
         schedule |-> IF active = Absent THEN Absent ELSE Row(rows, <<"schedules", active.id>>),
         draft    |-> draft,
         trigger  |-> IF draft = Absent THEN Absent
                      ELSE Joined(rows, "cycles", [id |-> draft.cycle, user |-> g.user, goal |-> g.id])]

GetGoalView(rows, user, goal) ==
    LET g == Joined(rows, "goals", [id |-> goal, user |-> user])
    IN  IF g = Absent THEN Absent ELSE GoalColumns(rows, g)

ListGoalViews(rows, user, statuses) ==
    {GoalColumns(rows, rows[k]) :
        k \in {q \in Sought(rows, "goals", [user |-> user]) : rows[q].status \in statuses}}

ListHomeGoalViews(rows, user) == ListGoalViews(rows, user, {"active_cycle", "goal_review"})

\* A goal has the current work of its status and no other.
mapGoalView(view) ==
    /\ view.version # Absent
    /\ \/ /\ view.goal.status = "active_cycle" /\ view.goal.op = 0
          /\ view.active # Absent /\ view.draft = Absent
       \/ /\ view.goal.status = "goal_review" /\ view.goal.op = 0
          /\ view.active = Absent /\ view.draft # Absent /\ view.trigger # Absent
       \/ /\ view.goal.status = "ended" /\ view.goal.op # 0
          /\ view.active = Absent /\ view.draft = Absent

\* ------------------------------------------------------------------ drafts

GetHomeCreationGoalDraft(rows, user) == Joined(rows, "drafts", [user |-> user, type |-> "creation"])

GetGoalDraftByID(rows, user, draft) == Joined(rows, "drafts", [id |-> draft, user |-> user])

GetGoalReviewDraft(rows, user, goal) ==
    Joined(rows, "drafts", [goal |-> goal, user |-> user, type |-> "review"])

mapDraftView(draft) ==
    IF draft.type = "creation" THEN 0 = draft.goal /\ 0 = draft.version /\ 0 = draft.cycle
                               ELSE 0 \notin {draft.goal, draft.version, draft.cycle}

\* ------------------------------------------------------------------ cycles

CycleVersion(rows, c) ==
    IF c = Absent THEN Absent ELSE Joined(rows, "versions", [id |-> c.version, goal |-> c.goal])

GetCycleView(rows, user, goal, cycle) ==
    LET c == Joined(rows, "cycles", [id |-> cycle, goal |-> goal, user |-> user])
    IN  IF c = Absent \/ Joined(rows, "goals", [id |-> goal, user |-> user]) = Absent THEN Absent
        ELSE LET previous == Joined(rows, "cycles", [user |-> user, goal |-> goal, seq |-> c.seq - 1])
             IN  [cycle           |-> c,
                  version         |-> CycleVersion(rows, c),
                  schedule        |-> Row(rows, <<"schedules", cycle>>),
                  previous        |-> previous,
                  previousVersion |-> CycleVersion(rows, previous)]

ListCycleSummaries(rows, user, goal) ==
    {[cycle |-> rows[k], version |-> CycleVersion(rows, rows[k])] :
        k \in Sought(rows, "cycles", [user |-> user, goal |-> goal])}

OwnedGoalExistsForCycleRead(rows, user, goal) ==
    Joined(rows, "goals", [id |-> goal, user |-> user]) # Absent

\* Completion and cancellation leave their marks, and nothing else does.
cycleLifecycleFromSQLC(c) ==
    /\ c.status \in {"active", "completed", "canceled"}
    /\ c.status = "completed" <=> c.finish # 0

cycleCancellationReasonFromSQLC(c) == c.status = "canceled" <=> c.reason # "none"

cycleGoalVersionViewFromSQLC(version) == version # Absent

cycleSummaryFromReadRow(view) ==
    /\ cycleLifecycleFromSQLC(view.cycle) /\ cycleCancellationReasonFromSQLC(view.cycle)
    /\ cycleGoalVersionViewFromSQLC(view.version)

\* The cycle before an active one was completed, or was canceled by a replan
\* under the same version of the goal.
previousCompletedCycleActionFromSQLC(view) ==
    \/ view.cycle.status # "active"
    \/ view.cycle.seq = 1 /\ view.previous = Absent
    \/ /\ view.cycle.seq # 1 /\ view.previous # Absent /\ view.previousVersion # Absent
       /\ view.previousVersion.number \in (view.version.number - 1)..view.version.number
       /\ \/ view.previous.status = "completed"
          \/ /\ view.previous.status = "canceled" /\ view.previous.reason = "replanned"
             /\ view.previousVersion.number = view.version.number

cycleViewFromReadRow(view) ==
    cycleSummaryFromReadRow(view) /\ previousCompletedCycleActionFromSQLC(view)

\* ----------------------------------------------- agreement of the answers

\* The revision of the content counts the saves of its four frames.
validateCycleView(view) ==
    view.cycle.rev = view.cycle.plan + view.cycle.do + view.cycle.check + view.cycle.action

\* A review shows the goal, its draft and the completed cycle it is about.
validateGoalReviewView(goal, draft, trigger) ==
    /\ goal.draft.id = draft.id /\ goal.trigger.id = trigger.cycle.id
    /\ goal.goal.next > 1 /\ trigger.cycle.seq = goal.goal.next - 1
    /\ draft.goal = goal.goal.id /\ draft.version = goal.version.id /\ draft.cycle = trigger.cycle.id
    /\ trigger.cycle.status = "completed" /\ trigger.version = goal.version

validateCompletedCycleResult(goal, completed, draft) ==
    /\ validateCycleView(completed) /\ completed.cycle.status = "completed"
    /\ goal.goal.status = "goal_review" /\ goal.version = completed.version
    /\ goal.draft.id = draft.id /\ goal.trigger.id = completed.cycle.id
    /\ draft.goal = goal.goal.id /\ draft.cycle = completed.cycle.id
    /\ draft.version = completed.version.id /\ draft.rev = 0

\* The new cycle is the current work, empty, and the next in order.
FreshCycle(goal, new) ==
    /\ validateCycleView(new) /\ new.cycle.status = "active" /\ new.cycle.rev = 0
    /\ goal.goal.status = "active_cycle" /\ goal.version = new.version
    /\ goal.active.id = new.cycle.id /\ goal.goal.next = new.cycle.seq + 1

validateReplanCyclePair(canceled, new) ==
    /\ validateCycleView(canceled) /\ validateCycleView(new)
    /\ canceled.cycle.status = "canceled" /\ canceled.cycle.reason = "replanned"
    /\ new.cycle.seq = canceled.cycle.seq + 1 /\ new.version = canceled.version

validateFreshReplanCycleResult(goal, canceled, new) ==
    validateReplanCyclePair(canceled, new) /\ FreshCycle(goal, new)

validateReplanCycleReplay(goal, canceled, new) ==
    /\ validateReplanCyclePair(canceled, new)
    /\ new.cycle.status = "active" => goal.active # Absent /\ goal.active.id = new.cycle.id

validateFreshContinueReviewResult(goal, new, trigger) ==
    FreshCycle(goal, new) /\ new.previous.status = "completed" /\ new.previous.id = trigger

\* A goal that ends in review has no cycle to cancel.
validateTerminationResult(goal, canceled) ==
    /\ goal.goal.status = "ended"
    /\ canceled # Absent => /\ validateCycleView(canceled) /\ canceled.cycle.status = "canceled"
                            /\ canceled.cycle.reason = "goal_ended"

validateFreshTerminationResult(goal, canceled) ==
    /\ validateTerminationResult(goal, canceled)
    /\ canceled # Absent => goal.version = canceled.version

\* A repeated completion shows the draft while the goal is still under review
\* of this cycle. The comparison of the success signals is left out, as texts
\* are here; GoalLifecycle has it.
validateCompleteCycleReplay(goal, completed, draft) ==
    /\ validateCycleView(completed) /\ completed.cycle.status = "completed"
    /\ IF draft # Absent
       THEN /\ goal.goal.status = "goal_review" /\ goal.draft.id = draft.id
            /\ goal.trigger.id = completed.cycle.id /\ draft.version = completed.version.id
       ELSE goal.goal.status = "goal_review" => goal.trigger.id # completed.cycle.id

\* ------------------------------------------------------- views by their name

Viewed(name, rows, a) ==
    CASE name = "goal"     -> GetGoalView(rows, a.user, a.goal)
      [] name = "home"     -> ListHomeGoalViews(rows, a.user)
      [] name = "cycle"    -> GetCycleView(rows, a.user, a.goal, a.cycle)
      [] name = "cycles"   -> ListCycleSummaries(rows, a.user, a.goal)
      [] name = "creation" -> GetHomeCreationGoalDraft(rows, a.user)
      [] name = "review"   -> GetGoalReviewDraft(rows, a.user, a.goal)

Accepted(name, view) ==
    CASE name = "goal"   -> mapGoalView(view)
      [] name = "home"   -> \A v \in view : mapGoalView(v)
      [] name = "cycle"  -> cycleViewFromReadRow(view)
      [] name = "cycles" -> \A v \in view : cycleSummaryFromReadRow(v)
      [] name \in {"creation", "review"} -> mapDraftView(view)

\* picked holds the answers by name.
Agreed(name, picked) ==
    LET the(answer) == Row(picked, <<answer, 0>>)
    IN  CASE name = "cycle"      -> validateCycleView(the("cycle"))
          [] name = "review"     -> validateGoalReviewView(the("goal"), the("draft"), the("cycle"))
          [] name = "completed"  -> validateCompletedCycleResult(the("goal"), the("cycle"), the("draft"))
          [] name = "completed before" ->
                 validateCompleteCycleReplay(the("goal"), the("cycle"), the("draft"))
          [] name = "replanned"  -> validateFreshReplanCycleResult(the("goal"), the("canceled"), the("cycle"))
          [] name = "replanned before" ->
                 validateReplanCycleReplay(the("goal"), the("canceled"), the("cycle"))
          [] name = "continued"  ->
                 validateFreshContinueReviewResult(the("goal"), the("cycle"), the("review").cycle)
          [] name = "terminated" -> validateFreshTerminationResult(the("goal"), the("canceled"))
          [] name = "terminated before" -> validateTerminationResult(the("goal"), the("canceled"))

=============================================================================
