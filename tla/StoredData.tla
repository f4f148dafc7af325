----------------------------- MODULE StoredData -----------------------------
(***************************************************************************)
(* The database under the transactions of the server, and what must be     *)
(* true of what they have committed whenever anyone looks.                 *)
(***************************************************************************)
EXTENDS RowStore, AccountTransactions, Reads

Stored(rows, table) == {k \in DOMAIN rows : k[1] = table}

\* Every page can be shown: each goal has the version and the work of its
\* status, each cycle its version, its place after the cycle before it and
\* the revision that counts the saves of its frames, each goal under review
\* its draft and the completed cycle the draft is about.  The mappings of the
\* code fail the request otherwise.
GoalReadable(rows, g) ==
    \E view \in {GetGoalView(rows, g.user, g.id)} : /\ mapGoalView(view)
        /\ view.draft # Absent =>
              \E trigger \in {GetCycleView(rows, g.user, g.id, view.trigger.id)} :
                  validateGoalReviewView(view, view.draft, trigger)

CycleReadable(rows, c) ==
    \E view \in {GetCycleView(rows, c.user, c.goal, c.id)} : cycleViewFromReadRow(view) /\ validateCycleView(view)

Readable(rows) ==
    /\ \A k \in Stored(rows, "goals") : GoalReadable(rows, rows[k])
    /\ \A k \in Stored(rows, "cycles") : CycleReadable(rows, rows[k])
    /\ \A k \in Stored(rows, "drafts") : mapDraftView(GetGoalDraftByID(rows, rows[k].user, k[2]))

\* Every commit leaves a database all of whose pages can be shown.
CommitsReadable == [][\A rows \in {db'} \ {db} : Readable(rows)]_vars

\* The money that a month holds back is that of the generations running on
\* it, each with its open usage of the same month and amount, and never more
\* than the budget, whichever way the generations end: finished, expired,
\* or deleted with their goal or their account.
RunningIn(rows, month) == {k \in Stored(rows, "generations") : rows[k].status = "running" /\ rows[k].month = month}

Backing(rows) ==
    /\ \A k \in Stored(rows, "months") :
          rows[k].reserved = Cardinality(RunningIn(rows, k[2])) /\ rows[k].reserved <= BudgetLimit
    /\ \A k \in Stored(rows, "generations") : rows[k].status = "running" =>
          \E u \in {Row(rows, <<"usages", k[2]>>)} :
              u # Absent /\ ~u.final /\ u.month = rows[k].month /\ u.cost = rows[k].cost

CommitsBacked == [][\A rows \in {db'} \ {db} : Backing(rows)]_vars

\* No user has more goals in progress, active or under review, than allowed.
Room(rows) ==
    \A u \in Stored(rows, "users") :
        Cardinality({k \in Stored(rows, "goals") : rows[k].user = u[2] /\ rows[k].status # "ended"}) <= GoalLimit

CommitsWithinLimit == [][\A rows \in {db'} \ {db} : Room(rows)]_vars

=============================================================================
