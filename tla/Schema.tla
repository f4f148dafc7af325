------------------------------- MODULE Schema -------------------------------
(***************************************************************************)
(* The tables of the database as the concurrency of the transactions sees  *)
(* them: which row refers to which (and what happens to it when that row   *)
(* goes away), which values are unique, and which checks a row must pass.  *)
(* A row is a record with an id; 0 stands for NULL in a reference.         *)
(***************************************************************************)
EXTENDS Integers, SequencesExt, FiniteSets, TLC

CONSTANT Absent   \* a key that has no row

\* Rows are functions from keys, <<table, id>>, to records.
Row(rows, key) == IF key \in DOMAIN rows THEN rows[key] ELSE Absent

\* A foreign key.  "cascade" and "set null" are checked by the statement and
\* act when the parent is deleted; "deferred" is checked by the commit.
Reference(from, field, to, rule) ==
    [from |-> from, field |-> field, to |-> to, rule |-> rule]

SessionReferences ==
    {Reference("bootstraps", "user", "users", "cascade"),
     Reference("identities", "user", "users", "cascade"),
     Reference("sessions", "user", "users", "cascade")}

GoalReferences ==
    {Reference("goals", "user", "users", "cascade"),
     Reference("versions", "goal", "goals", "cascade"),
     Reference("versionSignals", "id", "versions", "cascade"),
     Reference("receipts", "user", "users", "cascade")}

CycleReferences ==
    {Reference("cycles", "goal", "goals", "cascade"),
     Reference("cycles", "version", "versions", "deferred"),
     Reference("schedules", "id", "cycles", "cascade")}

DraftReferences ==
    {Reference("drafts", "user", "users", "cascade"),
     Reference("drafts", "goal", "goals", "cascade"),
     Reference("drafts", "version", "versions", "deferred"),
     Reference("drafts", "cycle", "cycles", "deferred"),
     Reference("draftSignals", "id", "drafts", "cascade")}

AIReferences ==
    {Reference("generations", "user", "users", "cascade"),
     Reference("generations", "draft", "drafts", "deferred"),
     Reference("generations", "goal", "goals", "cascade"),
     Reference("generations", "version", "versions", "cascade"),
     Reference("generations", "cycle", "cycles", "deferred"),
     Reference("usages", "user", "users", "cascade"),
     Reference("usages", "goal", "goals", "set null")}

\* The order in which one statement meets the keys of several tables: the
\* row itself, then the unique indexes, then the tables it refers to or
\* deletes from, in the order the migrations create them.
KeyOrder ==
    <<"bootstrap_key", "bootstrap_user", "identity_subject", "identity_user",
      "terminal_operation", "version_number", "version_operation",
      "start_operation", "cycle_sequence", "completion_operation",
      "active_cycle", "creation_draft", "review_draft", "idempotency_key",
      "running_cycle", "running_draft", "month", "receipt_key", "bucket",
      "guard", "signal", "users", "bootstraps", "identities", "sessions",
      "goals", "versions", "cycles", "drafts", "generations", "usages",
      "months", "receipts", "buckets", "guards", "schedules",
      "versionSignals", "draftSignals">>

Tables == {KeyOrder[n] : n \in 22..Len(KeyOrder)}

Position == FoldLeft(LAMBDA f, name : (name :> Cardinality(DOMAIN f)) @@ f, <<>>, KeyOrder)

References == SessionReferences \cup GoalReferences \cup CycleReferences
                  \cup DraftReferences \cup AIReferences

\* The keys a row refers to by the rules given.
Parents(key, row, rules) ==
    {<<r.to, row[r.field]>> :
        r \in {q \in References : q.from = key[1] /\ q.rule \in rules /\ row[q.field] # 0}}

\* The unique index entries of a row; an index WHERE leaves some rows out.
SessionEntries(table, row) ==
    CASE table = "bootstraps" -> {<<"bootstrap_key", <<row.id>>>>, <<"bootstrap_user", <<row.user>>>>}
      [] table = "identities" -> {<<"identity_subject", <<row.subject>>>>, <<"identity_user", <<row.user>>>>}
      [] table = "months"     -> {<<"month", <<row.id>>>>}
      [] table = "receipts"   -> {<<"receipt_key", <<row.user, row.op>>>>}
      [] table = "buckets"    -> {<<"bucket", <<row.id>>>>}
      [] table = "guards"     -> {<<"guard", <<row.id>>>>}
      [] table \in {"schedules", "versionSignals", "draftSignals"} -> {<<"signal", <<table, row.id>>>>}
      [] OTHER -> {}

GoalEntries(row) ==
    IF row.op # 0 THEN {<<"terminal_operation", <<row.user, row.op>>>>} ELSE {}

VersionEntries(row) ==
    {<<"version_number", <<row.goal, row.number>>>>, <<"version_operation", <<row.goal, row.op>>>>}

CycleEntries(row) ==
    {<<"start_operation", <<row.user, row.start>>>>, <<"cycle_sequence", <<row.goal, row.seq>>>>}
        \cup (IF row.finish # 0 THEN {<<"completion_operation", <<row.user, row.finish>>>>} ELSE {})
        \cup (IF row.status = "active" THEN {<<"active_cycle", <<row.goal>>>>} ELSE {})

DraftEntries(row) ==
    IF row.type = "creation" THEN {<<"creation_draft", <<row.user>>>>}
                             ELSE {<<"review_draft", <<row.goal>>>>}

GenerationEntries(row) ==
    {<<"idempotency_key", <<row.user, row.type, row.op>>>>}
        \cup (IF row.status = "running" /\ row.cycle # 0 THEN {<<"running_cycle", <<row.cycle>>>>} ELSE {})
        \cup (IF row.status = "running" /\ row.draft # 0 THEN {<<"running_draft", <<row.draft>>>>} ELSE {})

Entries(key, row) ==
    IF row = Absent THEN {}
    ELSE CASE key[1] = "goals"       -> GoalEntries(row)
           [] key[1] = "versions"    -> VersionEntries(row)
           [] key[1] = "cycles"      -> CycleEntries(row)
           [] key[1] = "drafts"      -> DraftEntries(row)
           [] key[1] = "generations" -> GenerationEntries(row)
           [] OTHER -> SessionEntries(key[1], row)

\* What the CHECKs of the tables ask of a row by itself.
GoalCheck(row) == (row.op = 0) <=> (row.status \in {"active_cycle", "goal_review"})

CycleCheck(row) ==
    /\ (row.finish # 0) <=> (row.status = "completed")
    /\ (row.reason # "none") <=> (row.status = "canceled")

DraftCheck(row) ==
    IF row.type = "creation" THEN row.goal = 0 /\ row.version = 0 /\ row.cycle = 0
                             ELSE row.goal # 0 /\ row.version # 0 /\ row.cycle # 0

GenerationCheck(row) ==
    /\ row.status # "running" => row.cost = 0 /\ row.lease = "none"
    /\ row.status = "running" => row.lease # "none"
    /\ row.adopted # 0 => row.type = "goal_refine" /\ row.status = "succeeded"
    /\ IF row.type = "goal_refine"
       THEN row.cycle = 0 /\ (row.draft # 0 \/ row.goal # 0) /\ (row.goal # 0 <=> row.version # 0)
       ELSE row.draft = 0 /\ row.goal # 0 /\ row.version # 0 /\ row.cycle # 0

UsageCheck(row) == row.final <=> (row.month = 0)

BudgetCheck(row) == row.reserved >= 0 /\ row.actual >= 0 /\ row.unattributed >= 0

RowCheck(key, row) ==
    \/ row = Absent
    \/ CASE key[1] = "goals"       -> GoalCheck(row)
         [] key[1] = "cycles"      -> CycleCheck(row)
         [] key[1] = "drafts"      -> DraftCheck(row)
         [] key[1] = "generations" -> GenerationCheck(row)
         [] key[1] = "usages"      -> UsageCheck(row)
         [] key[1] = "months"      -> BudgetCheck(row)
         [] OTHER -> TRUE

\* What the constraints promise of the rows together: each passes the checks of
\* its table, no two share an index entry, and every row referred to is there.
Checked(rows) == \A k \in DOMAIN rows : rows[k] # Absent /\ RowCheck(k, rows[k])

Distinct(rows) ==
    \A j, k \in DOMAIN rows : j # k => Entries(j, rows[j]) \cap Entries(k, rows[k]) = {}

Whole(rows) ==
    \A k \in DOMAIN rows : Parents(k, rows[k], {"cascade", "set null", "deferred"}) \subseteq DOMAIN rows

\* What the triggers ask of the tables: an unfinalized usage is inserted with
\* a running generation of the same month and reservation, and a user is
\* deleted only while every unfinalized usage of that user still has a
\* running generation.
Backed(rows, usage) ==
    LET g == Row(rows, <<"generations", usage.id>>)
    IN  g # Absent /\ g.status = "running" /\ g.month = usage.month /\ g.cost = usage.cost

UserDeletable(rows, user) ==
    \A k \in {q \in DOMAIN rows : q[1] = "usages" /\ rows[q] # Absent} :
        rows[k].user = user /\ ~rows[k].final
            => \E g \in {Row(rows, <<"generations", k[2]>>)} : g # Absent /\ g.status = "running"

=============================================================================
