------------------------------ MODULE RowStore ------------------------------
(***************************************************************************)
(* PostgreSQL as the repository uses it: transactions that run one         *)
(* statement at a time, lock rows and index entries one by one, wait for   *)
(* each other, keep what they wrote to themselves until they commit and    *)
(* forget it when they roll back.                                          *)
(*                                                                         *)
(* A program is a sequence of statements, a statement a record (see        *)
(* Statements).  A statement finds its candidate rows in what was          *)
(* committed when it started, waits for the rows that another transaction  *)
(* has locked, and looks at each row again once it has the lock (READ      *)
(* COMMITTED).  The read-only transactions run under REPEATABLE READ: all  *)
(* their statements read the snapshot of the first.                        *)
(***************************************************************************)
EXTENDS Views, Statements

CONSTANTS Tx,       \* the transactions
          Starts,   \* where they may start: a database, and the name of a program for each
          Program   \* what to do when asked: [Tx -> [name -> sequence of statements]]

\* The constraints that the migrations declare hold where the transactions
\* start, and "error" is an end of a transaction, not a program.
ASSUME StartsAssumption ==
    \A start \in Starts : Checked(start.db) /\ Distinct(start.db) /\ Whole(start.db)

ASSUME ProgramAssumption == \A t \in Tx : "error" \notin DOMAIN Program[t]

VARIABLES db,    \* the committed rows, by key: <<table, id>>
          held,  \* per transaction: locked keys and index entries, with modes
          work   \* per transaction: the rest of its state

vars == <<db, held, work>>

NoLocks == [k \in {} |-> "update"]
NoRows == [k \in {} |-> Absent]

\* What a transaction keeps besides its locks: the program it runs and how
\* far it is, the candidates and the hits of a statement under way, its
\* writes, what its statements returned, and its outcome.
Fresh(r) ==
    [program |-> r, pc |-> 1, open |-> FALSE, todo |-> {}, hit |-> {},
     writes |-> NoRows, picked |-> NoRows, sums |-> NoRows, snapshot |-> NoRows,
     out |-> "running"]

\* "none" asks for nothing.
Begun(name) == [Fresh(name) EXCEPT !.out = IF name = "none" THEN "done" ELSE "running"]

Init ==
    /\ held = [t \in Tx |-> NoLocks]
    /\ \E start \in Starts :
          /\ db = start.db
          /\ work = [t \in Tx |-> Begun(start.asked[t])]

Code(t) == Program[t][work[t].program]
Active(t) == work[t].out = "running"
Finished(t) == work[t].pc > Len(Code(t))
Current(t) == Code(t)[work[t].pc]

\* ------------------------------------------------------------------ locks

\* The row lock modes of PostgreSQL that exclude each other.
Conflicts ==
    {{"keyshare", "update"}, {"share", "nokey"}, {"share", "update"},
     {"nokey"}, {"nokey", "update"}, {"update"}}

Excludes(mode, other) == {mode, other} \in Conflicts

\* The modes that make a lock of the given one superfluous.
AtLeast(mode) ==
    CASE mode = "update" -> {"update"}
      [] mode = "nokey"  -> {"nokey", "update"}
      [] mode = "share"  -> {"share", "nokey", "update"}
      [] OTHER           -> {"keyshare", "share", "nokey", "update"}

Covers(locks, key, mode) == key \in DOMAIN locks /\ locks[key] \in AtLeast(mode)

Holders(t, key, mode) ==
    {u \in Tx \ {t} : key \in DOMAIN held[u] /\ Excludes(mode, held[u][key])}

Grant(locks, key, mode) ==
    [k \in DOMAIN locks \cup {key} |->
        IF k = key /\ ~Covers(locks, key, mode) THEN mode ELSE locks[k]]

\* The first of a set of keys, in the order a statement meets them.
Before(j, k) ==
    \/ Position[j[1]] < Position[k[1]]
    \/ j[1] = k[1] /\ j[1] \in Tables /\ j[2] < k[2]

First(keys) == CHOOSE k \in keys : \A j \in keys : ~Before(j, k)

\* ------------------------------------------------------------------- rows

\* The rows written over those that were there.
Over(written, rows) ==
    [k \in DOMAIN written \cup DOMAIN rows |-> IF k \in DOMAIN written THEN written[k] ELSE rows[k]]

\* What transaction t reads: its own writes over what was committed, or over
\* its snapshot.
Rows(t) == Over(work[t].writes, IF work[t].snapshot = NoRows THEN db ELSE work[t].snapshot)

Of(rows, table) == {k \in DOMAIN rows : k[1] = table}

Running(generation) == generation # Absent /\ generation.status = "running"

\* The ids the code has put into a statement from what it got before.
Listed(s, w) ==
    IF s.among = "sums" THEN DOMAIN w.sums
    ELSE {k[2] : k \in {q \in DOMAIN w.picked :
            /\ q[1] = s.among
            /\ s.part # "all" => (s.part = "old") = (w.picked[q].old /\ w.picked[q].final)}}

Answered(w, at) == w.picked[at.key][at.column]

Matches(s, w, rows, key) ==
    LET row == Row(rows, key)
    IN  /\ row # Absent
        /\ \A column \in DOMAIN s.where : row[column] \in s.where[column]
        /\ \A column \in DOMAIN s.same : row[column] = Answered(w, s.same[column])
        /\ s.among # "" => row.id \in Listed(s, w)
        /\ s.left => ~Running(Row(rows, <<"generations", row.id>>))

Matching(t, s) ==
    LET rows == Rows(t) IN {k \in Of(rows, s.table) : Matches(s, work[t], rows, k)}

\* The rows that go when the given ones are deleted, and the rows whose
\* reference to one of them becomes NULL.
Children(rows, keys) ==
    keys \cup {k \in DOMAIN rows : rows[k] # Absent /\ Parents(k, rows[k], {"cascade"}) \cap keys # {}}

Falling(rows, keys) ==
    Children(rows, Children(rows, Children(rows, Children(rows, keys))))

Loosened(rows, keys) ==
    {k \in DOMAIN rows \ keys : rows[k] # Absent /\ Parents(k, rows[k], {"set null"}) \cap keys # {}}

\* The row a statement makes of a row, and the row it inserts.
Changed(s, w, row) ==
    [column \in DOMAIN row |->
        CASE column \in DOMAIN s.set -> s.set[column]
          [] column \in DOMAIN s.map /\ row[column] = s.map[column][1] -> s.map[column][2]
          [] column \in DOMAIN s.copy -> Answered(w, s.copy[column])
          [] column \in DOMAIN s.plus -> row[column] + s.plus[column]
          [] column \in DOMAIN s.bySum -> row[column] + s.bySum[column] * w.sums[row.id][column]
          [] OTHER -> row[column]]

NewRow(s, w) ==
    [column \in DOMAIN s.row |->
        IF column \in DOMAIN s.copy
        THEN Answered(w, s.copy[column]) + (IF column \in DOMAIN s.plus THEN s.plus[column] ELSE 0)
        ELSE s.row[column]]

\* The rows that already own an index entry of the row to insert; an entry
\* that another transaction is adding or removing is waited for instead.
Clashing(t, s, w) ==
    LET rows == Rows(t)
        entries == {e \in Entries(<<s.table, s.row.id>>, NewRow(s, w)) : Holders(t, e, "update") = {}}
    IN  {k \in Of(rows, s.table) : Entries(k, rows[k]) \cap entries # {}}

\* What the statement writes: keys with their new rows.
Inserted(t, s, w) ==
    LET rows == Rows(t)
        clashing == Clashing(t, s, w)
    IN  IF clashing = {} THEN [k \in {<<s.table, s.row.id>>} |-> NewRow(s, w)]
        ELSE IF s.onConflict # "update" THEN NoRows
        ELSE [k \in {c \in clashing : Matches(s, w, rows, c)} |-> Changed(s, w, rows[k])]

Updated(rows, s, w) == [k \in w.hit |-> Changed(s, w, rows[k])]

Deleted(rows, keys) ==
    LET gone == Falling(rows, keys)
    IN  [k \in gone \cup Loosened(rows, gone) |->
            IF k \in gone THEN Absent ELSE [rows[k] EXCEPT !.goal = 0]]

Effect(t, s, w) ==
    CASE s.do = "update" -> Updated(Rows(t), s, w)
      [] s.do = "delete" -> Deleted(Rows(t), w.hit)
      [] s.do = "insert" -> Inserted(t, s, w)
      [] OTHER -> NoRows

\* The locks those writes need: the row, the index entries that appear or
\* disappear, and the rows newly referred to.
Differing(a, b) == (a \ b) \cup (b \ a)

Referred(key, row) == IF row = Absent THEN {} ELSE Parents(key, row, {"cascade", "set null"})

In(keys, mode) == {<<k, mode>> : k \in keys}

RowLocks(rows, effect) ==
    {<<k, IF Absent \in {effect[k], Row(rows, k)} THEN "update" ELSE "nokey">> : k \in DOMAIN effect}

EntryLocks(rows, effect) ==
    UNION {In(Differing(Entries(k, Row(rows, k)), Entries(k, effect[k])), "update") : k \in DOMAIN effect}

ParentLocks(rows, effect) ==
    UNION {In(Referred(k, effect[k]) \ Referred(k, Row(rows, k)), "keyshare") : k \in DOMAIN effect}

Needs(rows, effect) == RowLocks(rows, effect) \cup EntryLocks(rows, effect) \cup ParentLocks(rows, effect)

\* The locks still missing: candidate rows first, then those of the writes.
Missing(t, s, w, locks) ==
    IF w.todo # {} THEN In(w.todo, s.mode)
    ELSE {n \in Needs(Rows(t), Effect(t, s, w)) : ~Covers(locks, n[1], n[2])}

NextLock(missing) ==
    LET key == First({n[1] : n \in missing}) IN CHOOSE n \in missing : n[1] = key

\* -------------------------------------------------------------- one step

\* The statement t is at, with its candidates fixed: rows already locked are
\* hits at once.
Opened(t, s) ==
    IF work[t].open THEN work[t]
    ELSE LET found == IF s.do = "insert" THEN {} ELSE Matching(t, s)
             have  == {k \in found : s.mode = "none" \/ Covers(held[t], k, s.mode)}
         IN  [work[t] EXCEPT !.open = TRUE, !.todo = found \ have, !.hit = have]

\* The statement after the lock n was granted: a candidate is looked at again.
Looked(t, s, w, n) ==
    IF n[1] \notin w.todo THEN w
    ELSE [w EXCEPT !.todo = @ \ {n[1]},
                   !.hit = IF Matches(s, w, Rows(t), n[1]) THEN @ \cup {n[1]} ELSE @]

\* How the statement ends: "next", or what the code makes of it.
Expected(s, w) ==
    CASE s.do = "insert" -> TRUE
      [] s.need = "one"  -> Cardinality(w.hit) = 1
      [] s.need = "none" -> w.hit = {}
      [] s.need = "fewer" -> Cardinality(w.hit) < s.most
      [] s.need = "each" -> Cardinality(w.hit) = Cardinality(Listed(s, w))
      [] OTHER -> TRUE

\* A unique index refuses a row with an entry that another row has.
Unused(key, entries, rows) ==
    entries # {} => \A k \in DOMAIN rows \ {key} : Entries(k, rows[k]) \cap entries = {}

\* A transaction that reads a snapshot is READ ONLY from its first statement.
ReadOnly(t, s) == s.do = "snapshot" \/ work[t].snapshot # NoRows

Sound(t, s, effect, rows) ==
    /\ ReadOnly(t, s) => effect = NoRows /\ work[t].writes = NoRows
    /\ \A k \in DOMAIN effect : Unused(k, Entries(k, effect[k]) \ Entries(k, Row(Rows(t), k)), rows)
    /\ \A k \in DOMAIN effect : \A p \in Referred(k, effect[k]) : Row(rows, p) # Absent
    /\ \A k \in DOMAIN effect : RowCheck(k, effect[k])
    /\ s.do = "insert" /\ s.table = "usages" => \A k \in DOMAIN effect : Backed(rows, effect[k])
    /\ s.do = "delete" /\ s.table = "users" =>
           \A k \in DOMAIN effect : k[1] = "users" => UserDeletable(Rows(t), k[2])

Sight(rows, s, w) == Viewed(s.view, rows, NewRow(s, w))

Answers(rows, s, w) ==
    LET found == [k \in w.hit |-> rows[k]]
    IN  IF s.do = "view" THEN <<s.as, 0>> :> Sight(rows, s, w)
        ELSE IF s.as = "" \/ w.hit = {} THEN found
        ELSE (<<s.as, 0>> :> found[CHOOSE k \in w.hit : TRUE]) @@ found

\* What the code makes of the answer of a statement that was executed.
Judged(s, w, effect, rows) ==
    IF \E k \in w.hit \cup DOMAIN effect, c \in DOMAIN s.check : rows[k][c] \notin s.check[c] THEN s.differs
    ELSE IF ~Expected(s, w) THEN s.otherwise
    ELSE IF s.agree # "" /\ ~Agreed(s.agree, Answers(rows, s, w) @@ w.picked) THEN "error"
    ELSE "next"

Outcome(t, s, w, effect) ==
    LET rows == Over(effect, Rows(t))
    IN  IF s.do = "view" /\ Sight(rows, s, w) = Absent THEN s.otherwise
        ELSE IF s.do = "insert" /\ effect = NoRows
        THEN IF s.onConflict = "error" THEN s.duplicate ELSE s.otherwise
        ELSE IF ~Sound(t, s, effect, rows) \/ (s.do = "view" /\ ~Accepted(s.view, Sight(rows, s, w))) THEN "error"
        ELSE Judged(s, w, effect, rows)

\* What a sum returns: per month, the reservations of the generations found
\* and, when the statement also looks at usages, those of the picked usages
\* that no running generation stands for.  A reservation is worth 1 or 0.
Worth(rows, keys) == Cardinality({k \in keys : rows[k].cost > 0})

Left(rows, w) ==
    {k \in DOMAIN w.picked : k[1] = "usages" /\ ~Running(Row(rows, <<"generations", k[2]>>))}

Summed(t, s, w) ==
    LET rows == Rows(t)
        left == IF s.exposed THEN Left(rows, w) ELSE {}
        of(keys, month) == {k \in keys : rows[k].month = month}
    IN  [m \in {rows[k].month : k \in w.hit \cup left} |->
            [reserved |-> Worth(rows, of(w.hit, m)),
             unattributed |-> Worth(rows, of(w.hit \cup left, m))]]

\* What is left when the rows removed are dropped.
Kept(rows) == [k \in {q \in DOMAIN rows : rows[q] # Absent} |-> rows[k]]

\* The statement is done: keep what it wrote and returned and go on, or end.
Advanced(t, s, w, effect) ==
    [w EXCEPT !.pc = @ + 1, !.open = FALSE, !.todo = {}, !.hit = {},
              !.writes = Over(effect, @),
              !.picked = (IF s.keep THEN Answers(Rows(t), s, w) ELSE NoRows) @@ @,
              !.sums = IF s.do = "sum" THEN Summed(t, s, w) ELSE @,
              !.snapshot = IF s.do = "snapshot" THEN db ELSE @]

Ended(t, out) == [Fresh(work[t].program) EXCEPT !.out = out]

\* A retry is a new transaction.
Again(t, s, out) == IF out = "retry" THEN Fresh(s.again) ELSE Ended(t, out)

Conclude(t, s, w, locks) ==
  /\ db' = db
  /\ \E effect \in {Effect(t, s, w)} : \E out \in {Outcome(t, s, w, effect)} :
        IF out = "next"
        THEN /\ held' = [held EXCEPT ![t] = locks]
             /\ work' = [work EXCEPT ![t] = Advanced(t, s, w, effect)]
        ELSE IF out = "commit"
        THEN /\ held' = [held EXCEPT ![t] = locks]
             /\ work' = [work EXCEPT ![t] = [Advanced(t, s, w, effect) EXCEPT !.pc = Len(Code(t)) + 1]]
        ELSE IF out \in DOMAIN Program[t]
        THEN /\ held' = [held EXCEPT ![t] = locks]
             /\ work' = [work EXCEPT ![t] = [Advanced(t, s, w, effect) EXCEPT !.program = out, !.pc = 1]]
        ELSE /\ held' = [held EXCEPT ![t] = NoLocks]
             /\ work' = [work EXCEPT ![t] = Again(t, s, out)]

\* One more lock is granted; the statement ends when it was the last.
Take(t, s, w, locks) ==
    IF Missing(t, s, w, locks) = {} THEN Conclude(t, s, w, locks)
    ELSE /\ held' = [held EXCEPT ![t] = locks]
         /\ work' = [work EXCEPT ![t] = w]
         /\ db' = db

\* Mutant: locks for update let each other through.
MutFree(t, n) == {u \in Holders(t, n[1], n[2]) : held[u][n[1]] = "nokey"} = {}

\* Run the statement under way as far as its next lock: it ends when no lock
\* is missing, else takes the next one, passes over the row (SKIP LOCKED), or
\* starts to wait, with the candidates it found.
Free(t, n) == Holders(t, n[1], n[2]) = {}

Execute(t) ==
    /\ Active(t) /\ ~Finished(t)
    /\ \E s \in {Current(t)} : \E w \in {Opened(t, s)} :
       \E missing \in {Missing(t, s, w, held[t])} :
          \/ missing = {} /\ Conclude(t, s, w, held[t])
          \/ /\ missing # {}
             /\ \E n \in {NextLock(missing)} :
                   \/ Free(t, n) /\ Take(t, s, Looked(t, s, w, n), Grant(held[t], n[1], n[2]))
                   \/ /\ ~Free(t, n) /\ s.skip
                      /\ work' = [work EXCEPT ![t] = [w EXCEPT !.todo = @ \ {n[1]}]]
                      /\ UNCHANGED <<db, held>>
                   \/ /\ ~Free(t, n) /\ ~s.skip /\ ~work[t].open
                      /\ work' = [work EXCEPT ![t] = w]
                      /\ UNCHANGED <<db, held>>

\* The deferred references are checked when the transaction commits: those
\* that the rows it wrote have got, and those to the rows it removed.
Deferred(key, row) == IF row = Absent THEN {} ELSE Parents(key, row, {"deferred"})

NewReferences(t) ==
    UNION {Deferred(k, work[t].writes[k]) \ Deferred(k, Row(db, k)) : k \in DOMAIN work[t].writes}

Consistent(t) ==
    LET rows == Rows(t)
        gone == {k \in DOMAIN work[t].writes : rows[k] = Absent}
    IN  /\ \A p \in NewReferences(t) : Row(rows, p) # Absent
        /\ gone # {} => \A k \in DOMAIN rows : gone \cap Deferred(k, rows[k]) = {}

CommitLocks(t) == In(NewReferences(t), "keyshare")

Commit(t) ==
    /\ Active(t) /\ Finished(t)
    /\ \A n \in CommitLocks(t) : Free(t, n)
    /\ \/ /\ Consistent(t)
          /\ db' = Kept(Over(work[t].writes, db))
          /\ work' = [work EXCEPT ![t] = Ended(t, "done")]
       \/ /\ ~Consistent(t)
          /\ db' = db
          /\ work' = [work EXCEPT ![t] = Ended(t, "error")]
    /\ held' = [held EXCEPT ![t] = NoLocks]

\* Every transaction has ended.
Terminated == (\A t \in Tx : ~Active(t)) /\ UNCHANGED vars

Next == (\E t \in Tx : Execute(t) \/ Commit(t)) \/ Terminated

Spec == Init /\ [][Next]_vars

\* ------------------------------------------------------------- properties

\* The transactions t waits for; a statement that waits is open.
Waiting(t) == Active(t) /\ (work[t].open \/ Finished(t))

Wanted(t) ==
    IF Finished(t) THEN CommitLocks(t)
    ELSE LET missing == Missing(t, Current(t), work[t], held[t])
         IN  IF missing = {} THEN {} ELSE {NextLock(missing)}

Blockers(t) == UNION {Holders(t, n[1], n[2]) : n \in Wanted(t)}

\* Transactions never wait for each other in a circle: the code takes its
\* locks in one order (user, goal, draft and cycle, generations, usages,
\* months), whatever statements, cascades and index entries add to it.
NoDeadlock ==
    ~\E S \in (SUBSET Tx) \ {{}} :
        (\A t \in S : Waiting(t)) /\ (\A t \in S : Blockers(t) \cap S # {})

\* A row that a transaction has locked against writers changes for nobody
\* else until that transaction ends: what its statements returned under a
\* lock still holds when its later statements act on it.
LockedRowsStay ==
    [][\A rows \in {db'} \ {db} : \A t \in Tx : \A k \in DOMAIN held[t] :
          held[t][k] \in {"nokey", "update"} /\ work'[t].out = "running" => Row(rows, k) = Row(db, k)]_vars

\* No transaction ends with an internal error: a CAS whose rows were locked
\* before it never misses, and no constraint or trigger refuses a statement.
NoInternalError == \A t \in Tx : work[t].out # "error"

=============================================================================
