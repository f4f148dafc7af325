----------------------------- MODULE Statements -----------------------------
(***************************************************************************)
(* A statement of SQL with what the code does with its answer, as a        *)
(* record, and the words the queries are written with.  Queries name the   *)
(* columns they filter and change; the units of work add what the code     *)
(* expects of the answer.                                                  *)
(***************************************************************************)
EXTENDS Integers, TLC

\* do        select, sum, insert, update, delete, snapshot or view
\* where     what the WHERE asks of a row: a set of values per column
\* same      columns that must equal what an earlier statement returned
\* among     the id must be one an earlier statement returned from that table;
\*           part: all of them, those that are old and final, or the others
\* mode      the row lock taken: none, keyshare, share, nokey or update
\* skip      SKIP LOCKED
\* set, map, copy, plus, bySum   the columns an update changes, or an insert takes
\*           from earlier answers
\* row, onConflict          what an insert inserts, and ON CONFLICT
\* exposed   the sum also counts the usages left without a generation
\* left      only usages that no running generation stands for
\* as        the name under which later statements refer to the answer
\* check     what the code asks of the rows; differs is what it does then
\* need      how many rows it expects (fewer: less than most); otherwise is
\*           what it does then: refused, error, commit, or the program it
\*           continues with; retry rolls back and starts over
\* view      the view that is loaded (see Views), row being its arguments
\* agree     what the code asks of all the answers it has got by now
\* duplicate what it does when a unique index refuses the insert
\* again     the program that retry starts
Statement ==
    [do |-> "select", table |-> "", where |-> <<>>, same |-> <<>>, among |-> "", part |-> "all",
     mode |-> "none", skip |-> FALSE, set |-> <<>>, map |-> <<>>, copy |-> <<>>, plus |-> <<>>, bySum |-> <<>>,
     row |-> <<>>, onConflict |-> "error", exposed |-> FALSE, left |-> FALSE, as |-> "", keep |-> FALSE,
     check |-> <<>>, differs |-> "refused", need |-> "any", most |-> 0, otherwise |-> "error",
     duplicate |-> "error", again |-> "", view |-> "", agree |-> ""]

Exists(table, where) == [Statement EXCEPT !.table = table, !.where = where]
Select(table, where) == [Exists(table, where) EXCEPT !.keep = TRUE]
Lock(table, where)   == [Select(table, where) EXCEPT !.mode = "update"]
Update(table, where) == [Exists(table, where) EXCEPT !.do = "update", !.mode = "nokey"]
Delete(table, where) == [Exists(table, where) EXCEPT !.do = "delete", !.mode = "update"]
Insert(table, row)   == [Statement EXCEPT !.do = "insert", !.table = table, !.row = row]
Total(table, where)  == [Exists(table, where) EXCEPT !.do = "sum"]
Snapshot             == [Statement EXCEPT !.do = "snapshot"]

\* A view is kept under a name; a missing one is handled as otherwise says.
View(name, arguments, as, otherwise) ==
    [Statement EXCEPT !.do = "view", !.view = name, !.row = arguments, !.keep = TRUE, !.as = as,
                      !.otherwise = otherwise]

\* A column of a row that an earlier statement returned.
At(key, column) == [key |-> key, column |-> column]

\* The revision (or other columns) must still be what the lock returned.
Cas(s, key, columns) == [s EXCEPT !.same = [c \in columns |-> At(key, c)] @@ @]

Where(s, columns)   == [s EXCEPT !.where = columns @@ @]
Among(s, table)     == [s EXCEPT !.among = table]
Part(s, part)       == [s EXCEPT !.part = part]
Skip(s)             == [s EXCEPT !.skip = TRUE]
Set(s, columns)     == [s EXCEPT !.set = columns]
Map(s, columns)     == [s EXCEPT !.map = columns]
Plus(s, columns)    == [s EXCEPT !.plus = columns]
BySum(s, columns)   == [s EXCEPT !.bySum = columns]
Copy(s, columns)    == [s EXCEPT !.copy = columns]
As(s, name)         == [s EXCEPT !.as = name]
OrNothing(s)        == [s EXCEPT !.onConflict = "nothing"]
OrUpdate(s)         == [s EXCEPT !.onConflict = "update"]

One(s, otherwise)   == [s EXCEPT !.need = "one", !.otherwise = otherwise]
None(s, otherwise)  == [s EXCEPT !.need = "none", !.otherwise = otherwise]
Fewer(s, n, otherwise) == [s EXCEPT !.need = "fewer", !.most = n, !.otherwise = otherwise]
Each(s)             == [s EXCEPT !.need = "each"]
Check(s, columns)   == [s EXCEPT !.check = columns]
Differs(s, out)     == [s EXCEPT !.differs = out]
Agree(s, name)      == [s EXCEPT !.agree = name]
Duplicate(s, out)   == [s EXCEPT !.duplicate = out]
RetryAs(s, program) == [s EXCEPT !.duplicate = "retry", !.again = program]

=============================================================================
