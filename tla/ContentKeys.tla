------------------------------ MODULE ContentKeys ------------------------------
(***************************************************************************)
(* How the texts of one user come to be stored encrypted while servers     *)
(* work on them: content_encryption.go, contentcrypto/service.go, the      *)
(* storage trigger of migration 000010, and the operator's command         *)
(* cmd/contentcrypto (activate writes, backfill, rotate a key, strict).    *)
(*                                                                         *)
(* A request of a server runs in a transaction of its own; the keys and    *)
(* nonces it needs are read and stored on other connections, and stay when *)
(* it is rolled back. Rows change at its commit. The transaction waits for *)
(* the user row, for the row of the text, and in the trigger for the       *)
(* control row, of which it then keeps a SHARE lock. A request that writes *)
(* more than one row is a job for each of them.                            *)
(***************************************************************************)
EXTENDS Naturals, FiniteSets, Functions

CONSTANTS Servers,      \* server processes, each with at most one request
          Operator,     \* the process of cmd/contentcrypto
          Contents,     \* rows of goals, drafts and cycles
          Signals,      \* rows of goal_draft_success_signals of drafts that are there
          Generations,  \* rows of ai_generations
          Fields,       \* text columns of a row; a generation is made with one
          Source,       \* that field, and the only one of a signal
          Old,          \* the text of the first rows
          None,
          InitialRows,  \* rows that may be there before the first activation
          MaxVersion,   \* bound: key versions
          Attempts,     \* maximumNonceAttempts
          MaxStarts,    \* bound: requests of the servers
          MaxFaults     \* bound: failures and nonces drawn twice

Rows == Contents \cup Signals \cup Generations
Actors == Servers \cup {Operator}
Versions == 1..MaxVersion
Texts == {Old} \cup Servers
Keys == Actors \X Versions

\* A stored text, in the clear (no key) or encrypted, and the rows of them.
CellSet == [text : Texts, key : Keys \cup {None}, ver : 0..MaxVersion, nonce : (Actors \X Nat) \cup {None}]
RowSet == [format : {"legacy", "encrypted"}, running : BOOLEAN, cells : [Fields -> CellSet \cup {None}]]

\* None is SQL NULL: it differs from every value a column can have.
ASSUME ContentAssumption ==
    /\ Source \in Fields /\ Operator \notin Servers
    /\ Contents \cap Generations = {} /\ Signals \cap (Contents \cup Generations) = {}
    /\ None \notin Texts \cup Actors \cup Keys \cup Rows /\ None \notin CellSet /\ None \notin RowSet
    /\ MaxVersion \in Nat \ {0} /\ Attempts \in Nat \ {0}
    /\ MaxStarts \in Nat /\ MaxFaults \in Nat

VARIABLES
    mode,       \* content_encryption_control.mode
    present,    \* the row of users
    deks,       \* user_content_deks: the key wrapped under each version
    writeKey,   \* the version with is_write_key, 0 when there is none
    nonces,     \* user_content_nonce_reservations of each version
    rows,       \* the committed rows
    job,        \* what each process is doing
    userLock,   \* who holds the user row in a transaction of a request
    rowLock,    \* who holds the row of a text
    control,    \* who holds the control row FOR SHARE
    cache,      \* the keys each process made and still has in memory
    said,       \* history: the last committed text of each field
    dropped,    \* history: signals whose row stood in the way of an encrypted one
    starts, faults

keyring == <<deks, writeKey, nonces>>
locks == <<userLock, rowLock, control>>
bounds == <<starts, faults>>
vars == <<mode, present, keyring, rows, job, locks, cache, said, dropped, bounds>>

Plain(t) == [text |-> t, key |-> None, ver |-> 0, nonce |-> None]
Text(cell) == IF cell = None THEN None ELSE cell.text
Populated(row) == {f \in Fields : row.cells[f] # None}
Running == {x \in Generations : rows[x] # None /\ rows[x].running}
Legacy == {r \in Rows : rows[r] # None /\ rows[r].format = "legacy"}

\* A function with the values of g where g has one.
Over(f, g) == [x \in DOMAIN f |-> IF x \in DOMAIN g THEN g[x] ELSE f[x]]
Nothing == [f \in {} |-> None]

Idle == [kind |-> "none", pc |-> "idle", row |-> None, enc |-> FALSE,
         target |-> {}, plain |-> Nothing, cells |-> Nothing,
         ver |-> 0, key |-> None, tries |-> 0, snap |-> FALSE]

Init ==
    /\ mode = "legacy" /\ present = TRUE
    /\ deks = [v \in Versions |-> None] /\ writeKey = 0
    /\ nonces = [v \in Versions |-> {}]
    /\ \E init \in SUBSET InitialRows :
         LET t(r, f) == IF r \in init /\ (r \in Contents \/ f = Source) THEN Old ELSE None IN
         /\ said = [r \in Rows |-> [f \in Fields |-> t(r, f)]] /\ dropped = {}
         /\ rows = [r \in Rows |-> IF r \notin init THEN None ELSE
                [format |-> "legacy", running |-> FALSE,
                 cells |-> [f \in Fields |->
                    IF t(r, f) = None THEN None ELSE Plain(t(r, f))]]]
    /\ job = [a \in Actors |-> Idle]
    /\ userLock = None /\ rowLock = [r \in Rows |-> None] /\ control = {}
    /\ cache = [a \in Actors |-> [v \in Versions |-> None]]
    /\ starts = 0 /\ faults = 0

(***************************************************************************)
(* Encrypt, one field after the other                                      *)
(***************************************************************************)
Unsealed(j) == DOMAIN j.plain \ DOMAIN j.cells

\* Service.key and unwrap: the key in memory, or the stored one. A stored key
\* never changes, so of the keys in memory only those the process made itself
\* are told apart; they stay there, which is the worst their 30 seconds can do.
Unwrapped(a, v) == IF cache[a][v] # None THEN cache[a][v] ELSE deks[v]

\* ActiveKey: the version to write under, read without a lock.
ActiveKey(a) ==
    /\ job[a].pc = "seal" /\ job[a].enc /\ Unsealed(job[a]) # {}
    /\ IF writeKey = 0
       THEN job' = [job EXCEPT ![a].pc = "keyless"]
       ELSE job' = [job EXCEPT ![a].pc = "nonce", ![a].ver = writeKey,
                               ![a].key = Unwrapped(a, writeKey)]
    /\ UNCHANGED <<mode, present, keyring, rows, locks, cache, said, dropped, bounds>>

\* bootstrap wraps a key of its own; StoreInitialKey opens a serializable
\* transaction, whose snapshot is that of its first statement, the user lock.
AskForKeyLock(a) ==
    /\ job[a].pc = "keyless"
    /\ job' = [job EXCEPT ![a].pc = "keywait", ![a].snap = (writeKey # 0)]
    /\ UNCHANGED <<mode, present, keyring, rows, locks, cache, said, dropped, bounds>>

\* Give up: the transaction of the request is rolled back, its locks are free.
Release(a) ==
    /\ userLock' = IF userLock = a THEN None ELSE userLock
    /\ rowLock' = [r \in Rows |-> IF rowLock[r] = a THEN None ELSE rowLock[r]]
    /\ control' = control \ {a}
Abort(a) == job' = [job EXCEPT ![a] = Idle] /\ Release(a)

\* The key of the process itself, although another one is stored.
MutCanonical(a) == <<a, 1>>

\* The key bootstrap goes on with: the stored one, unless its own was stored.
Canonical(a) == IF deks[1] = None THEN <<a, 1>> ELSE Unwrapped(a, 1)

\* StoreInitialKey once the user row is free: the key its snapshot has, its
\* own key where there is none, or an error: no user, or a key stored since.
StoreInitialKey(a) ==
    /\ job[a].pc = "keywait" /\ userLock = None
    /\ IF present /\ (job[a].snap \/ writeKey = 0)
       THEN /\ IF writeKey = 0
               THEN /\ deks' = [deks EXCEPT ![1] = <<a, 1>>] /\ writeKey' = 1
                    /\ cache' = [cache EXCEPT ![a][1] = Canonical(a)]
               ELSE UNCHANGED <<deks, writeKey, cache>>
            /\ job' = [job EXCEPT ![a].pc = "nonce", ![a].ver = writeKey', ![a].snap = FALSE,
                         ![a].key = IF writeKey' = 1 THEN Canonical(a)
                                    ELSE Unwrapped(a, writeKey')]
            /\ UNCHANGED locks
       ELSE Abort(a) /\ UNCHANGED <<deks, writeKey, cache>>
    /\ UNCHANGED <<mode, present, nonces, rows, said, dropped, bounds>>

\* ReserveUserContentNonce: inserted, or in conflict with an earlier one.
Fresh(v, n) == n \notin nonces[v]

\* A nonce no one has drawn of this version; that of a process, to tell them.
Unused(a, v) == <<a, Cardinality({n \in nonces[v] : n[1] = a}) + 1>>

\* Seal: the fields are sealed one after the other, in a fixed order.
SealNext(j, n) ==
    LET next == CHOOSE f \in Unsealed(j) : TRUE IN
    [f \in DOMAIN j.cells \cup {next} |->
        IF f # next THEN j.cells[f]
        ELSE [text |-> j.plain[f], key |-> j.key, ver |-> j.ver, nonce |-> n]]

\* reserveNonce: a random nonce is reserved for good before it is used.
ReserveNonce(a) ==
    LET j == job[a] IN
    /\ j.pc = "nonce"
    /\ IF deks[j.ver] = None
       THEN Abort(a) /\ UNCHANGED <<nonces, bounds>>
       ELSE \E n \in nonces[j.ver] \cup {Unused(a, j.ver)} :
              IF Fresh(j.ver, n)
              THEN /\ nonces' = [nonces EXCEPT ![j.ver] = @ \cup {n}]
                   /\ job' = [job EXCEPT ![a].pc = "seal", ![a].tries = 0, ![a].ver = 0,
                        ![a].key = None, ![a].cells = SealNext(j, n)]
                   /\ UNCHANGED <<locks, bounds>>
              ELSE /\ faults < MaxFaults /\ faults' = faults + 1 /\ UNCHANGED starts
                   /\ UNCHANGED nonces
                   /\ IF j.tries + 1 < Attempts
                      THEN job' = [job EXCEPT ![a].tries = @ + 1] /\ UNCHANGED locks
                      ELSE Abort(a)
    /\ UNCHANGED <<mode, present, deks, writeKey, rows, cache, said, dropped>>

(***************************************************************************)
(* Requests                                                                *)
(***************************************************************************)
\* prepareContentBoundary: the mode is read without a lock when the
\* transaction begins, and decides how all of its texts are written.
Begin(a, kind, r) ==
    /\ job[a].pc = "idle" /\ starts < MaxStarts /\ starts' = starts + 1
    /\ job' = [job EXCEPT ![a] = [Idle EXCEPT !.kind = kind, !.pc = "lock", !.row = r,
                                              !.enc = (mode # "legacy")]]
    /\ UNCHANGED <<mode, present, keyring, rows, locks, cache, said, dropped, faults>>

\* The locks of the use case are taken: the texts to be written are known.
Locked(a, target, plain) ==
    job' = [job EXCEPT ![a].pc = "seal", ![a].target = target, ![a].plain = plain]

\* CreateDraft, StartGoal, BeginGoalRefine, ...: the user row first, then a
\* row of its own with all of its texts, unless there is one already.
LockForInsert(a) ==
    LET r == job[a].row  fs == IF r \in Contents THEN Fields ELSE {Source} IN
    /\ job[a].pc = "lock" /\ job[a].kind = "insert" /\ userLock = None
    /\ IF present /\ rows[r] = None
       THEN Locked(a, fs, [f \in fs |-> a]) /\ userLock' = a
       ELSE job' = [job EXCEPT ![a] = Idle] /\ UNCHANGED userLock
    /\ UNCHANGED <<mode, present, keyring, rows, rowLock, control, cache, said, dropped, bounds>>

\* migrateLegacy: an encrypting writer of a legacy row writes all its texts.
ToWrite(r, f, encrypt) ==
    [g \in {f} \cup (IF encrypt /\ rows[r].format = "legacy" THEN Populated(rows[r]) ELSE {})
       |-> Text(rows[r].cells[g])]

\* SaveDraft, SaveFrame and SaveReview lock the row alone.
LockForSave(a) ==
    LET r == job[a].row IN
    /\ job[a].pc = "lock" /\ job[a].kind = "save" /\ rowLock[r] = None
    /\ IF rows[r] # None
       THEN /\ \E f \in Fields :
                 Locked(a, {f}, Over(ToWrite(r, f, job[a].enc), [g \in {f} |-> a]))
            /\ rowLock' = [rowLock EXCEPT ![r] = a]
       ELSE job' = [job EXCEPT ![a] = Idle] /\ UNCHANGED rowLock
    /\ UNCHANGED <<mode, present, keyring, rows, userLock, control, cache, said, dropped, bounds>>

\* The success signal that can be read of a draft: none where there is no row.
Signal(r) == IF rows[r] = None THEN None ELSE Text(rows[r].cells[Source])

\* SaveDraft and SaveReview lock the draft of r, for which rowLock[r] stands.
\* They save its signal anew, the same or another one, or none, but fail
\* where the row of the signal cannot be read.
LockForSignal(a) ==
    LET r == job[a].row IN
    /\ job[a].pc = "lock" /\ job[a].kind = "signal" /\ rowLock[r] = None
    /\ IF present /\ (rows[r] # None => Signal(r) # None)
       THEN /\ \E t \in {a, Signal(r), None} :
                 Locked(a, {Source}, [f \in IF t = None THEN {} ELSE {Source} |-> t])
            /\ rowLock' = [rowLock EXCEPT ![r] = a]
       ELSE job' = [job EXCEPT ![a] = Idle] /\ UNCHANGED rowLock
    /\ UNCHANGED <<mode, present, keyring, rows, userLock, control, cache, said, dropped, bounds>>

\* FinishGoalRefine and FinishAction end a running generation, with an output
\* or without; TerminalizeGenerationCAS writes the output only.
LockForFinish(a) ==
    LET r == job[a].row IN
    /\ job[a].pc = "lock" /\ job[a].kind = "finish"
    /\ userLock = None /\ rowLock[r] = None
    /\ IF r \in Running
       THEN /\ \E fs \in {{}, Fields \ {Source}} : Locked(a, fs, [f \in fs |-> a])
            /\ userLock' = a /\ rowLock' = [rowLock EXCEPT ![r] = a]
       ELSE job' = [job EXCEPT ![a] = Idle] /\ UNCHANGED <<userLock, rowLock>>
    /\ UNCHANGED <<mode, present, keyring, rows, control, cache, said, dropped, bounds>>

\* encode of a writer that does not encrypt is the text itself.
Ready(j) == j.pc = "seal" /\ (j.enc => Unsealed(j) = {})
Cells(j) == IF j.enc THEN j.cells ELSE [f \in DOMAIN j.plain |-> Plain(j.plain[f])]

\* A writer that encrypts may leave plain texts beside its own.
MutAccepted(j) == (DOMAIN j.plain # {}) => (mode # "legacy") = j.enc

\* fukamu_cycle_apply_content_storage: what the trigger lets through.
Accepted(j) ==
    LET old == rows[j.row]  changed == DOMAIN j.plain IN
    IF changed = {}
    THEN ~(mode = "strict" /\ old.format = "legacy")
    ELSE IF mode = "legacy" THEN ~j.enc
    ELSE j.enc /\ (old # None /\ old.format = "legacy" => Populated(old) \subseteq changed)

\* The control row is read without a lock.
MutShared(a) == control

\* The trigger reads the control row FOR SHARE; the lock lasts until the end.
Shared(a) == control \cup {a}

\* DeleteGoalDraftSuccessSignal: there is no success signal to save.
Erases(j) == j.kind = "signal" /\ DOMAIN j.plain = {}
EraseSignal(a) ==
    LET r == job[a].row IN
    /\ Erases(job[a]) /\ Ready(job[a])
    /\ rows' = [rows EXCEPT ![r] = None]
    /\ said' = [said EXCEPT ![r] = [f \in Fields |-> None]] /\ dropped' = dropped \ {r}
    /\ Abort(a)
    /\ UNCHANGED <<mode, present, keyring, cache, bounds>>

\* The statement that writes the texts, with its trigger.
Write(a) ==
    /\ job[a].kind \in {"insert", "save", "signal", "finish"} /\ Ready(job[a])
    /\ ~Erases(job[a])
    /\ IF Accepted(job[a])
       THEN /\ job' = [job EXCEPT ![a].pc = "commit"]
            /\ control' = Shared(a) /\ UNCHANGED <<userLock, rowLock>>
       ELSE Abort(a)
    /\ UNCHANGED <<mode, present, keyring, rows, cache, said, dropped, bounds>>

\* UpsertGoalDraftSuccessSignal finds a row, and the trigger of its INSERT has
\* moved the text from the column to those of the ciphertext. EXCLUDED has NULL
\* for the column, and the UPDATE that comes instead sets nothing else: a text
\* in the clear goes, a ciphertext stays, and the trigger has nothing to store.
Conflicts(j) == j.kind = "signal" /\ j.enc /\ rows[j.row] # None
Excluded(old) ==
    [old EXCEPT !.format = "encrypted",
                !.cells = [f \in Fields |-> IF old.format = "legacy" THEN None ELSE old.cells[f]]]

\* The row the trigger makes of the old row and the texts of the statement.
Stored(j) ==
    LET old == rows[j.row]
        cells == IF old = None THEN [f \in Fields |-> None] ELSE old.cells IN
    IF Conflicts(j) THEN Excluded(old) ELSE
    [format |-> IF DOMAIN j.plain = {} THEN old.format
                ELSE IF j.enc THEN "encrypted" ELSE "legacy",
     cells |-> Over(cells, Cells(j)),
     running |-> j.row \in Generations /\ j.kind = "insert"]

Commit(a) ==
    LET j == job[a] IN
    /\ j.pc = "commit"
    /\ rows' = [rows EXCEPT ![j.row] = Stored(j)]
    /\ said' = [said EXCEPT ![j.row] = Over(@, [f \in j.target |-> j.plain[f]])]
    /\ dropped' = dropped \cup (IF Conflicts(j) THEN {j.row} ELSE {})
    /\ Abort(a)
    /\ UNCHANGED <<mode, present, keyring, cache, bounds>>

\* DeleteAccount locks the user row and then waits for the rows under it; ...
LockForDelete(a) ==
    /\ job[a].pc = "lock" /\ job[a].kind = "delete" /\ userLock = None
    /\ IF present THEN job' = [job EXCEPT ![a].pc = "rows"] /\ userLock' = a
       ELSE job' = [job EXCEPT ![a] = Idle] /\ UNCHANGED userLock
    /\ UNCHANGED <<mode, present, keyring, rows, rowLock, control, cache, said, dropped, bounds>>

\* ... the user row goes and, by cascade, all rows, keys and nonces.
DeleteUser(a) ==
    /\ job[a].pc = "rows" /\ \A r \in Rows : rowLock[r] = None
    /\ present' = FALSE
    /\ deks' = [v \in Versions |-> None] /\ writeKey' = 0
    /\ nonces' = [v \in Versions |-> {}]
    /\ rows' = [r \in Rows |-> None]
    /\ said' = [r \in Rows |-> [f \in Fields |-> None]] /\ dropped' = {}
    /\ Abort(a)
    /\ UNCHANGED <<mode, cache, bounds>>

\* The transaction of a is lost: a dropped connection, a restart, KMS gone.
Fail(a) ==
    /\ job[a].pc # "idle" /\ faults < MaxFaults /\ faults' = faults + 1
    /\ Abort(a)
    /\ UNCHANGED <<mode, present, keyring, rows, cache, said, dropped, starts>>

\* The connection of bootstrap waits for the user row ...
WaitsForUser(a) == job[a].pc = "keywait" /\ userLock # None
\* ... and the deletion for the row of a save.
WaitsForRow(a) == job[a].pc = "rows" /\ \E r \in Rows : rowLock[r] # None

\* The client or the proxy gives a waiting request up, which ends its context:
\* neither the server nor the database has a limit for it.
TimesOut(a) ==
    /\ WaitsForUser(a) \/ WaitsForRow(a)
    /\ Abort(a)
    /\ UNCHANGED <<mode, present, keyring, rows, cache, said, dropped, bounds>>

(***************************************************************************)
(* The operator                                                            *)
(***************************************************************************)
OperatorIdle == job[Operator].pc = "idle"
Becomes(j) == job' = [job EXCEPT ![Operator] = j]

\* BackfillBatch lists a legacy row and encrypts what it read of it. How long
\* ago the list was read is all that a larger batch changes.
Backfill(r) ==
    /\ OperatorIdle /\ mode = "encrypting" /\ r \in Legacy
    /\ Becomes([Idle EXCEPT !.kind = "backfill", !.pc = "seal", !.row = r, !.enc = TRUE,
                 !.plain = [f \in Populated(rows[r]) |-> rows[r].cells[f].text]])
    /\ UNCHANGED <<mode, present, keyring, rows, locks, cache, said, dropped, bounds>>

\* The update by id alone.
MutStillLegacy(r) == rows[r] # None

\* The condition of the Backfill...CAS statements.
StillLegacy(r) == r \in Legacy

\* The save of a signal has locked the draft; the row only once it is written.
RowFree(r) == \A a \in Servers : rowLock[r] = a => r \in Signals /\ job[a].pc # "commit"

\* applyEncryptedWrite: one transaction for one row; no row is a conflict.
BackfillCAS ==
    LET j == job[Operator] IN
    /\ j.kind = "backfill" /\ Ready(j) /\ RowFree(j.row)
    /\ rows' = IF StillLegacy(j.row) /\ Accepted(j)
               THEN [rows EXCEPT ![j.row] = [Stored(j) EXCEPT !.running = rows[j.row].running]]
               ELSE rows
    /\ Becomes(Idle)
    /\ UNCHANGED <<mode, present, keyring, locks, cache, said, dropped, bounds>>

\* RotateUserKey: the next version is read without a lock.
Rotate ==
    /\ OperatorIdle /\ writeKey \in 1..(MaxVersion - 1)
    /\ Becomes([Idle EXCEPT !.kind = "rotate", !.pc = "rotate", !.ver = writeKey + 1])
    /\ UNCHANGED <<mode, present, keyring, rows, locks, cache, said, dropped, bounds>>

\* StoreRotatedKey: inserted, the old key demoted and the new one promoted.
StoreRotatedKey ==
    LET v == job[Operator].ver IN
    /\ job[Operator].pc = "rotate" /\ userLock = None
    /\ IF present /\ writeKey + 1 = v
       THEN /\ deks' = [deks EXCEPT ![v] = <<Operator, v>>] /\ writeKey' = v
            /\ cache' = [cache EXCEPT ![Operator][v] = <<Operator, v>>]
       ELSE UNCHANGED <<deks, writeKey, cache>>
    /\ Becomes(Idle)
    /\ UNCHANGED <<mode, present, nonces, rows, locks, said, dropped, bounds>>

NextMode == IF mode = "legacy" THEN "encrypting" ELSE "strict"

\* Running generations are counted in both cases.
MutDone == Running = {}

\* What SetMode counts: running generations before it activates the writes,
\* legacy rows before it makes the mode strict.
Done == IF mode = "legacy" THEN Running = {} ELSE Legacy = {}

\* SetMode: the counts are those of the snapshot of its first statement, ...
AskForControl ==
    /\ OperatorIdle /\ mode # "strict"
    /\ Becomes([Idle EXCEPT !.kind = "mode", !.pc = "modewait", !.snap = Done])
    /\ UNCHANGED <<mode, present, keyring, rows, locks, cache, said, dropped, bounds>>

\* ... which waits until no writer shares the control row.
SetMode ==
    /\ job[Operator].pc = "modewait" /\ control = {}
    /\ mode' = IF job[Operator].snap THEN NextMode ELSE mode
    /\ Becomes(Idle)
    /\ UNCHANGED <<present, keyring, rows, locks, cache, said, dropped, bounds>>

(***************************************************************************)
(* The system                                                              *)
(***************************************************************************)
Start(a) ==
    \/ \E r \in Rows \ Signals : Begin(a, "insert", r)
    \/ \E r \in Contents : Begin(a, "save", r)
    \/ \E r \in Signals : Begin(a, "signal", r)
    \/ \E r \in Generations : Begin(a, "finish", r)
    \/ Begin(a, "delete", None)

Encrypt(a) == ActiveKey(a) \/ AskForKeyLock(a) \/ StoreInitialKey(a) \/ ReserveNonce(a)

Request(a) ==
    \/ LockForInsert(a) \/ LockForSave(a) \/ LockForSignal(a)
    \/ LockForFinish(a) \/ LockForDelete(a)
    \/ Write(a) \/ Commit(a) \/ EraseSignal(a) \/ DeleteUser(a)

OperatorStep == BackfillCAS \/ StoreRotatedKey \/ SetMode
StartBackfill == \E r \in Rows : Backfill(r)

Next ==
    \/ \E a \in Servers : Start(a) \/ Request(a) \/ TimesOut(a)
    \/ \E a \in Actors : Encrypt(a) \/ Fail(a)
    \/ StartBackfill \/ Rotate \/ AskForControl \/ OperatorStep

Spec == Init /\ [][Next]_vars

\* Requests that are not lost go on; one that waits for a lock is given up by
\* its client in the end. The operator runs the backfill again and again.
FairSpec ==
    /\ Spec
    /\ \A a \in Servers : WF_vars(Request(a)) /\ WF_vars(TimesOut(a))
    /\ \A a \in Actors : WF_vars(Encrypt(a))
    /\ WF_vars(OperatorStep) /\ SF_vars(StartBackfill)

(***************************************************************************)
(* Properties                                                              *)
(***************************************************************************)
\* The shapes of the tables, of the requests and of the locks; a row has all
\* of its texts in one format.
TypeOK ==
    /\ mode \in {"legacy", "encrypting", "strict"} /\ present \in BOOLEAN
    /\ deks \in [Versions -> Keys \cup {None}] /\ writeKey \in 0..MaxVersion
    /\ nonces \in [Versions -> SUBSET (Actors \X Nat)]
    /\ rows \in [Rows -> RowSet \cup {None}]
    /\ \A r \in Rows : rows[r] # None =>
          \A f \in Populated(rows[r]) :
             (rows[r].cells[f].key # None) = (rows[r].format = "encrypted")
    /\ \A a \in Actors :
          /\ job[a].row \in Rows \cup {None} /\ job[a].ver \in 0..MaxVersion
          /\ job[a].key \in Keys \cup {None} /\ job[a].tries \in 0..Attempts
          /\ DOMAIN job[a].cells \subseteq DOMAIN job[a].plain
          /\ DOMAIN job[a].plain \subseteq Fields
    /\ userLock \in Servers \cup {None} /\ control \subseteq Servers
    /\ rowLock \in [Rows -> Servers \cup {None}]
    /\ cache \in [Actors -> [Versions -> Keys \cup {None}]]
    /\ dropped \subseteq Signals

\* All ciphertexts, those of requests under way included, by their place.
Sealed ==
    {<<"row", r, f>> : r \in {r \in Rows : rows[r] # None}, f \in Fields}
      \cup {<<"job", a, f>> : a \in Actors, f \in Fields}
CellAt(p) ==
    IF p[1] = "row" THEN rows[p[2]].cells[p[3]]
    ELSE IF p[3] \in DOMAIN job[p[2]].cells THEN job[p[2]].cells[p[3]] ELSE None
Ciphertext(p) == CellAt(p) # None /\ CellAt(p).key # None

\* design.md 41.3: a stored ciphertext can be opened with the key
\* stored under its version, and no two ciphertexts of one key have the same
\* nonce, whichever processes made them and whatever was rolled back.
CiphertextsSound ==
    LET Ciphertexts == {p \in Sealed : Ciphertext(p)} IN
    /\ \A p \in Ciphertexts : p[1] = "row" => CellAt(p).key = deks[CellAt(p).ver]
    /\ \A p, q \in Ciphertexts :
          CellAt(p).key = CellAt(q).key /\ CellAt(p).nonce = CellAt(q).nonce =>
             CellAt(p) = CellAt(q)

\* What the fields of r open to is what the user last stored in them.
Kept(r) == rows[r] # None => \A f \in Fields : Text(rows[r].cells[f]) = said[r][f]

\* operations.md (Backfill): what a field opens to is what a user last stored
\* in it; neither the backfill nor the migration of a row brings an older text
\* back or leaves a field behind. This is not so for a success signal whose
\* row was there when an encrypted one was saved, until it is erased: see
\* SignalsKept.
TextsKept == \A r \in Rows \ dropped : Kept(r)

\* design.md 9.5: the success signal is saved with the body of its draft, as
\* one value; so what can be read of it is what was last saved.
SignalsKept == \A r \in Signals : Kept(r)

\* database.md (content operator): once the mode is strict no row is in the
\* legacy format, and none that is still to be committed will be.
StrictIsComplete ==
    mode = "strict" =>
        /\ Legacy = {}
        /\ \A a \in Servers : job[a].pc = "commit" => Stored(job[a]).format = "encrypted"

\* operations.md (Backfill): with the writes activated and the backfill run
\* again whenever it stopped, no text stays in the legacy format.
LegacyEnds == mode = "encrypting" ~> \A r \in Legacy : Populated(rows[r]) = {}

\* design.md 18.1: no request waits for a row its own transaction has locked.
NoSelfWait == \A a \in Servers : job[a].pc = "keywait" => userLock # a
=============================================================================
