--------------------------- MODULE RowStore_proofs ---------------------------
(***************************************************************************)
(* What holds for any number of transactions, any programs and any sound   *)
(* database they start from: a locked row stays as it is, and committed    *)
(* rows pass their checks, share no entry of a unique index and refer only *)
(* to rows that are there.                                                 *)
(***************************************************************************)
EXTENDS RowStore, TLAPS

Writable == {"nokey", "update"}

LocksShaped == DOMAIN held = Tx

WorkShaped ==
    /\ DOMAIN work = Tx
    /\ \A t \in Tx : {"writes", "snapshot", "out", "todo"} \subseteq DOMAIN work[t]

\* Two transactions never hold locks on a key that exclude each other.
LocksAgree ==
    \A t, u \in Tx : t # u =>
        \A k \in DOMAIN held[t] \cap DOMAIN held[u] : ~Excludes(held[t][k], held[u][k])

\* What a transaction has written it has locked against other writers.
WritesLocked ==
    \A t \in Tx : \A k \in DOMAIN work[t].writes : k \in DOMAIN held[t] /\ held[t][k] \in Writable

IInv == LocksShaped /\ WorkShaped /\ LocksAgree /\ WritesLocked

\* A lock mode that covers a writer's need is a writer's mode.
LEMMA WritersModes ==
  ASSUME NEW mode \in Writable
  PROVE  AtLeast(mode) \subseteq Writable
BY DEF Writable, AtLeast

LEMMA WritersExclude ==
  ASSUME NEW a \in Writable, NEW b \in Writable
  PROVE  Excludes(a, b)
BY DEF Writable, Excludes, Conflicts

\* Granting a lock keeps a writer's lock a writer's lock.
LEMMA GrantKeepsWriters ==
  ASSUME NEW locks, NEW key, NEW mode, NEW k \in DOMAIN locks, locks[k] \in Writable
  PROVE  k \in DOMAIN Grant(locks, key, mode) /\ Grant(locks, key, mode)[k] \in Writable
BY DEF Grant, Covers, AtLeast, Writable

-----------------------------------------------------------------------------

\* What a step does to the transaction that takes it: its locks become
\* locks, the rest of it w, and nobody else changes.
Becomes(t, locks, w) ==
    /\ DOMAIN held' = DOMAIN held /\ held'[t] = locks
    /\ DOMAIN work' = DOMAIN work /\ work'[t] = w
    /\ \A u \in Tx \ {t} : held'[u] = held[u] /\ work'[u] = work[u]

Shaped(w) == {"writes", "snapshot", "out", "todo"} \subseteq DOMAIN w

\* The writes of w are under writer's locks.
Guarded(locks, w) == \A k \in DOMAIN w.writes : k \in DOMAIN locks /\ locks[k] \in Writable

\* Each lock is an old one of t, or agrees with those of the others.
Allowed(t, locks) ==
    \A k \in DOMAIN locks :
        \/ k \in DOMAIN held[t] /\ locks[k] = held[t][k]
        \/ \A u \in Tx \ {t} : k \in DOMAIN held[u] => ~Excludes(locks[k], held[u][k])

LEMMA FreshIsGuarded ==
  ASSUME NEW name, NEW locks
  PROVE  Shaped(Fresh(name)) /\ Guarded(locks, Fresh(name))
BY DEF Fresh, Shaped, Guarded, NoRows

LEMMA EndedIsGuarded ==
  ASSUME NEW t, NEW out, NEW locks
  PROVE  /\ Shaped(Ended(t, out)) /\ Guarded(locks, Ended(t, out))
         /\ Ended(t, out).out = out
BY DEF Ended, Fresh, Shaped, Guarded, NoRows

LEMMA StepKeepsInv ==
  ASSUME IInv, NEW t \in Tx, NEW locks, NEW w,
         Becomes(t, locks, w), Shaped(w), Guarded(locks, w), Allowed(t, locks)
  PROVE  IInv'
<1>1. LocksShaped' /\ WorkShaped'
  BY DEF IInv, LocksShaped, WorkShaped, Becomes, Shaped
<1>2. WritesLocked'
  BY DEF IInv, WritesLocked, Becomes, Guarded
<1>3. LocksAgree'
  <2> SUFFICES ASSUME NEW a \in Tx, NEW b \in Tx, a # b,
                      NEW k \in DOMAIN held'[a] \cap DOMAIN held'[b]
               PROVE  ~Excludes(held'[a][k], held'[b][k])
    BY DEF LocksAgree
  <2>1. \A x, y : Excludes(x, y) <=> Excludes(y, x)
    BY DEF Excludes
  <2>2. CASE a # t /\ b # t
    BY <2>2 DEF IInv, LocksAgree, Becomes
  <2>3. CASE a = t
    BY <2>1, <2>3 DEF IInv, LocksAgree, Becomes, Allowed
  <2>4. CASE b = t
    BY <2>1, <2>4 DEF IInv, LocksAgree, Becomes, Allowed
  <2>5. QED
    BY <2>2, <2>3, <2>4
<1>4. QED
  BY <1>1, <1>2, <1>3 DEF IInv

-----------------------------------------------------------------------------

\* A statement that ends without missing a lock has what its effect needs.
LEMMA EffectIsCovered ==
  ASSUME NEW t, NEW s, NEW w, NEW locks, Missing(t, s, w, locks) = {}
  PROVE  \A n \in Needs(Rows(t), Effect(t, s, w)) : Covers(locks, n[1], n[2])
<1>1. CASE w.todo = {}
  BY <1>1 DEF Missing
<1>2. CASE w.todo # {}
  <2>1. In(w.todo, s.mode) = {}
    BY <1>2 DEF Missing
  <2>2. QED
    BY <1>2, <2>1 DEF In
<1>3. QED
  BY <1>1, <1>2

\* A statement that ends without missing a lock leaves its writes guarded.
LEMMA EffectIsGuarded ==
  ASSUME NEW t, NEW s, NEW w, NEW locks, Missing(t, s, w, locks) = {},
         NEW k \in DOMAIN Effect(t, s, w)
  PROVE  k \in DOMAIN locks /\ locks[k] \in Writable
<1> DEFINE effect == Effect(t, s, w)
           mode == IF Absent \in {effect[k], Row(Rows(t), k)} THEN "update" ELSE "nokey"
<1>1. \A n \in Needs(Rows(t), effect) : Covers(locks, n[1], n[2])
  BY EffectIsCovered
<1>2. <<k, mode>> \in Needs(Rows(t), effect)
  BY DEF Needs, RowLocks
<1>3. Covers(locks, k, mode)
  BY <1>1, <1>2
<1>4. mode \in Writable
  BY DEF Writable
<1>5. QED
  BY <1>3, <1>4, WritersModes DEF Covers

LEMMA AdvancedIsGuarded ==
  ASSUME NEW t, NEW s, NEW w, NEW locks, Shaped(w), Guarded(locks, w),
         Missing(t, s, w, locks) = {}
  PROVE  /\ Shaped(Advanced(t, s, w, Effect(t, s, w)))
         /\ Guarded(locks, Advanced(t, s, w, Effect(t, s, w)))
<1> DEFINE effect == Effect(t, s, w)
           after == Advanced(t, s, w, effect)
<1>1. after.writes = Over(effect, w.writes) /\ DOMAIN after = DOMAIN w
  BY DEF Advanced, Shaped
<1>2. DOMAIN Over(effect, w.writes) = DOMAIN effect \cup DOMAIN w.writes
  BY DEF Over
<1>3. QED
  BY <1>1, <1>2, EffectIsGuarded DEF Guarded, Shaped

LEMMA ConcludeStep ==
  ASSUME IInv, NEW t \in Tx, NEW s, NEW w, NEW locks,
         Shaped(w), Guarded(locks, w), Allowed(t, locks),
         Missing(t, s, w, locks) = {}, Conclude(t, s, w, locks)
  PROVE  IInv' /\ db' = db
<1> DEFINE after == Advanced(t, s, w, Effect(t, s, w))
<1>1. DOMAIN held = Tx /\ DOMAIN work = Tx
  BY DEF IInv, LocksShaped, WorkShaped
<1>2. Shaped(after) /\ Guarded(locks, after)
  BY AdvancedIsGuarded
<1>3. \A x : Shaped([after EXCEPT !.pc = x]) /\ Guarded(locks, [after EXCEPT !.pc = x])
  BY <1>2 DEF Shaped, Guarded
<1>4. \A x : /\ Shaped([after EXCEPT !.program = x, !.pc = 1])
             /\ Guarded(locks, [after EXCEPT !.program = x, !.pc = 1])
  BY <1>2 DEF Shaped, Guarded
<1>5. \A out : Shaped(Again(t, s, out)) /\ Guarded(NoLocks, Again(t, s, out))
  BY FreshIsGuarded, EndedIsGuarded DEF Again
<1>6. Allowed(t, NoLocks)
  BY DEF Allowed, NoLocks
<1>7. \A l, x : held' = [held EXCEPT ![t] = l] /\ work' = [work EXCEPT ![t] = x] => Becomes(t, l, x)
  BY <1>1 DEF Becomes
<1>8. PICK out : \/ held' = [held EXCEPT ![t] = locks] /\ work' = [work EXCEPT ![t] = after]
                 \/ /\ held' = [held EXCEPT ![t] = locks]
                    /\ work' = [work EXCEPT ![t] = [after EXCEPT !.pc = Len(Code(t)) + 1]]
                 \/ /\ held' = [held EXCEPT ![t] = locks]
                    /\ work' = [work EXCEPT ![t] = [after EXCEPT !.program = out, !.pc = 1]]
                 \/ /\ held' = [held EXCEPT ![t] = NoLocks]
                    /\ work' = [work EXCEPT ![t] = Again(t, s, out)]
  BY DEF Conclude
<1>9. db' = db
  BY DEF Conclude
<1>10. PICK l, x : Becomes(t, l, x) /\ Shaped(x) /\ Guarded(l, x) /\ Allowed(t, l)
  BY <1>2, <1>3, <1>4, <1>5, <1>6, <1>7, <1>8
<1>11. QED
  BY <1>9, <1>10, StepKeepsInv

\* The statement under way keeps what the transaction has written.
LEMMA OpenedKeepsWrites ==
  ASSUME WorkShaped, NEW t \in Tx, NEW s
  PROVE  /\ Shaped(Opened(t, s)) /\ Opened(t, s).writes = work[t].writes
         /\ Opened(t, s).snapshot = work[t].snapshot
<1>1. Shaped(work[t])
  BY DEF WorkShaped, Shaped
<1>2. QED
  BY <1>1 DEF Opened, Shaped

LEMMA LookedKeepsWrites ==
  ASSUME NEW t, NEW s, NEW w, NEW n, Shaped(w)
  PROVE  /\ Shaped(Looked(t, s, w, n)) /\ Looked(t, s, w, n).writes = w.writes
         /\ Looked(t, s, w, n).snapshot = w.snapshot
BY DEF Looked, Shaped

\* A lock is granted when nobody else's excludes it.
LEMMA GrantIsAllowed ==
  ASSUME IInv, NEW t \in Tx, NEW n, Free(t, n)
  PROVE  Allowed(t, Grant(held[t], n[1], n[2]))
<1>1. \A u \in Tx \ {t} : n[1] \in DOMAIN held[u] => ~Excludes(n[2], held[u][n[1]])
  BY DEF Free, Holders
<1>2. SUFFICES ASSUME NEW k \in DOMAIN Grant(held[t], n[1], n[2])
               PROVE  \/ k \in DOMAIN held[t] /\ Grant(held[t], n[1], n[2])[k] = held[t][k]
                      \/ \A u \in Tx \ {t} : k \in DOMAIN held[u] =>
                            ~Excludes(Grant(held[t], n[1], n[2])[k], held[u][k])
  BY DEF Allowed
<1>3. CASE k = n[1] /\ ~Covers(held[t], n[1], n[2])
  BY <1>1, <1>3 DEF Grant
<1>4. CASE k # n[1] \/ Covers(held[t], n[1], n[2])
  BY <1>4 DEF Grant, Covers
<1>5. QED
  BY <1>3, <1>4

LEMMA ExecuteStep ==
  ASSUME IInv, NEW t \in Tx, Execute(t)
  PROVE  IInv' /\ db' = db
<1>1. PICK s, w, missing :
         /\ w = Opened(t, s) /\ missing = Missing(t, s, w, held[t])
         /\ \/ missing = {} /\ Conclude(t, s, w, held[t])
            \/ \E n \in {NextLock(missing)} :
                  \/ Free(t, n) /\ Take(t, s, Looked(t, s, w, n), Grant(held[t], n[1], n[2]))
                  \/ /\ work' = [work EXCEPT ![t] = [w EXCEPT !.todo = @ \ {n[1]}]]
                     /\ UNCHANGED <<db, held>>
                  \/ /\ work' = [work EXCEPT ![t] = w]
                     /\ UNCHANGED <<db, held>>
  BY DEF Execute
<1>2. DOMAIN held = Tx /\ DOMAIN work = Tx
  BY DEF IInv, LocksShaped, WorkShaped
<1>3. Shaped(w) /\ w.writes = work[t].writes
  BY <1>1, OpenedKeepsWrites DEF IInv
<1>4. Guarded(held[t], w) /\ Allowed(t, held[t])
  BY <1>3 DEF IInv, WritesLocked, Guarded, Allowed
<1>5. CASE missing = {} /\ Conclude(t, s, w, held[t])
  BY <1>1, <1>3, <1>4, <1>5, ConcludeStep
<1>6. ASSUME NEW n, Free(t, n), Take(t, s, Looked(t, s, w, n), Grant(held[t], n[1], n[2]))
      PROVE  IInv' /\ db' = db
  <2> DEFINE after == Looked(t, s, w, n)
             locks == Grant(held[t], n[1], n[2])
  <2>1. Shaped(after) /\ after.writes = w.writes
    BY <1>3, LookedKeepsWrites
  <2>2. Guarded(locks, after)
    BY <1>4, <2>1, GrantKeepsWriters DEF Guarded
  <2>3. Allowed(t, locks)
    BY <1>6, GrantIsAllowed
  <2>4. CASE Missing(t, s, after, locks) = {}
    BY <1>6, <2>1, <2>2, <2>3, <2>4, ConcludeStep DEF Take
  <2>5. CASE Missing(t, s, after, locks) # {}
    <3>1. Becomes(t, locks, after) /\ db' = db
      BY <1>2, <1>6, <2>5 DEF Take, Becomes
    <3>2. QED
      BY <2>1, <2>2, <2>3, <3>1, StepKeepsInv
  <2>6. QED
    BY <2>4, <2>5
<1>7. ASSUME NEW n, work' = [work EXCEPT ![t] = [w EXCEPT !.todo = @ \ {n[1]}]], UNCHANGED <<db, held>>
      PROVE  IInv' /\ db' = db
  <2> DEFINE after == [w EXCEPT !.todo = @ \ {n[1]}]
  <2>1. Shaped(after) /\ Guarded(held[t], after)
    BY <1>3, <1>4 DEF Shaped, Guarded
  <2>2. Becomes(t, held[t], after)
    BY <1>2, <1>7 DEF Becomes
  <2>3. QED
    BY <1>4, <1>7, <2>1, <2>2, StepKeepsInv
<1>8. ASSUME work' = [work EXCEPT ![t] = w], UNCHANGED <<db, held>>
      PROVE  IInv' /\ db' = db
  <2>1. Becomes(t, held[t], w)
    BY <1>2, <1>8 DEF Becomes
  <2>2. QED
    BY <1>3, <1>4, <1>8, <2>1, StepKeepsInv
<1>9. QED
  BY <1>1, <1>5, <1>6, <1>7, <1>8

-----------------------------------------------------------------------------

\* A commit changes only rows that the transaction has written.
LEMMA CommitStep ==
  ASSUME IInv, NEW t \in Tx, Commit(t)
  PROVE  /\ IInv' /\ work'[t].out # "running"
         /\ \A k : k \notin DOMAIN work[t].writes => Row(db', k) = Row(db, k)
<1>1. DOMAIN held = Tx /\ DOMAIN work = Tx
  BY DEF IInv, LocksShaped, WorkShaped
<1>2. PICK out \in {"done", "error"} :
         /\ held' = [held EXCEPT ![t] = NoLocks] /\ work' = [work EXCEPT ![t] = Ended(t, out)]
         /\ db' \in {db, Kept(Over(work[t].writes, db))}
  BY DEF Commit
<1>3. Becomes(t, NoLocks, Ended(t, out)) /\ Allowed(t, NoLocks)
  BY <1>1, <1>2 DEF Becomes, Allowed, NoLocks
<1>4. IInv'
  BY <1>3, EndedIsGuarded, StepKeepsInv
<1>5. work'[t].out # "running"
  BY <1>2, <1>3, EndedIsGuarded DEF Becomes
<1>6. ASSUME NEW k, k \notin DOMAIN work[t].writes
      PROVE  Row(Kept(Over(work[t].writes, db)), k) = Row(db, k)
  BY <1>6 DEF Row, Kept, Over
<1>7. QED
  BY <1>2, <1>4, <1>5, <1>6

LEMMA InvInit == Init => IInv
<1> SUFFICES ASSUME Init PROVE IInv
  OBVIOUS
<1>1. PICK start : work = [t \in Tx |-> Begun(start.asked[t])]
  BY DEF Init
<1>2. \A name : Shaped(Begun(name)) /\ DOMAIN Begun(name).writes = {}
  BY DEF Begun, Fresh, Shaped, NoRows
<1>3. LocksShaped /\ LocksAgree
  BY DEF Init, LocksShaped, LocksAgree, NoLocks
<1>4. WorkShaped /\ WritesLocked
  BY <1>1, <1>2 DEF WorkShaped, WritesLocked, Shaped
<1>5. QED
  BY <1>3, <1>4 DEF IInv

LEMMA InvNext == IInv /\ [Next]_vars => IInv'
<1> SUFFICES ASSUME IInv, [Next]_vars PROVE IInv'
  OBVIOUS
<1>1. CASE \E t \in Tx : Execute(t)
  BY <1>1, ExecuteStep
<1>2. CASE \E t \in Tx : Commit(t)
  BY <1>2, CommitStep
<1>3. CASE UNCHANGED vars
  BY <1>3 DEF vars, IInv, LocksShaped, WorkShaped, LocksAgree, WritesLocked
<1>4. QED
  BY <1>1, <1>2, <1>3 DEF Next, Terminated

\* No step changes a row that another running transaction has locked.
LEMMA StepSparesLockedRows ==
  ASSUME IInv, [Next]_vars
  PROVE  \A rows \in {db'} \ {db} : \A t \in Tx : \A k \in DOMAIN held[t] :
            held[t][k] \in {"nokey", "update"} /\ work'[t].out = "running" => Row(rows, k) = Row(db, k)
<1> SUFFICES ASSUME db' # db, NEW t \in Tx, NEW k \in DOMAIN held[t],
                    held[t][k] \in Writable, work'[t].out = "running"
             PROVE  Row(db', k) = Row(db, k)
  BY DEF Writable
<1>1. PICK u \in Tx : Commit(u)
  BY ExecuteStep DEF Next, Terminated, vars
<1>2. u # t
  BY <1>1, CommitStep
<1>3. k \notin DOMAIN work[u].writes
  BY <1>2, WritersExclude DEF IInv, LocksAgree, WritesLocked
<1>4. QED
  BY <1>1, <1>3, CommitStep

\* Locks of different transactions agree in every state.
THEOREM LocksNeverClash == Spec => []LocksAgree
<1>1. Spec => []IInv
  BY InvInit, InvNext, PTL DEF Spec
<1>2. IInv => LocksAgree
  BY DEF IInv
<1>3. QED
  BY <1>1, <1>2, PTL

\* What a transaction has locked against writers (FOR UPDATE, FOR NO KEY
\* UPDATE) stays as it is for everybody else until that transaction ends,
\* whatever the programs do: the checks the use cases make on locked rows
\* still hold when they write.
THEOREM LockedRowsNeverChange == Spec => LockedRowsStay
<1>1. Spec => []IInv
  BY InvInit, InvNext, PTL DEF Spec
<1>2. IInv /\ [Next]_vars =>
        [\A rows \in {db'} \ {db} : \A t \in Tx : \A k \in DOMAIN held[t] :
            held[t][k] \in {"nokey", "update"} /\ work'[t].out = "running" => Row(rows, k) = Row(db, k)]_vars
  BY StepSparesLockedRows
<1>3. QED
  BY <1>1, <1>2, PTL DEF Spec, LockedRowsStay

-----------------------------------------------------------------------------

\* What t has written over the committed rows, whatever snapshot it reads.
ViewOf(rows, w) == Over(w.writes, rows)

\* The rows that are written, the index entries that come or go with them, and
\* the rows newly referred to are locked.
Secured(rows, writes, locks) ==
    \A k \in DOMAIN writes :
        /\ Covers(locks, k, IF Absent \in {writes[k], Row(rows, k)} THEN "update" ELSE "nokey")
        /\ \A e \in Differing(Entries(k, Row(rows, k)), Entries(k, writes[k])) : Covers(locks, e, "update")
        /\ \A p \in Referred(k, writes[k]) \ Referred(k, Row(rows, k)) : Covers(locks, p, "keyshare")

\* A transaction holds the locks that its writes need, a READ ONLY one writes
\* nothing, and with its writes the database would keep its constraints.
Fits(rows, locks, w) ==
    /\ Secured(rows, w.writes, locks)
    /\ w.snapshot # NoRows => DOMAIN w.writes = {}
    /\ \A k \in DOMAIN w.writes : RowCheck(k, w.writes[k])
    /\ Distinct(ViewOf(rows, w))

DataFits == Checked(db) /\ Distinct(db) /\ \A t \in Tx : Fits(db, held[t], work[t])

LEMMA OverOver ==
  ASSUME NEW a, NEW b, NEW c
  PROVE  Over(a, Over(b, c)) = Over(Over(a, b), c)
BY DEF Over

LEMMA OverNothing ==
  ASSUME NEW a
  PROVE  /\ DOMAIN NoRows = {} /\ Over(NoRows, NoRows) = NoRows
         /\ DOMAIN Over(NoRows, a) = DOMAIN a /\ \A k \in DOMAIN a : Over(NoRows, a)[k] = a[k]
BY DEF Over, NoRows

\* A lock is only exchanged for one that excludes more.
Stronger(old, new) == \A k, m : Covers(old, k, m) => Covers(new, k, m)

LEMMA GrantIsStronger ==
  ASSUME NEW locks, NEW key, NEW mode
  PROVE  Stronger(locks, Grant(locks, key, mode))
<1> SUFFICES ASSUME NEW k, NEW m, Covers(locks, k, m)
             PROVE  Covers(Grant(locks, key, mode), k, m)
  BY DEF Stronger
<1>1. CASE k = key /\ ~Covers(locks, key, mode)
  <2>1. locks[k] \in AtLeast(m) /\ locks[k] \notin AtLeast(mode)
    BY <1>1 DEF Covers
  <2>2. mode \in AtLeast(m)
    BY <2>1 DEF AtLeast
  <2>3. QED
    BY <1>1, <2>2 DEF Covers, Grant
<1>2. CASE k # key \/ Covers(locks, key, mode)
  BY <1>2 DEF Covers, Grant
<1>3. QED
  BY <1>1, <1>2

\* Who has written nothing disturbs nothing.
LEMMA NothingFits ==
  ASSUME NEW rows, NEW locks, NEW w, DOMAIN w.writes = {}, Distinct(rows)
  PROVE  Fits(rows, locks, w)
<1>1. Secured(rows, w.writes, locks)
  BY DEF Secured
<1>2. Distinct(ViewOf(rows, w))
  BY DEF ViewOf, Distinct, Over
<1>3. QED
  BY <1>1, <1>2 DEF Fits

Same(v, w) ==
    /\ DOMAIN w.writes = DOMAIN v.writes /\ \A k \in DOMAIN v.writes : w.writes[k] = v.writes[k]
    /\ w.snapshot = v.snapshot

LEMMA StrongerFits ==
  ASSUME NEW rows, NEW locks, NEW more, NEW v, NEW w, Fits(rows, locks, v), Stronger(locks, more),
         Same(v, w)
  PROVE  Fits(rows, more, w)
<1>1. Secured(rows, w.writes, more)
  BY DEF Fits, Stronger, Secured, Same
<1>2. DOMAIN ViewOf(rows, w) = DOMAIN ViewOf(rows, v) /\ \A k \in DOMAIN ViewOf(rows, v) : ViewOf(rows, w)[k] = ViewOf(rows, v)[k]
  BY DEF ViewOf, Over, Same
<1>3. Distinct(ViewOf(rows, w))
  BY <1>2 DEF Fits, Distinct
<1>4. QED
  BY <1>1, <1>3 DEF Fits, Same

-----------------------------------------------------------------------------

\* A statement that misses no lock has locked what it needs.
LEMMA NeedsSecured ==
  ASSUME NEW rows, NEW effect, NEW locks, \A n \in Needs(rows, effect) : Covers(locks, n[1], n[2])
  PROVE  Secured(rows, effect, locks)
<1> SUFFICES ASSUME NEW k \in DOMAIN effect
             PROVE  /\ Covers(locks, k, IF Absent \in {effect[k], Row(rows, k)} THEN "update" ELSE "nokey")
                    /\ \A e \in Differing(Entries(k, Row(rows, k)), Entries(k, effect[k])) : Covers(locks, e, "update")
                    /\ \A p \in Referred(k, effect[k]) \ Referred(k, Row(rows, k)) : Covers(locks, p, "keyshare")
  BY DEF Secured
<1> DEFINE appear == Differing(Entries(k, Row(rows, k)), Entries(k, effect[k]))
           refer == Referred(k, effect[k]) \ Referred(k, Row(rows, k))
           mode == IF Absent \in {effect[k], Row(rows, k)} THEN "update" ELSE "nokey"
<1>1. <<k, mode>> \in Needs(rows, effect)
  BY DEF Needs, RowLocks
<1>2. ASSUME NEW e \in appear PROVE <<e, "update">> \in Needs(rows, effect)
  <2>1. <<e, "update">> \in In(appear, "update")
    BY DEF In
  <2>2. <<e, "update">> \in EntryLocks(rows, effect)
    BY <2>1 DEF EntryLocks
  <2>3. QED
    BY <2>2 DEF Needs
<1>3. ASSUME NEW p \in refer PROVE <<p, "keyshare">> \in Needs(rows, effect)
  <2>1. <<p, "keyshare">> \in In(refer, "keyshare")
    BY DEF In
  <2>2. <<p, "keyshare">> \in ParentLocks(rows, effect)
    BY <2>1 DEF ParentLocks
  <2>3. QED
    BY <2>2 DEF Needs
<1> HIDE DEF appear, refer, mode
<1>4. Covers(locks, k, mode)
  BY <1>1
<1>5. \A e \in appear : Covers(locks, e, "update")
  BY <1>2 DEF In
<1>6. \A p \in refer : Covers(locks, p, "keyshare")
  BY <1>3 DEF In
<1>7. QED
  BY <1>4, <1>5, <1>6 DEF appear, refer, mode

\* What one statement after another writes needs no locks but those that each
\* of them needs.
LEMMA BothSecured ==
  ASSUME NEW rows, NEW writes, NEW effect, NEW locks,
         Secured(rows, writes, locks), Secured(Over(writes, rows), effect, locks)
  PROVE  Secured(rows, Over(effect, writes), locks)
<1> DEFINE both == Over(effect, writes)
           mid(k) == Row(Over(writes, rows), k)
<1>1. DOMAIN both = DOMAIN effect \cup DOMAIN writes
  BY DEF Over
<1>2. \A k \in DOMAIN writes : mid(k) = writes[k]
  BY DEF Row, Over
<1>3. \A k : k \notin DOMAIN writes => mid(k) = Row(rows, k)
  BY DEF Row, Over
<1>4. \A k \in DOMAIN effect : both[k] = effect[k]
  BY DEF Over
<1>5. \A k \in DOMAIN writes : k \notin DOMAIN effect => both[k] = writes[k]
  BY DEF Over
<1>6. \A k \in DOMAIN effect :
        /\ Covers(locks, k, IF Absent \in {effect[k], mid(k)} THEN "update" ELSE "nokey")
        /\ \A e \in Differing(Entries(k, mid(k)), Entries(k, effect[k])) : Covers(locks, e, "update")
        /\ \A p \in Referred(k, effect[k]) \ Referred(k, mid(k)) : Covers(locks, p, "keyshare")
  BY DEF Secured
<1> HIDE DEF both, mid
<1> SUFFICES ASSUME NEW k \in DOMAIN both
             PROVE  /\ Covers(locks, k, IF Absent \in {both[k], Row(rows, k)} THEN "update" ELSE "nokey")
                    /\ \A e \in Differing(Entries(k, Row(rows, k)), Entries(k, both[k])) : Covers(locks, e, "update")
                    /\ \A p \in Referred(k, both[k]) \ Referred(k, Row(rows, k)) : Covers(locks, p, "keyshare")
  BY DEF Secured, both
<1>8. CASE k \notin DOMAIN effect
  BY <1>1, <1>5, <1>8 DEF Secured
<1>9. CASE k \in DOMAIN effect /\ k \notin DOMAIN writes
  BY <1>3, <1>4, <1>6, <1>9
<1>10. CASE k \in DOMAIN effect /\ k \in DOMAIN writes
  <2>1. mid(k) = writes[k] /\ both[k] = effect[k]
    BY <1>2, <1>4, <1>10
  <2>2. Covers(locks, k, IF Absent \in {both[k], Row(rows, k)} THEN "update" ELSE "nokey")
    <3>1. Covers(locks, k, "update") => Covers(locks, k, "nokey")
      BY DEF Covers, AtLeast
    <3>2. QED
      BY <1>6, <1>10, <2>1, <3>1 DEF Secured
  <2>3. ASSUME NEW e \in Differing(Entries(k, Row(rows, k)), Entries(k, both[k])) PROVE Covers(locks, e, "update")
    BY <1>6, <1>10, <2>1 DEF Secured, Differing
  <2>4. ASSUME NEW p \in Referred(k, both[k]) \ Referred(k, Row(rows, k)) PROVE Covers(locks, p, "keyshare")
    BY <1>6, <1>10, <2>1 DEF Secured
  <2>5. QED
    BY <2>2, <2>3, <2>4
<1>11. QED
  BY <1>8, <1>9, <1>10

\* A statement that PostgreSQL accepts adds no second owner of an entry.
LEMMA SoundKeepsDistinct ==
  ASSUME NEW rows, NEW effect, Distinct(rows),
         \A k \in DOMAIN effect :
            Unused(k, Entries(k, effect[k]) \ Entries(k, Row(rows, k)), Over(effect, rows))
  PROVE  Distinct(Over(effect, rows))
<1> DEFINE new == Over(effect, rows)
<1>1. SUFFICES ASSUME NEW j \in DOMAIN new, NEW k \in DOMAIN new, j # k,
                      NEW e \in Entries(j, new[j]) \cap Entries(k, new[k])
               PROVE  FALSE
  BY DEF Distinct
<1>2. ASSUME NEW i \in DOMAIN new, e \in Entries(i, new[i]), i \notin DOMAIN effect \/ e \in Entries(i, Row(rows, i))
      PROVE  i \in DOMAIN rows /\ e \in Entries(i, rows[i])
  BY <1>2 DEF Over, Row, Entries
<1>3. ASSUME NEW i \in DOMAIN effect, NEW h \in DOMAIN new, h # i, e \in Entries(i, new[i]), e \in Entries(h, new[h])
      PROVE  e \in Entries(i, Row(rows, i))
  <2>1. new[i] = effect[i]
    BY DEF Over
  <2>2. QED
    BY <1>3, <2>1 DEF Unused
<1>4. QED
  BY <1>1, <1>2, <1>3 DEF Distinct

-----------------------------------------------------------------------------

\* What a step of t leaves it with: nothing written, what it had, or that with
\* the effect of one statement that PostgreSQL accepts.
Nothing(w) == w.writes = NoRows /\ w.snapshot = NoRows

Wrote(t, s, v, locks, w) ==
    /\ Missing(t, s, v, locks) = {}
    /\ Sound(t, s, Effect(t, s, v), Over(Effect(t, s, v), Rows(t)))
    /\ w.writes = Over(Effect(t, s, v), work[t].writes)
    /\ w.snapshot = IF s.do = "snapshot" THEN db ELSE work[t].snapshot

Moves(t, locks, w) ==
    \/ Nothing(w)
    \/ Stronger(held[t], locks) /\ Same(work[t], w)
    \/ Stronger(held[t], locks) /\ \E s, v : Wrote(t, s, v, locks, w)

\* A statement that does not end the transaction was accepted, or did nothing.
LEMMA OutcomeIsSound ==
  ASSUME NEW t, NEW s, NEW w, NEW effect, effect = Effect(t, s, w), Outcome(t, s, w, effect) # "error"
  PROVE  \/ Sound(t, s, effect, Over(effect, Rows(t)))
         \/ effect = NoRows /\ s.do # "snapshot"
<1>1. s.do = "view" => effect = NoRows
  BY DEF Effect
<1>2. QED
  BY <1>1 DEF Outcome, Judged

LEMMA ConcludeMoves ==
  ASSUME IInv, NEW t \in Tx, NEW s, NEW w, NEW locks, Shaped(w), Same(work[t], w),
         Stronger(held[t], locks), Missing(t, s, w, locks) = {}, Conclude(t, s, w, locks)
  PROVE  \E l, x : Becomes(t, l, x) /\ Moves(t, l, x)
<1> DEFINE effect == Effect(t, s, w)
           out == Outcome(t, s, w, effect)
           after == Advanced(t, s, w, effect)
<1>1. DOMAIN held = Tx /\ DOMAIN work = Tx
  BY DEF IInv, LocksShaped, WorkShaped
<1>2. \A l, x : held' = [held EXCEPT ![t] = l] /\ work' = [work EXCEPT ![t] = x] => Becomes(t, l, x)
  BY <1>1 DEF Becomes
<1>3. /\ after.writes = Over(effect, work[t].writes)
      /\ after.snapshot = IF s.do = "snapshot" THEN db ELSE work[t].snapshot
      /\ {"writes", "snapshot"} \subseteq DOMAIN after
  <2>1. after.writes = Over(effect, w.writes)
    BY DEF Advanced, Shaped
  <2>2. Over(effect, w.writes) = Over(effect, work[t].writes)
    BY DEF Over, Same
  <2>3. QED
    BY <2>1, <2>2 DEF Advanced, Shaped, Same
<1>4. \/ /\ held' = [held EXCEPT ![t] = NoLocks] /\ work' = [work EXCEPT ![t] = Again(t, s, out)]
      \/ /\ out # "error" /\ held' = [held EXCEPT ![t] = locks]
         /\ \/ work' = [work EXCEPT ![t] = after]
            \/ work' = [work EXCEPT ![t] = [after EXCEPT !.pc = Len(Code(t)) + 1]]
            \/ work' = [work EXCEPT ![t] = [after EXCEPT !.program = out, !.pc = 1]]
  BY ProgramAssumption DEF Conclude
<1>5. ASSUME NEW x, x.writes = after.writes, x.snapshot = after.snapshot, out # "error"
      PROVE  Moves(t, locks, x)
  <2>1. CASE Sound(t, s, effect, Over(effect, Rows(t)))
    BY <1>3, <1>5, <2>1 DEF Moves, Wrote
  <2>2. CASE effect = NoRows /\ s.do # "snapshot"
    BY <1>3, <1>5, <2>2, OverNothing DEF Moves, Same
  <2>3. QED
    BY <1>5, <2>1, <2>2, OutcomeIsSound
<1>6. Nothing(Again(t, s, out))
  BY DEF Again, Ended, Fresh, Nothing
<1>7. \A p : /\ [after EXCEPT !.pc = p].writes = after.writes /\ [after EXCEPT !.pc = p].snapshot = after.snapshot
             /\ [after EXCEPT !.program = out, !.pc = 1].writes = after.writes
             /\ [after EXCEPT !.program = out, !.pc = 1].snapshot = after.snapshot
  BY <1>3
<1> HIDE DEF effect, out, after
<1>8. CASE work' = [work EXCEPT ![t] = Again(t, s, out)] /\ held' = [held EXCEPT ![t] = NoLocks]
  BY <1>2, <1>6, <1>8 DEF Moves
<1>9. CASE ~(work' = [work EXCEPT ![t] = Again(t, s, out)] /\ held' = [held EXCEPT ![t] = NoLocks])
  <2>1. out # "error" /\ held' = [held EXCEPT ![t] = locks]
    BY <1>4, <1>9
  <2>2. ASSUME NEW x, work' = [work EXCEPT ![t] = x], x.writes = after.writes, x.snapshot = after.snapshot
        PROVE  Becomes(t, locks, x) /\ Moves(t, locks, x)
    BY <1>2, <1>5, <2>1, <2>2
  <2>3. CASE work' = [work EXCEPT ![t] = after]
    BY <2>2, <2>3
  <2>4. CASE work' = [work EXCEPT ![t] = [after EXCEPT !.pc = Len(Code(t)) + 1]]
    BY <1>7, <2>2, <2>4
  <2>5. CASE work' = [work EXCEPT ![t] = [after EXCEPT !.program = out, !.pc = 1]]
    BY <1>7, <2>2, <2>5
  <2>6. QED
    BY <1>4, <1>9, <2>3, <2>4, <2>5
<1>10. QED
  BY <1>8, <1>9

LEMMA ExecuteMoves ==
  ASSUME IInv, NEW t \in Tx, Execute(t)
  PROVE  \E l, x : Becomes(t, l, x) /\ Moves(t, l, x)
<1>1. PICK s, w, missing :
         /\ w = Opened(t, s) /\ missing = Missing(t, s, w, held[t])
         /\ \/ missing = {} /\ Conclude(t, s, w, held[t])
            \/ \E n \in {NextLock(missing)} :
                  \/ Free(t, n) /\ Take(t, s, Looked(t, s, w, n), Grant(held[t], n[1], n[2]))
                  \/ /\ work' = [work EXCEPT ![t] = [w EXCEPT !.todo = @ \ {n[1]}]]
                     /\ UNCHANGED <<db, held>>
                  \/ /\ work' = [work EXCEPT ![t] = w]
                     /\ UNCHANGED <<db, held>>
  BY DEF Execute
<1>2. DOMAIN held = Tx /\ DOMAIN work = Tx
  BY DEF IInv, LocksShaped, WorkShaped
<1>3. Shaped(w) /\ Same(work[t], w)
  BY <1>1, OpenedKeepsWrites DEF IInv, Same
<1>4. Stronger(held[t], held[t])
  BY DEF Stronger
<1>5. CASE missing = {} /\ Conclude(t, s, w, held[t])
  BY <1>1, <1>3, <1>4, <1>5, ConcludeMoves
<1>6. ASSUME NEW n, Take(t, s, Looked(t, s, w, n), Grant(held[t], n[1], n[2]))
      PROVE  \E l, x : Becomes(t, l, x) /\ Moves(t, l, x)
  <2> DEFINE after == Looked(t, s, w, n)
             locks == Grant(held[t], n[1], n[2])
  <2>1. Shaped(after) /\ Same(work[t], after)
    BY <1>3, LookedKeepsWrites DEF Same
  <2>2. Stronger(held[t], locks)
    BY GrantIsStronger
  <2>3. CASE Missing(t, s, after, locks) = {}
    BY <1>6, <2>1, <2>2, <2>3, ConcludeMoves DEF Take
  <2>4. CASE Missing(t, s, after, locks) # {}
    <3>1. Becomes(t, locks, after)
      BY <1>2, <1>6, <2>4 DEF Take, Becomes
    <3>2. QED
      BY <2>1, <2>2, <3>1 DEF Moves
  <2>5. QED
    BY <2>3, <2>4
<1>7. ASSUME NEW n, work' = [work EXCEPT ![t] = [w EXCEPT !.todo = @ \ {n[1]}]], UNCHANGED <<db, held>>
      PROVE  \E l, x : Becomes(t, l, x) /\ Moves(t, l, x)
  <2> DEFINE after == [w EXCEPT !.todo = @ \ {n[1]}]
  <2>1. Same(work[t], after)
    BY <1>3 DEF Same, Shaped
  <2>2. Becomes(t, held[t], after)
    BY <1>2, <1>7 DEF Becomes
  <2>3. QED
    BY <1>4, <2>1, <2>2 DEF Moves
<1>8. ASSUME work' = [work EXCEPT ![t] = w], UNCHANGED <<db, held>>
      PROVE  \E l, x : Becomes(t, l, x) /\ Moves(t, l, x)
  <2>1. Becomes(t, held[t], w)
    BY <1>2, <1>8 DEF Becomes
  <2>2. QED
    BY <1>3, <1>4, <2>1 DEF Moves
<1>9. QED
  BY <1>1, <1>5, <1>6, <1>7, <1>8

\* A transaction that is not READ ONLY reads what it would leave.
LEMMA ReadsItsView ==
  ASSUME NEW t, work[t].snapshot = NoRows
  PROVE  Rows(t) = ViewOf(db, work[t])
BY DEF Rows, ViewOf

\* With the effect of a statement a transaction still fits.
LEMMA WroteFits ==
  ASSUME NEW t, NEW s, NEW v, NEW locks, NEW w, Distinct(db),
         Fits(db, held[t], work[t]), Stronger(held[t], locks), Wrote(t, s, v, locks, w)
  PROVE  Fits(db, locks, w)
<1> DEFINE effect == Effect(t, s, v)
<1>1. w.writes = Over(effect, work[t].writes)
  BY DEF Wrote
<1>2. CASE ReadOnly(t, s)
  <2>1. effect = NoRows /\ work[t].writes = NoRows
    BY <1>2 DEF Wrote, Sound
  <2>2. DOMAIN w.writes = {}
    BY <1>1, <2>1, OverNothing
  <2>3. QED
    BY <2>2, NothingFits
<1>3. CASE ~ReadOnly(t, s)
  <2>1. work[t].snapshot = NoRows /\ w.snapshot = NoRows
    BY <1>3 DEF ReadOnly, Wrote
  <2>2. Rows(t) = ViewOf(db, work[t])
    BY <2>1, ReadsItsView
  <2>3. Secured(db, w.writes, locks)
    <3>1. Secured(db, work[t].writes, locks)
      BY DEF Fits, Stronger, Secured
    <3>2. \A n \in Needs(Rows(t), effect) : Covers(locks, n[1], n[2])
      BY EffectIsCovered DEF Wrote
    <3>3. Secured(Over(work[t].writes, db), effect, locks)
      BY <2>2, <3>2, NeedsSecured DEF ViewOf
    <3>4. QED
      BY <1>1, <3>1, <3>3, BothSecured
  <2>4. ViewOf(db, w) = Over(effect, ViewOf(db, work[t]))
    BY <1>1, OverOver DEF ViewOf
  <2>5. Distinct(ViewOf(db, w))
    BY <2>2, <2>4, SoundKeepsDistinct DEF Wrote, Sound, Fits
  <2>6. \A k \in DOMAIN w.writes : RowCheck(k, w.writes[k])
    BY <1>1 DEF Wrote, Sound, Fits, Over
  <2>7. QED
    BY <2>1, <2>3, <2>5, <2>6 DEF Fits
<1>4. QED
  BY <1>2, <1>3

\* What a step of one transaction leaves it with fits; the others go on as
\* they are.
LEMMA MoveKeepsFits ==
  ASSUME IInv, DataFits, db' = db, NEW t \in Tx, NEW locks, NEW w, Becomes(t, locks, w), Moves(t, locks, w)
  PROVE  DataFits'
<1>1. Fits(db, locks, w)
  <2>1. CASE Nothing(w)
    BY <2>1, OverNothing, NothingFits DEF Nothing, DataFits
  <2>2. CASE Stronger(held[t], locks) /\ Same(work[t], w)
    BY <2>2, StrongerFits DEF DataFits
  <2>3. CASE Stronger(held[t], locks) /\ \E s, v : Wrote(t, s, v, locks, w)
    BY <2>3, WroteFits DEF DataFits
  <2>4. QED
    BY <2>1, <2>2, <2>3 DEF Moves
<1>2. ASSUME NEW u \in Tx PROVE Fits(db', held'[u], work'[u])
  BY <1>1 DEF Becomes, DataFits
<1>3. QED
  BY <1>2 DEF DataFits

-----------------------------------------------------------------------------

\* Two transactions write different rows, and lock different entries.
LEMMA WritersApart ==
  ASSUME IInv, NEW t \in Tx, NEW u \in Tx, u # t
  PROVE  /\ DOMAIN work[t].writes \cap DOMAIN work[u].writes = {}
         /\ \A k : ~(Covers(held[t], k, "update") /\ Covers(held[u], k, "update"))
         /\ \A k : ~(Covers(held[t], k, "keyshare") /\ Covers(held[u], k, "update"))
<1>1. \A k \in DOMAIN held[t] \cap DOMAIN held[u] : ~Excludes(held[t][k], held[u][k])
  BY DEF IInv, LocksAgree
<1>2. \A k \in DOMAIN work[t].writes : k \in DOMAIN held[t] /\ held[t][k] \in Writable
  BY DEF IInv, WritesLocked
<1>3. \A k \in DOMAIN work[u].writes : k \in DOMAIN held[u] /\ held[u][k] \in Writable
  BY DEF IInv, WritesLocked
<1>4. DOMAIN work[t].writes \cap DOMAIN work[u].writes = {}
  BY <1>1, <1>2, <1>3, WritersExclude
<1>5. \A k : ~(Covers(held[t], k, "keyshare") /\ Covers(held[u], k, "update"))
  BY <1>1 DEF Covers, AtLeast, Excludes, Conflicts
<1>6. \A k : Covers(held[t], k, "update") => Covers(held[t], k, "keyshare")
  BY DEF Covers, AtLeast
<1>7. QED
  BY <1>4, <1>5, <1>6

\* The rows that are not there have no entries.
LEMMA NoEntries ==
  ASSUME NEW k
  PROVE  Entries(k, Absent) = {} /\ Referred(k, Absent) = {}
BY DEF Entries, Referred

\* A commit stores what the transaction has seen.
LEMMA CommitStores ==
  ASSUME NEW rows, NEW w, NEW stored, stored = Kept(ViewOf(rows, w))
  PROVE  /\ \A k \in DOMAIN stored : stored[k] # Absent /\ k \in DOMAIN ViewOf(rows, w) /\ stored[k] = ViewOf(rows, w)[k]
         /\ \A k \in DOMAIN w.writes : Row(stored, k) = w.writes[k]
         /\ \A k : k \notin DOMAIN w.writes => Row(stored, k) = Row(rows, k)
BY DEF Kept, ViewOf, Over, Row

LEMMA CommitKeepsDatabase ==
  ASSUME DataFits, NEW t \in Tx, db' = Kept(ViewOf(db, work[t]))
  PROVE  Checked(db') /\ Distinct(db')
<1>1. \A k \in DOMAIN db' : db'[k] # Absent /\ k \in DOMAIN ViewOf(db, work[t]) /\ db'[k] = ViewOf(db, work[t])[k]
  BY CommitStores
<1>2. Fits(db, held[t], work[t])
  BY DEF DataFits
<1>3. Distinct(db')
  BY <1>1, <1>2 DEF Fits, Distinct
<1>4. ASSUME NEW k \in DOMAIN ViewOf(db, work[t]) PROVE RowCheck(k, ViewOf(db, work[t])[k])
  BY <1>2 DEF ViewOf, Over, Fits, DataFits, Checked
<1>5. QED
  BY <1>1, <1>3, <1>4 DEF Checked

\* An entry of a row that u has written is not that of a row that u has not
\* written, after t has committed.
LEMMA CommitLeavesEntries ==
  ASSUME IInv, DataFits, NEW t \in Tx, NEW u \in Tx, u # t, db' = Kept(ViewOf(db, work[t])),
         NEW j \in DOMAIN work[u].writes, NEW k \in DOMAIN db', k \notin DOMAIN work[u].writes,
         NEW e \in Entries(j, work[u].writes[j]), e \in Entries(k, db'[k])
  PROVE  FALSE
<1>1. Fits(db, held[t], work[t]) /\ Fits(db, held[u], work[u])
  BY DEF DataFits
<1>2. j \notin DOMAIN work[t].writes /\ j # k
  BY WritersApart
<1>3. Row(db', j) = Row(db, j)
  BY <1>2, CommitStores
<1>4. Distinct(db')
  BY CommitKeepsDatabase
<1>5. e \notin Entries(j, Row(db, j))
  <2>1. SUFFICES ASSUME e \in Entries(j, Row(db', j)) PROVE FALSE
    BY <1>3
  <2>2. j \in DOMAIN db' /\ Row(db', j) = db'[j]
    BY <2>1, NoEntries DEF Row
  <2>3. QED
    BY <1>2, <1>4, <2>1, <2>2 DEF Distinct
<1>6. Covers(held[u], e, "update")
  BY <1>1, <1>5 DEF Fits, Secured, Differing
<1>7. e \notin Entries(k, Row(db, k))
  <2>1. SUFFICES ASSUME e \in Entries(k, Row(db, k)) PROVE FALSE
    OBVIOUS
  <2>2. k \in DOMAIN db /\ Row(db, k) = db[k]
    BY <2>1, NoEntries DEF Row
  <2>3. /\ j \in DOMAIN ViewOf(db, work[u]) /\ ViewOf(db, work[u])[j] = work[u].writes[j]
        /\ k \in DOMAIN ViewOf(db, work[u]) /\ ViewOf(db, work[u])[k] = db[k]
    BY <2>2 DEF ViewOf, Over
  <2>4. QED
    BY <1>1, <1>2, <2>1, <2>2, <2>3 DEF Fits, Distinct
<1>8. k \in DOMAIN work[t].writes /\ Row(db', k) = work[t].writes[k]
  <2>1. Row(db', k) = db'[k]
    BY DEF Row
  <2>2. QED
    BY <1>7, <2>1, CommitStores
<1>9. Covers(held[t], e, "update")
  BY <1>1, <1>7, <1>8 DEF Fits, Secured, Differing, Row
<1>10. QED
  BY <1>6, <1>9, WritersApart

LEMMA CommitKeepsOthers ==
  ASSUME IInv, DataFits, NEW t \in Tx, NEW u \in Tx, u # t, db' = Kept(ViewOf(db, work[t]))
  PROVE  Fits(db', held[u], work[u])
<1>1. Fits(db, held[u], work[u])
  BY DEF DataFits
<1>2. \A k \in DOMAIN work[u].writes : Row(db', k) = Row(db, k)
  BY WritersApart, CommitStores
<1>3. Secured(db', work[u].writes, held[u])
  BY <1>1, <1>2 DEF Fits, Secured
<1>4. Distinct(ViewOf(db', work[u]))
  <2> DEFINE new == ViewOf(db', work[u])
             old == ViewOf(db, work[u])
  <2>1. SUFFICES ASSUME NEW j \in DOMAIN new, NEW k \in DOMAIN new, j # k,
                        NEW e \in Entries(j, new[j]) \cap Entries(k, new[k])
                 PROVE  FALSE
    BY DEF Distinct
  <2>2. \A i \in DOMAIN new : \/ i \in DOMAIN work[u].writes /\ new[i] = work[u].writes[i]
                              \/ i \notin DOMAIN work[u].writes /\ i \in DOMAIN db' /\ new[i] = db'[i]
    BY DEF ViewOf, Over
  <2>3. \A i \in DOMAIN work[u].writes : i \in DOMAIN old /\ old[i] = work[u].writes[i]
    BY DEF ViewOf, Over
  <2>4. Distinct(db') /\ Distinct(old)
    BY <1>1, CommitKeepsDatabase DEF Fits
  <2> HIDE DEF new, old
  <2>5. CASE j \in DOMAIN work[u].writes /\ k \in DOMAIN work[u].writes
    BY <2>1, <2>2, <2>3, <2>4, <2>5 DEF Distinct
  <2>6. CASE j \notin DOMAIN work[u].writes /\ k \notin DOMAIN work[u].writes
    BY <2>1, <2>2, <2>4, <2>6 DEF Distinct
  <2>7. CASE j \in DOMAIN work[u].writes /\ k \notin DOMAIN work[u].writes
    BY <2>1, <2>2, <2>7, CommitLeavesEntries
  <2>8. CASE j \notin DOMAIN work[u].writes /\ k \in DOMAIN work[u].writes
    BY <2>1, <2>2, <2>8, CommitLeavesEntries
  <2>9. QED
    BY <2>5, <2>6, <2>7, <2>8
<1>5. QED
  BY <1>1, <1>3, <1>4 DEF Fits

LEMMA CommitKeepsFits ==
  ASSUME IInv, DataFits, NEW t \in Tx, Commit(t)
  PROVE  DataFits'
<1>1. DOMAIN held = Tx /\ DOMAIN work = Tx
  BY DEF IInv, LocksShaped, WorkShaped
<1>2. PICK out \in {"done", "error"} :
         /\ held' = [held EXCEPT ![t] = NoLocks] /\ work' = [work EXCEPT ![t] = Ended(t, out)]
         /\ db' = db \/ db' = Kept(ViewOf(db, work[t]))
  BY DEF Commit, ViewOf
<1>3. Nothing(Ended(t, out))
  BY DEF Ended, Fresh, Nothing
<1>4. Becomes(t, NoLocks, Ended(t, out))
  BY <1>1, <1>2 DEF Becomes
<1>5. CASE db' = db
  BY <1>3, <1>4, <1>5, MoveKeepsFits DEF Moves
<1>6. CASE db' = Kept(ViewOf(db, work[t]))
  <2>1. Checked(db') /\ Distinct(db')
    BY <1>6, CommitKeepsDatabase
  <2>2. Fits(db', NoLocks, Ended(t, out))
    BY <1>3, <2>1, OverNothing, NothingFits DEF Nothing
  <2>3. ASSUME NEW u \in Tx \ {t} PROVE Fits(db', held[u], work[u])
    BY <1>6, CommitKeepsOthers
  <2>4. ASSUME NEW u \in Tx PROVE Fits(db', held'[u], work'[u])
    BY <1>4, <2>2, <2>3 DEF Becomes
  <2>5. QED
    BY <2>1, <2>4 DEF DataFits
<1>7. QED
  BY <1>2, <1>5, <1>6

LEMMA FitsInit == Init => DataFits
<1> SUFFICES ASSUME Init PROVE DataFits
  OBVIOUS
<1>1. PICK start \in Starts : db = start.db /\ work = [t \in Tx |-> Begun(start.asked[t])]
  BY DEF Init
<1>2. \A name : DOMAIN Begun(name).writes = {}
  BY DEF Begun, Fresh, NoRows
<1>3. Checked(db) /\ Distinct(db)
  BY <1>1, StartsAssumption
<1>4. QED
  BY <1>1, <1>2, <1>3, NothingFits DEF DataFits

LEMMA FitsNext == IInv /\ DataFits /\ [Next]_vars => DataFits'
<1> SUFFICES ASSUME IInv, DataFits, [Next]_vars PROVE DataFits'
  OBVIOUS
<1>1. CASE \E t \in Tx : Execute(t)
  BY <1>1, ExecuteStep, ExecuteMoves, MoveKeepsFits
<1>2. CASE \E t \in Tx : Commit(t)
  BY <1>2, CommitKeepsFits
<1>3. CASE UNCHANGED vars
  BY <1>3 DEF vars, DataFits
<1>4. QED
  BY <1>1, <1>2, <1>3 DEF Next, Terminated

-----------------------------------------------------------------------------

\* The rows referred to are there: those of the references that a statement
\* checks, and those that the commit checks.
Present(rows) == \A k \in DOMAIN rows : \A p \in Referred(k, rows[k]) : Row(rows, p) # Absent

PresentLater(rows) == \A k \in DOMAIN rows : \A p \in Deferred(k, rows[k]) : Row(rows, p) # Absent

LEMMA WholeIsPresent ==
  ASSUME NEW rows, Checked(rows)
  PROVE  Whole(rows) <=> Present(rows) /\ PresentLater(rows)
<1>1. ASSUME NEW k \in DOMAIN rows
      PROVE  Parents(k, rows[k], {"cascade", "set null", "deferred"}) = Referred(k, rows[k]) \cup Deferred(k, rows[k])
  <2>1. rows[k] # Absent
    BY DEF Checked
  <2>2. Parents(k, rows[k], {"cascade", "set null", "deferred"})
          = Parents(k, rows[k], {"cascade", "set null"}) \cup Parents(k, rows[k], {"deferred"})
    BY DEF Parents
  <2>3. QED
    BY <2>1, <2>2 DEF Referred, Deferred
<1>2. \A p : Row(rows, p) # Absent <=> p \in DOMAIN rows
  BY DEF Row, Checked
<1>3. QED
  BY <1>1, <1>2 DEF Whole, Present, PresentLater

\* A commit finds what its new references are about, and leaves no reference
\* to a row that it removes.
LEMMA CommitKeepsLater ==
  ASSUME DataFits, PresentLater(db), NEW t \in Tx, Consistent(t), db' = Kept(ViewOf(db, work[t]))
  PROVE  PresentLater(db')
<1> DEFINE w == work[t]
           rows == ViewOf(db, w)
<1>1. Fits(db, held[t], w) /\ Checked(db)
  BY DEF DataFits
<1>2. /\ \A k \in DOMAIN db' : db'[k] # Absent /\ k \in DOMAIN rows /\ db'[k] = rows[k]
      /\ \A k \in DOMAIN w.writes : Row(db', k) = w.writes[k]
      /\ \A k : k \notin DOMAIN w.writes => Row(db', k) = Row(db, k)
  BY CommitStores
<1>3. SUFFICES ASSUME NEW k \in DOMAIN db', NEW p \in Deferred(k, db'[k]), Row(db', p) = Absent
               PROVE  FALSE
  BY DEF PresentLater
<1>4. Row(db', k) = db'[k]
  BY DEF Row
<1>5. CASE DOMAIN w.writes = {}
  <2>1. Row(db, k) = db'[k] /\ Row(db, p) = Absent
    BY <1>2, <1>3, <1>4, <1>5
  <2>2. k \in DOMAIN db /\ db[k] = db'[k]
    BY <1>2, <2>1 DEF Row
  <2>3. QED
    BY <2>1, <2>2 DEF PresentLater
<1>6. CASE DOMAIN w.writes # {}
  <2>1. Rows(t) = rows
    BY <1>1, <1>6, ReadsItsView DEF Fits
  <2>2. \A q : Row(rows, q) = Row(db', q)
    BY DEF Kept, ViewOf, Over, Row
  <2>3. p \notin NewReferences(t)
    BY <1>3, <2>1, <2>2 DEF Consistent
  <2>4. p \in Deferred(k, Row(db, k))
    <3>1. CASE k \in DOMAIN w.writes
      BY <1>2, <1>4, <2>3, <3>1 DEF NewReferences
    <3>2. CASE k \notin DOMAIN w.writes
      BY <1>2, <1>4, <3>2
    <3>3. QED
      BY <3>1, <3>2
  <2>5. Row(db, p) # Absent
    <3>1. k \in DOMAIN db /\ Row(db, k) = db[k]
      BY <2>4 DEF Row, Deferred
    <3>2. QED
      BY <2>4, <3>1 DEF PresentLater
  <2>6. p \in DOMAIN w.writes /\ w.writes[p] = Absent
    BY <1>2, <1>3, <2>5
  <2>7. rows[p] = Absent /\ k \in DOMAIN rows /\ rows[k] = db'[k]
    BY <1>2, <2>6 DEF ViewOf, Over
  <2>8. QED
    BY <1>3, <2>1, <2>6, <2>7 DEF Consistent
<1>7. QED
  BY <1>5, <1>6

-----------------------------------------------------------------------------

\* How far a table is from the users, along the references that cascade.
Level(table) ==
    CASE table = "users" -> 0
      [] table = "goals" -> 1
      [] table \in {"versions", "cycles", "drafts"} -> 2
      [] table \notin {"users", "goals", "versions", "cycles", "drafts"} -> 3

LEMMA CascadesDescend ==
  ASSUME NEW r \in References, r.rule = "cascade"
  PROVE  Level(r.to) < Level(r.from)
<1>1. CASE r \in SessionReferences
  BY <1>1 DEF SessionReferences, Reference, Level
<1>2. CASE r \in GoalReferences
  BY <1>2 DEF GoalReferences, Reference, Level
<1>3. CASE r \in CycleReferences
  BY <1>3 DEF CycleReferences, Reference, Level
<1>4. CASE r \in DraftReferences
  BY <1>4 DEF DraftReferences, Reference, Level
<1>5. CASE r \in AIReferences
  <2> DEFINE some == {Reference("generations", "user", "users", "cascade"),
                      Reference("generations", "draft", "drafts", "deferred"),
                      Reference("generations", "goal", "goals", "cascade"),
                      Reference("generations", "version", "versions", "cascade"),
                      Reference("generations", "cycle", "cycles", "deferred"),
                      Reference("usages", "user", "users", "cascade")}
  <2>1. r \in some \/ r = Reference("usages", "goal", "goals", "set null")
    BY <1>5, Zenon DEF AIReferences
  <2>2. r # Reference("usages", "goal", "goals", "set null")
    <3>1. Reference("usages", "goal", "goals", "set null").rule # "cascade"
      BY Zenon DEF Reference
    <3>2. QED
      BY <3>1, Zenon
  <2>3. r \in some
    BY <2>1, <2>2, Zenon
  <2> HIDE <2>1, <2>2
  <2>4. QED
    BY <2>3 DEF Reference, Level
<1>6. QED
  BY <1>1, <1>2, <1>3, <1>4, <1>5 DEF References

LEMMA ParentsAreAbove ==
  ASSUME NEW k, NEW row, NEW p \in Parents(k, row, {"cascade"})
  PROVE  Level(p[1]) < Level(k[1])
<1>1. PICK r \in References : r.from = k[1] /\ r.rule = "cascade" /\ p = <<r.to, row[r.field]>>
  BY DEF Parents
<1>2. QED
  BY <1>1, CascadesDescend

\* Four rounds find all rows that fall: the tables are at most three cascades
\* away from the users.
LEMMA FallingIsClosed ==
  ASSUME NEW rows, NEW keys
  PROVE  Children(rows, Falling(rows, keys)) = Falling(rows, keys)
<1> DEFINE one == Children(rows, keys)
           two == Children(rows, one)
           three == Children(rows, two)
           four == Children(rows, three)
<1>1. \A x : Level(x) \in 0..3
  BY DEF Level
<1>2. ASSUME NEW from, NEW k \in Children(rows, from), k \notin from
      PROVE  k \in DOMAIN rows /\ rows[k] # Absent /\ \E p \in from : p \in Parents(k, rows[k], {"cascade"})
  BY <1>2 DEF Children
<1>3. ASSUME NEW from, NEW k \in DOMAIN rows, rows[k] # Absent, NEW p \in from, p \in Parents(k, rows[k], {"cascade"})
      PROVE  k \in Children(rows, from)
  BY <1>3 DEF Children
<1>4. ASSUME NEW k \in one, k \notin keys PROVE Level(k[1]) > 0
  <2>1. PICK p \in keys : p \in Parents(k, rows[k], {"cascade"})
    BY <1>2, <1>4
  <2>2. QED
    BY <1>1, <2>1, ParentsAreAbove
<1>5. ASSUME NEW k \in two, k \notin one PROVE Level(k[1]) > 1
  <2>1. PICK p \in one : p \in Parents(k, rows[k], {"cascade"}) /\ k \in DOMAIN rows /\ rows[k] # Absent
    BY <1>2, <1>5
  <2>2. p \notin keys
    BY <1>3, <1>5, <2>1
  <2>3. QED
    BY <1>1, <1>4, <2>1, <2>2, ParentsAreAbove
<1>6. ASSUME NEW k \in three, k \notin two PROVE Level(k[1]) > 2
  <2>1. PICK p \in two : p \in Parents(k, rows[k], {"cascade"}) /\ k \in DOMAIN rows /\ rows[k] # Absent
    BY <1>2, <1>6
  <2>2. p \notin one
    BY <1>3, <1>6, <2>1
  <2>3. QED
    BY <1>1, <1>5, <2>1, <2>2, ParentsAreAbove
<1>7. four \subseteq three
  <2>1. SUFFICES ASSUME NEW k \in four, k \notin three PROVE FALSE
    OBVIOUS
  <2>2. PICK p \in three : p \in Parents(k, rows[k], {"cascade"}) /\ k \in DOMAIN rows /\ rows[k] # Absent
    BY <1>2, <2>1
  <2>3. p \notin two
    BY <1>3, <2>1, <2>2
  <2>4. QED
    BY <1>1, <1>6, <2>2, <2>3, ParentsAreAbove
<1>8. three \subseteq four
  BY DEF Children
<1>9. Falling(rows, keys) = four
  BY DEF Falling
<1> HIDE DEF one, two, three, four
<1>10. four = three
  BY <1>7, <1>8
<1>11. QED
  BY <1>9, <1>10 DEF four

-----------------------------------------------------------------------------

\* A row is a record, and the mark of a key without a row is not a function.
\* TLC, which gives Absent a model value, cannot enumerate all functions: this
\* is a hypothesis of the theorem below and not an ASSUME.
AbsentIsNoRow == \A S, T : Absent \notin [S -> T]

LEMMA RecordsAreRows ==
  ASSUME AbsentIsNoRow, NEW f, f = [c \in DOMAIN f |-> f[c]]
  PROVE  f # Absent
<1>1. f \in [DOMAIN f -> {f[c] : c \in DOMAIN f}]
  OBVIOUS
<1>2. Absent \notin [DOMAIN f -> {f[c] : c \in DOMAIN f}]
  BY Zenon DEF AbsentIsNoRow
<1>3. QED
  BY <1>1, <1>2

\* Only a delete removes rows.
LEMMA OthersRemoveNothing ==
  ASSUME AbsentIsNoRow, NEW t, NEW s, NEW w, s.do # "delete", NEW k \in DOMAIN Effect(t, s, w)
  PROVE  Effect(t, s, w)[k] # Absent
<1>1. \A row : Changed(s, w, row) # Absent
  <2>1. ASSUME NEW row PROVE Changed(s, w, row) = [c \in DOMAIN Changed(s, w, row) |-> Changed(s, w, row)[c]]
    BY DEF Changed
  <2>2. QED
    BY <2>1, RecordsAreRows
<1>2. NewRow(s, w) # Absent
  <2>1. NewRow(s, w) = [c \in DOMAIN NewRow(s, w) |-> NewRow(s, w)[c]]
    BY DEF NewRow
  <2>2. QED
    BY <2>1, RecordsAreRows
<1>3. CASE s.do = "update"
  BY <1>1, <1>3 DEF Effect, Updated
<1>4. CASE s.do = "insert"
  <2>1. Effect(t, s, w) = Inserted(t, s, w)
    BY <1>4 DEF Effect
  <2>2. QED
    BY <1>1, <1>2, <2>1, OverNothing DEF Inserted
<1>5. CASE s.do \notin {"update", "insert"}
  BY <1>5, OverNothing DEF Effect
<1>6. QED
  BY <1>3, <1>4, <1>5

\* Who refers to a row that a delete removes is removed, or refers no more.
LEMMA DeleteLeavesNoReference ==
  ASSUME AbsentIsNoRow, NEW rows, NEW keys, NEW k \in DOMAIN rows, NEW p \in Referred(k, rows[k]),
         p \in DOMAIN Deleted(rows, keys), Deleted(rows, keys)[p] = Absent
  PROVE  k \in DOMAIN Deleted(rows, keys)
<1> DEFINE gone == Falling(rows, keys)
<1>1. DOMAIN Deleted(rows, keys) = gone \cup Loosened(rows, gone)
  BY DEF Deleted
<1>2. p \in gone
  <2>1. SUFFICES ASSUME p \notin gone PROVE FALSE
    OBVIOUS
  <2>2. Deleted(rows, keys)[p] = [rows[p] EXCEPT !.goal = 0]
    BY <1>1, <2>1 DEF Deleted
  <2>3. [rows[p] EXCEPT !.goal = 0] = [c \in DOMAIN [rows[p] EXCEPT !.goal = 0] |-> [rows[p] EXCEPT !.goal = 0][c]]
    OBVIOUS
  <2>4. QED
    BY <2>2, <2>3, RecordsAreRows
<1>3. rows[k] # Absent /\ p \in Parents(k, rows[k], {"cascade", "set null"})
  BY DEF Referred
<1>4. p \in Parents(k, rows[k], {"cascade"}) \/ p \in Parents(k, rows[k], {"set null"})
  BY <1>3 DEF Parents
<1>5. CASE p \in Parents(k, rows[k], {"cascade"})
  <2>1. k \in Children(rows, gone)
    BY <1>2, <1>3, <1>5 DEF Children
  <2>2. QED
    BY <1>1, <2>1, FallingIsClosed
<1>6. CASE p \in Parents(k, rows[k], {"set null"})
  BY <1>1, <1>2, <1>3, <1>6 DEF Loosened
<1>7. QED
  BY <1>4, <1>5, <1>6

LEMMA SoundKeepsPresent ==
  ASSUME AbsentIsNoRow, NEW t, NEW s, NEW w, NEW effect, effect = Effect(t, s, w),
         Present(Rows(t)), Sound(t, s, effect, Over(effect, Rows(t)))
  PROVE  Present(Over(effect, Rows(t)))
<1> DEFINE rows == Rows(t)
           new == Over(effect, rows)
<1>1. SUFFICES ASSUME NEW k \in DOMAIN new, NEW p \in Referred(k, new[k]), Row(new, p) = Absent
               PROVE  FALSE
  BY DEF Present
<1>2. k \notin DOMAIN effect
  BY <1>1 DEF Sound, Over
<1>3. k \in DOMAIN rows /\ new[k] = rows[k]
  BY <1>2 DEF Over
<1>4. Row(rows, p) # Absent
  BY <1>1, <1>3 DEF Present
<1>5. p \in DOMAIN effect /\ effect[p] = Absent
  BY <1>1, <1>4 DEF Row, Over
<1>6. s.do = "delete"
  BY <1>5, OthersRemoveNothing
<1>7. effect = Deleted(rows, w.hit)
  BY <1>6 DEF Effect
<1>8. QED
  BY <1>1, <1>2, <1>3, <1>5, <1>7, DeleteLeavesNoReference

-----------------------------------------------------------------------------

\* What a transaction has written refers to what it sees.
TargetsFit == Present(db) /\ \A t \in Tx : Present(ViewOf(db, work[t]))

\* The same rows seen in another way.
LEMMA PresentAlike ==
  ASSUME NEW a, NEW b, Present(a), DOMAIN b = DOMAIN a, \A k \in DOMAIN a : b[k] = a[k]
  PROVE  Present(b)
BY DEF Present, Row

LEMMA NothingPresent ==
  ASSUME NEW rows, NEW w, Present(rows), DOMAIN w.writes = {}
  PROVE  Present(ViewOf(rows, w))
<1>1. DOMAIN ViewOf(rows, w) = DOMAIN rows /\ \A k \in DOMAIN rows : ViewOf(rows, w)[k] = rows[k]
  BY DEF ViewOf, Over
<1>2. QED
  BY <1>1, PresentAlike

LEMMA WrotePresent ==
  ASSUME AbsentIsNoRow, NEW t, NEW s, NEW v, NEW locks, NEW w,
         Present(db), Present(ViewOf(db, work[t])), Wrote(t, s, v, locks, w)
  PROVE  Present(ViewOf(db, w))
<1> DEFINE effect == Effect(t, s, v)
<1>1. w.writes = Over(effect, work[t].writes)
  BY DEF Wrote
<1>2. CASE ReadOnly(t, s)
  <2>1. effect = NoRows /\ work[t].writes = NoRows
    BY <1>2 DEF Wrote, Sound
  <2>2. DOMAIN w.writes = {}
    BY <1>1, <2>1, OverNothing
  <2>3. QED
    BY <2>2, NothingPresent
<1>3. CASE ~ReadOnly(t, s)
  <2>1. Rows(t) = ViewOf(db, work[t])
    BY <1>3, ReadsItsView DEF ReadOnly
  <2>2. ViewOf(db, w) = Over(effect, ViewOf(db, work[t]))
    BY <1>1, OverOver DEF ViewOf
  <2>3. Sound(t, s, effect, Over(effect, Rows(t)))
    BY DEF Wrote
  <2>4. QED
    BY <2>1, <2>2, <2>3, SoundKeepsPresent
<1>4. QED
  BY <1>2, <1>3

LEMMA MoveKeepsTargets ==
  ASSUME AbsentIsNoRow, TargetsFit, db' = db, NEW t \in Tx, NEW locks, NEW w,
         Becomes(t, locks, w), Moves(t, locks, w)
  PROVE  TargetsFit'
<1>1. Present(ViewOf(db, w))
  <2>1. CASE Nothing(w)
    BY <2>1, OverNothing, NothingPresent DEF Nothing, TargetsFit
  <2>2. CASE Same(work[t], w)
    <3>1. DOMAIN ViewOf(db, w) = DOMAIN ViewOf(db, work[t])
      BY <2>2 DEF ViewOf, Over, Same
    <3>2. \A k \in DOMAIN ViewOf(db, work[t]) : ViewOf(db, w)[k] = ViewOf(db, work[t])[k]
      BY <2>2 DEF ViewOf, Over, Same
    <3>3. QED
      BY <3>1, <3>2, PresentAlike DEF TargetsFit
  <2>3. CASE \E s, v : Wrote(t, s, v, locks, w)
    BY <2>3, WrotePresent DEF TargetsFit
  <2>4. QED
    BY <2>1, <2>2, <2>3 DEF Moves
<1>2. ASSUME NEW u \in Tx PROVE Present(ViewOf(db', work'[u]))
  BY <1>1 DEF Becomes, TargetsFit
<1>3. QED
  BY <1>2 DEF TargetsFit

LEMMA CommitKeepsPresent ==
  ASSUME NEW t \in Tx, Present(ViewOf(db, work[t])), db' = Kept(ViewOf(db, work[t]))
  PROVE  Present(db')
<1>1. \A p : Row(ViewOf(db, work[t]), p) # Absent => Row(db', p) # Absent
  BY DEF Kept, Row
<1>2. \A k \in DOMAIN db' : k \in DOMAIN ViewOf(db, work[t]) /\ db'[k] = ViewOf(db, work[t])[k]
  BY CommitStores
<1>3. QED
  BY <1>1, <1>2 DEF Present

\* What u sees and has written loses no row referred to when t commits: who
\* refers anew has locked the row, and so has who removes it.
LEMMA CommitKeepsTargets ==
  ASSUME IInv, DataFits, TargetsFit, NEW t \in Tx, NEW u \in Tx, u # t, db' = Kept(ViewOf(db, work[t]))
  PROVE  Present(ViewOf(db', work[u]))
<1> DEFINE old == ViewOf(db, work[u])
           new == ViewOf(db', work[u])
           mine == work[u].writes
           theirs == work[t].writes
<1>1. /\ Secured(db, mine, held[u]) /\ Secured(db, theirs, held[t])
      /\ Present(old) /\ Present(db')
  BY CommitKeepsPresent DEF DataFits, Fits, TargetsFit
<1>2. /\ \A k \in DOMAIN theirs : Row(db', k) = theirs[k] /\ k \notin DOMAIN mine
      /\ \A k : k \notin DOMAIN theirs => Row(db', k) = Row(db, k)
  BY CommitStores, WritersApart
<1>3. /\ \A k \in DOMAIN mine : Row(old, k) = mine[k] /\ Row(new, k) = mine[k]
      /\ \A k : k \notin DOMAIN mine => Row(old, k) = Row(db, k) /\ Row(new, k) = Row(db', k)
  BY DEF ViewOf, Over, Row
<1>4. SUFFICES ASSUME NEW k \in DOMAIN new, NEW p \in Referred(k, new[k]), Row(new, p) = Absent
               PROVE  FALSE
  BY DEF Present
<1>5. Row(new, k) = new[k]
  BY DEF Row
<1>6. \A rows : Present(rows) => (\A j, q : q \in Referred(j, Row(rows, j)) => Row(rows, q) # Absent)
  BY NoEntries DEF Present, Row
<1>7. /\ \A j \in DOMAIN mine : mine[j] = Absent => Covers(held[u], j, "update")
      /\ \A j \in DOMAIN mine : \A q \in Referred(j, mine[j]) \ Referred(j, Row(db, j)) : Covers(held[u], q, "keyshare")
  BY <1>1 DEF Secured
<1>8. /\ \A j \in DOMAIN theirs : theirs[j] = Absent => Covers(held[t], j, "update")
      /\ \A j \in DOMAIN theirs : \A q \in Referred(j, theirs[j]) \ Referred(j, Row(db, j)) : Covers(held[t], q, "keyshare")
  BY <1>1 DEF Secured
<1>9. /\ \A q : ~(Covers(held[t], q, "keyshare") /\ Covers(held[u], q, "update"))
      /\ \A q : ~(Covers(held[u], q, "keyshare") /\ Covers(held[t], q, "update"))
  BY WritersApart
<1> HIDE DEF old, new, mine, theirs
<1>10. CASE k \in DOMAIN mine
  <2>1. p \in Referred(k, mine[k]) /\ Row(old, p) # Absent
    BY <1>1, <1>3, <1>4, <1>5, <1>6, <1>10
  <2>2. p \notin DOMAIN mine
    BY <1>3, <1>4, <2>1
  <2>3. Row(db, p) # Absent /\ Row(db', p) = Absent
    BY <1>3, <1>4, <2>1, <2>2
  <2>4. p \in DOMAIN theirs /\ theirs[p] = Absent
    BY <1>2, <2>3
  <2>5. p \notin Referred(k, Row(db, k))
    <3>1. Row(db, k) = Row(db', k)
      BY <1>2, <1>10
    <3>2. QED
      BY <1>1, <1>6, <2>3, <3>1
  <2>6. QED
    BY <1>7, <1>8, <1>9, <1>10, <2>1, <2>4, <2>5
<1>11. CASE k \notin DOMAIN mine
  <2>1. p \in Referred(k, Row(db', k)) /\ Row(db', p) # Absent
    BY <1>1, <1>3, <1>4, <1>5, <1>6, <1>11
  <2>2. p \in DOMAIN mine /\ mine[p] = Absent
    BY <1>3, <1>4, <2>1
  <2>3. p \notin Referred(k, Row(db, k))
    <3>1. Row(old, k) = Row(db, k) /\ Row(old, p) = Absent
      BY <1>3, <1>11, <2>2
    <3>2. QED
      BY <1>1, <1>6, <3>1
  <2>4. k \in DOMAIN theirs /\ Row(db', k) = theirs[k]
    BY <1>2, <2>1, <2>3
  <2>5. QED
    BY <1>7, <1>8, <1>9, <2>1, <2>2, <2>3, <2>4
<1>12. QED
  BY <1>10, <1>11

LEMMA CommitTargets ==
  ASSUME IInv, DataFits, TargetsFit, PresentLater(db), NEW t \in Tx, Commit(t)
  PROVE  TargetsFit' /\ PresentLater(db')
<1>1. DOMAIN held = Tx /\ DOMAIN work = Tx
  BY DEF IInv, LocksShaped, WorkShaped
<1>2. PICK out \in {"done", "error"} :
         /\ held' = [held EXCEPT ![t] = NoLocks] /\ work' = [work EXCEPT ![t] = Ended(t, out)]
         /\ db' = db \/ (Consistent(t) /\ db' = Kept(ViewOf(db, work[t])))
  <2>1. CASE work' = [work EXCEPT ![t] = Ended(t, "done")] /\ Consistent(t)
    BY <2>1 DEF Commit, ViewOf
  <2>2. CASE work' = [work EXCEPT ![t] = Ended(t, "error")] /\ db' = db
    BY <2>2 DEF Commit
  <2>3. QED
    BY <2>1, <2>2 DEF Commit
<1>3. DOMAIN Ended(t, out).writes = {}
  BY DEF Ended, Fresh, NoRows
<1>4. work'[t] = Ended(t, out) /\ \A u \in Tx \ {t} : work'[u] = work[u]
  BY <1>1, <1>2
<1>5. PresentLater(db')
  BY <1>2, CommitKeepsLater
<1>6. Present(db')
  BY <1>2, CommitKeepsPresent DEF TargetsFit
<1>7. ASSUME NEW u \in Tx PROVE Present(ViewOf(db', work'[u]))
  <2>1. CASE u = t
    BY <1>3, <1>4, <1>6, <2>1, NothingPresent
  <2>2. CASE u # t
    BY <1>2, <1>4, <2>2, CommitKeepsTargets DEF TargetsFit
  <2>3. QED
    BY <2>1, <2>2
<1>8. QED
  BY <1>5, <1>6, <1>7 DEF TargetsFit

LEMMA TargetsInit == Init => TargetsFit /\ PresentLater(db)
<1> SUFFICES ASSUME Init PROVE TargetsFit /\ PresentLater(db)
  OBVIOUS
<1>1. PICK start \in Starts : db = start.db /\ work = [t \in Tx |-> Begun(start.asked[t])]
  BY DEF Init
<1>2. \A name : DOMAIN Begun(name).writes = {}
  BY DEF Begun, Fresh, NoRows
<1>3. Present(db) /\ PresentLater(db)
  BY <1>1, StartsAssumption, WholeIsPresent
<1>4. QED
  BY <1>1, <1>2, <1>3, NothingPresent DEF TargetsFit

LEMMA TargetsNext ==
  ASSUME AbsentIsNoRow, IInv, DataFits, TargetsFit, PresentLater(db), [Next]_vars
  PROVE  TargetsFit' /\ PresentLater(db')
<1>1. CASE \E t \in Tx : Execute(t)
  BY <1>1, ExecuteStep, ExecuteMoves, MoveKeepsTargets
<1>2. CASE \E t \in Tx : Commit(t)
  BY <1>2, CommitTargets
<1>3. CASE UNCHANGED vars
  BY <1>3 DEF vars, TargetsFit
<1>4. QED
  BY <1>1, <1>2, <1>3 DEF Next, Terminated

\* Every committed row passes the checks of its table, and no two of them own
\* one entry of a unique index, whatever the programs write and however their
\* statements interleave: an entry that comes or goes with an uncommitted row
\* is locked, and a waiting insert looks again when it has the lock.
THEOREM ConstraintsHold == Spec => [](Checked(db) /\ Distinct(db))
<1>1. Spec => []IInv
  BY InvInit, InvNext, PTL DEF Spec
<1>2. Init => DataFits
  BY FitsInit
<1>3. IInv /\ DataFits /\ [Next]_vars => DataFits'
  BY FitsNext
<1>4. DataFits => Checked(db) /\ Distinct(db)
  BY DEF DataFits
<1>5. QED
  BY <1>1, <1>2, <1>3, <1>4, PTL DEF Spec

\* No committed row refers to a row that is not there: not by a reference that
\* cascades (four rounds reach all that falls), not by one that is set to NULL,
\* and not by one that only the commit checks.
THEOREM ReferencesHold ==
  ASSUME AbsentIsNoRow
  PROVE  Spec => []Whole(db)
<1>1. Spec => []IInv
  BY InvInit, InvNext, PTL DEF Spec
<1>2. Init => DataFits /\ TargetsFit /\ PresentLater(db)
  BY FitsInit, TargetsInit
<1>3. IInv /\ DataFits /\ TargetsFit /\ PresentLater(db) /\ [Next]_vars
        => (DataFits /\ TargetsFit /\ PresentLater(db))'
  BY FitsNext, TargetsNext
<1>4. DataFits /\ TargetsFit /\ PresentLater(db) => Whole(db)
  BY WholeIsPresent DEF DataFits, TargetsFit
<1>5. QED
  BY <1>1, <1>2, <1>3, <1>4, PTL DEF Spec

=============================================================================
