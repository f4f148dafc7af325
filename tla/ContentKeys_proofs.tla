-------------------------- MODULE ContentKeys_proofs --------------------------
(***************************************************************************)
(* That the encrypted texts of a user can be opened and stay what the user *)
(* stored, whatever the servers, the operator and a deletion do at the     *)
(* same time: for any servers, rows, fields and bounds.                    *)
(***************************************************************************)
EXTENDS ContentKeys, FiniteSetTheorems, TLAPS

Kinds == {"none", "insert", "save", "signal", "finish", "delete", "backfill", "rotate", "mode"}
Places == {"idle", "lock", "seal", "keyless", "keywait", "nonce", "commit", "rows", "rotate", "modewait"}
CipherSet == [text : Texts, key : Keys, ver : Versions, nonce : Actors \X Nat]
JobSet == [kind : Kinds, pc : Places, row : Rows \cup {None}, enc : BOOLEAN, target : SUBSET Fields,
           plain : UNION {[D -> Texts] : D \in SUBSET Fields},
           cells : UNION {[D -> CipherSet] : D \in SUBSET Fields},
           ver : 0..MaxVersion, key : Keys \cup {None}, tries : 0..Attempts, snap : BOOLEAN]

Shapes ==
    /\ TypeOK
    /\ job \in [Actors -> JobSet]
    /\ said \in [Rows -> [Fields -> Texts \cup {None}]]
    /\ \A v \in Versions : IsFiniteSet(nonces[v])

\* The keys are stored in the order of their versions, each under its own,
\* and what a process has in memory is what is stored.
KeysFit ==
    /\ writeKey # 0 => deks[writeKey] # None
    /\ \A v \in Versions : /\ v > writeKey => deks[v] = None
                           /\ deks[v] # None => deks[v][2] = v
    /\ present => \A a \in Actors, v \in Versions : cache[a][v] \in {None, deks[v]}
    /\ ~present => writeKey = 0

RowsFit ==
    /\ ~present => \A r \in Rows : rows[r] = None
    /\ \A r \in Rows : rows[r] = None => \A f \in Fields : said[r][f] = None
    /\ mode = "legacy" => \A r \in Rows : rows[r] # None => rows[r].format = "legacy"
    /\ mode = "strict" => Legacy = {}
    /\ \A r \in dropped : rows[r] # None /\ rows[r].format = "encrypted"

\* A request past its first lock.
Past(a) == job[a].pc \in {"seal", "keyless", "keywait", "nonce", "commit"}

\* Who may be where, and what it may rely on there.
InsertFits(a) ==
    job[a].kind = "insert" /\ Past(a) =>
       /\ userLock = a /\ present /\ job[a].row \in Rows /\ rows[job[a].row] = None
       /\ job[a].target = DOMAIN job[a].plain /\ job[a].target # {}

SaveFits(a) ==
    job[a].kind = "save" /\ Past(a) =>
       /\ job[a].row \in Rows /\ rows[job[a].row] # None /\ rowLock[job[a].row] = a
       /\ job[a].target \subseteq DOMAIN job[a].plain /\ job[a].target # {}
       /\ \A f \in DOMAIN job[a].plain \ job[a].target : job[a].plain[f] = said[job[a].row][f]

\* The row of the signal may still be encrypted by the backfill, or be gone.
SignalFits(a) ==
    job[a].kind = "signal" /\ Past(a) =>
       /\ present /\ rowLock[job[a].row] = a
       /\ job[a].target = {Source} /\ DOMAIN job[a].plain \subseteq {Source}
       /\ job[a].pc = "commit" => DOMAIN job[a].plain = {Source}

FinishFits(a) ==
    job[a].kind = "finish" /\ Past(a) =>
       /\ job[a].row \in Rows /\ rows[job[a].row] # None /\ rowLock[job[a].row] = a
       /\ job[a].target = DOMAIN job[a].plain

BackfillFits(a) ==
    job[a].kind = "backfill" =>
       /\ job[a].pc \in {"seal", "keyless", "keywait", "nonce"}
       /\ job[a].enc /\ mode # "legacy" /\ job[a].row \in Rows
       /\ job[a].row \in Legacy =>
             /\ DOMAIN job[a].plain = Populated(rows[job[a].row])
             /\ \A f \in DOMAIN job[a].plain : job[a].plain[f] = said[job[a].row][f]

JobFits(a) ==
    /\ job[a].kind = "none" => job[a].pc = "idle"
    /\ job[a].kind \in {"backfill", "rotate", "mode"} <=> a = Operator /\ job[a].kind # "none"
    /\ job[a].kind \in {"insert", "save", "signal", "finish"} =>
          /\ job[a].row \in Rows /\ (job[a].pc = "lock" \/ Past(a))
          /\ job[a].kind = "signal" <=> job[a].row \in Signals
    /\ job[a].pc = "lock" => job[a].cells = Nothing /\ a \in Servers
    /\ job[a].kind = "delete" => job[a].pc = "lock" \/ (job[a].pc = "rows" /\ userLock = a)
    /\ job[a].kind = "rotate" => job[a].pc = "rotate" /\ job[a].ver \in Versions
    /\ job[a].kind = "mode" =>
          job[a].pc = "modewait" /\ (job[a].snap /\ mode = "encrypting" => Legacy = {})
    /\ mode = "legacy" => ~job[a].enc
    /\ Past(a) /\ ~job[a].enc => job[a].pc \in {"seal", "commit"} /\ job[a].cells = Nothing
    /\ job[a].pc = "nonce" => /\ job[a].ver \in Versions /\ Unsealed(job[a]) # {}
                              /\ present => job[a].key = deks[job[a].ver] /\ job[a].key # None
    /\ job[a].pc \in {"keyless", "keywait"} => Unsealed(job[a]) # {}
    /\ job[a].pc = "commit" =>
          /\ job[a].kind \in {"insert", "save", "signal", "finish"} /\ a \in control /\ Accepted(job[a])
          /\ job[a].enc => Unsealed(job[a]) = {}
    /\ \A f \in DOMAIN job[a].cells : job[a].cells[f].text = job[a].plain[f]
    /\ InsertFits(a) /\ SaveFits(a) /\ SignalFits(a) /\ FinishFits(a) /\ BackfillFits(a)

\* The ciphertexts there are, in the rows and in the requests under way.
RowCipher(c) ==
    \E r \in Rows, f \in Fields :
       rows[r] # None /\ rows[r].cells[f] # None /\ rows[r].cells[f].key # None /\ c = rows[r].cells[f]
JobCipher(c) == \E a \in Actors, f \in Fields : f \in DOMAIN job[a].cells /\ c = job[a].cells[f]
Cipher(c) == RowCipher(c) \/ JobCipher(c)

CiphersFit ==
    /\ \A c, d : Cipher(c) /\ Cipher(d) /\ c.key = d.key /\ c.nonce = d.nonce => c = d
    /\ present => \A c : Cipher(c) => c \in CipherSet /\ c.key = deks[c.ver] /\ c.nonce \in nonces[c.ver]

IInv ==
    /\ Shapes /\ KeysFit /\ RowsFit /\ TextsKept /\ CiphersFit
    /\ \A a \in Actors : JobFits(a)

-----------------------------------------------------------------------------
(***************************************************************************)
(* Shapes                                                                  *)
(***************************************************************************)

LEMMA IdleIsJob ==
  /\ Idle \in JobSet /\ DOMAIN Nothing = {}
  /\ Idle.kind = "none" /\ Idle.pc = "idle" /\ Idle.row = None /\ ~Idle.enc /\ ~Idle.snap
  /\ Idle.cells = Nothing /\ Idle.plain = Nothing /\ Idle.target = {}
<1>1. DOMAIN Nothing = {} /\ \A S : Nothing \in [{} -> S]
  BY DEF Nothing
<1>2. /\ Nothing \in UNION {[D -> Texts] : D \in SUBSET Fields}
      /\ Nothing \in UNION {[D -> CipherSet] : D \in SUBSET Fields}
  BY <1>1
<1>3. {} \in SUBSET Fields /\ 0 \in 0..MaxVersion /\ 0 \in 0..Attempts
  BY ContentAssumption
<1>4. Idle \in JobSet
  BY <1>2, <1>3 DEF Idle, JobSet, Kinds, Places
<1>5. QED
  BY <1>1, <1>4 DEF Idle

LEMMA NoneDiffers ==
  /\ None \notin Texts /\ None \notin Actors /\ None \notin Keys /\ None \notin Rows
  /\ None \notin CellSet /\ None \notin RowSet /\ Servers \subseteq Actors /\ Servers \subseteq Texts
  /\ Operator \in Actors /\ Operator \notin Servers /\ Actors = Servers \cup {Operator}
BY ContentAssumption DEF Actors, Texts

LEMMA PlainIsCell ==
  ASSUME NEW t \in Texts
  PROVE  /\ Plain(t) \in CellSet /\ Plain(t) # None /\ Plain(t).key = None /\ Plain(t).text = t
<1>1. 0 \in 0..MaxVersion
  BY ContentAssumption
<1>2. Plain(t) \in CellSet
  BY <1>1 DEF Plain, CellSet
<1>3. QED
  BY <1>2, NoneDiffers DEF Plain

LEMMA InitIsIInv == Init => IInv
<1> SUFFICES ASSUME Init PROVE IInv
  OBVIOUS
<1> DEFINE T(init, r, f) == IF r \in init /\ (r \in Contents \/ f = Source) THEN Old ELSE None
           row(init, r) == [format |-> "legacy", running |-> FALSE,
                            cells |-> [f \in Fields |->
                               IF T(init, r, f) = None THEN None ELSE Plain(T(init, r, f))]]
<1>1. PICK init \in SUBSET InitialRows :
         /\ said = [r \in Rows |-> [f \in Fields |-> T(init, r, f)]]
         /\ rows = [r \in Rows |-> IF r \notin init THEN None ELSE row(init, r)]
  BY DEF Init
<1>2. \A r \in Rows, f \in Fields : T(init, r, f) = None \/ T(init, r, f) \in Texts
  BY DEF Texts
<1>3. \A r \in Rows, f \in Fields : r \notin init => T(init, r, f) = None
  OBVIOUS
<1> HIDE DEF T
<1>4. ASSUME NEW r \in Rows
      PROVE  /\ row(init, r) \in RowSet /\ row(init, r) # None /\ row(init, r).format = "legacy"
             /\ \A f \in Fields : row(init, r).cells[f] # None =>
                   row(init, r).cells[f].key = None
             /\ \A f \in Fields : Text(row(init, r).cells[f]) = T(init, r, f)
  <2>1. \A f \in Fields : T(init, r, f) # None =>
           /\ Plain(T(init, r, f)) \in CellSet /\ Plain(T(init, r, f)) # None
           /\ Plain(T(init, r, f)).key = None /\ Plain(T(init, r, f)).text = T(init, r, f)
    BY <1>2, PlainIsCell
  <2>2. row(init, r) \in RowSet
    BY <2>1 DEF RowSet
  <2>3. QED
    BY <2>1, <2>2, NoneDiffers DEF Text
<1> HIDE DEF row
<1>5. \A r \in Rows : rows[r] = None \/ (rows[r] = row(init, r) /\ r \in init)
  BY <1>1
<1>6. /\ mode = "legacy" /\ present = TRUE /\ deks = [v \in Versions |-> None] /\ writeKey = 0 /\ dropped = {}
      /\ nonces = [v \in Versions |-> {}] /\ job = [a \in Actors |-> Idle]
      /\ userLock = None /\ rowLock = [r \in Rows |-> None] /\ control = {}
      /\ cache = [a \in Actors |-> [v \in Versions |-> None]]
  BY DEF Init
<1>7. \A a \in Actors : job[a] = Idle
  BY <1>6
<1>8. TypeOK
  <2>1. rows \in [Rows -> RowSet \cup {None}]
    BY <1>1, <1>4
  <2>2. \A r \in Rows : rows[r] # None =>
          \A f \in Populated(rows[r]) : (rows[r].cells[f].key # None) = (rows[r].format = "encrypted")
    BY <1>4, <1>5 DEF Populated
  <2>3. ASSUME NEW a \in Actors
        PROVE  /\ job[a].row \in Rows \cup {None} /\ job[a].ver \in 0..MaxVersion
               /\ job[a].key \in Keys \cup {None} /\ job[a].tries \in 0..Attempts
               /\ DOMAIN job[a].cells \subseteq DOMAIN job[a].plain
               /\ DOMAIN job[a].plain \subseteq Fields
    BY <1>7, IdleIsJob, ContentAssumption DEF Idle
  <2>4. QED
    BY <1>6, <2>1, <2>2, <2>3, ContentAssumption DEF TypeOK
<1>9. Shapes
  <2>1. said \in [Rows -> [Fields -> Texts \cup {None}]]
    BY <1>1, <1>2
  <2>2. job \in [Actors -> JobSet]
    BY <1>6, IdleIsJob
  <2>3. \A v \in Versions : IsFiniteSet(nonces[v])
    BY <1>6, FS_EmptySet
  <2>4. QED
    BY <1>8, <2>1, <2>2, <2>3 DEF Shapes
<1>10. KeysFit
  BY <1>6 DEF KeysFit
<1>11. RowsFit
  BY <1>1, <1>3, <1>4, <1>5, <1>6 DEF RowsFit
<1>12. TextsKept
  BY <1>1, <1>4, <1>5 DEF TextsKept, Kept
<1>13. \A c : ~Cipher(c)
  <2>1. \A c : ~RowCipher(c)
    BY <1>4, <1>5 DEF RowCipher
  <2>2. \A c : ~JobCipher(c)
    BY <1>7, IdleIsJob DEF JobCipher
  <2>3. QED
    BY <2>1, <2>2 DEF Cipher
<1>14. CiphersFit
  BY <1>13 DEF CiphersFit
<1>15. ASSUME NEW a \in Actors PROVE JobFits(a)
  BY <1>7, IdleIsJob
     DEF JobFits, InsertFits, SaveFits, SignalFits, FinishFits, BackfillFits, Past
<1>16. QED
  BY <1>9, <1>10, <1>11, <1>12, <1>14, <1>15 DEF IInv

-----------------------------------------------------------------------------
(***************************************************************************)
(* Steps of one process                                                    *)
(***************************************************************************)

\* What a process relies on is still there.
Undisturbed(b) ==
    /\ job'[b] = job[b] /\ mode' = mode /\ rows' = rows /\ said' = said /\ present' = present
    /\ userLock = b => userLock' = b
    /\ \A r \in Rows : rowLock[r] = b => rowLock'[r] = b
    /\ b \in control => b \in control'
    /\ present => \A v \in Versions : deks[v] # None => deks'[v] = deks[v]

LEMMA UndisturbedFits ==
  ASSUME NEW b \in Actors, JobFits(b), Undisturbed(b)
  PROVE  JobFits(b)'
<1>1. /\ job[b].kind = "none" => job[b].pc = "idle"
      /\ job[b].kind \in {"backfill", "rotate", "mode"} <=> b = Operator /\ job[b].kind # "none"
      /\ job[b].kind \in {"insert", "save", "signal", "finish"} =>
            /\ job[b].row \in Rows /\ (job[b].pc = "lock" \/ Past(b))
            /\ job[b].kind = "signal" <=> job[b].row \in Signals
      /\ job[b].pc = "lock" => job[b].cells = Nothing /\ b \in Servers
      /\ job[b].kind = "delete" => job[b].pc = "lock" \/ (job[b].pc = "rows" /\ userLock = b)
      /\ job[b].kind = "rotate" => job[b].pc = "rotate" /\ job[b].ver \in Versions
      /\ job[b].kind = "mode" =>
            job[b].pc = "modewait" /\ (job[b].snap /\ mode = "encrypting" => Legacy = {})
      /\ mode = "legacy" => ~job[b].enc
      /\ Past(b) /\ ~job[b].enc => job[b].pc \in {"seal", "commit"} /\ job[b].cells = Nothing
  BY DEF JobFits
<1>2. job[b].pc = "nonce" => /\ job[b].ver \in Versions /\ Unsealed(job[b]) # {}
                             /\ present' => job[b].key = deks'[job[b].ver] /\ job[b].key # None
  BY DEF JobFits, Undisturbed
<1>3. /\ job[b].pc \in {"keyless", "keywait"} => Unsealed(job[b]) # {}
      /\ \A f \in DOMAIN job[b].cells : job[b].cells[f].text = job[b].plain[f]
  BY DEF JobFits
<1>4. job[b].pc = "commit" =>
          /\ job[b].kind \in {"insert", "save", "signal", "finish"} /\ b \in control' /\ Accepted(job[b])
          /\ job[b].enc => Unsealed(job[b]) = {}
  BY DEF JobFits, Undisturbed
<1>5. InsertFits(b)' /\ SaveFits(b)' /\ SignalFits(b)' /\ FinishFits(b)' /\ BackfillFits(b)'
  BY DEF JobFits, Undisturbed, InsertFits, SaveFits, SignalFits, FinishFits, BackfillFits, Past, Legacy, Populated
<1>6. Accepted(job[b])' <=> Accepted(job[b])
  BY DEF Undisturbed, Accepted, Populated
<1>7. Past(b)' <=> Past(b)
  BY DEF Past, Undisturbed
<1>8. Legacy' = Legacy /\ Unsealed(job[b])' = Unsealed(job[b])
  BY DEF Legacy, Undisturbed, Unsealed
<1>9. QED
  BY <1>1, <1>2, <1>3, <1>4, <1>5, <1>6, <1>7, <1>8 DEF JobFits, Undisturbed

\* Ciphertexts only come from where there were some, under the keys there were.
LEMMA CiphersStayFit ==
  ASSUME CiphersFit, \A c : Cipher(c)' => Cipher(c),
         present' => /\ present
                     /\ \A v \in Versions : /\ deks[v] # None => deks'[v] = deks[v]
                                            /\ nonces[v] \subseteq nonces'[v]
  PROVE  CiphersFit'
<1>1. \A c, d : Cipher(c)' /\ Cipher(d)' /\ c.key = d.key /\ c.nonce = d.nonce => c = d
  BY DEF CiphersFit
<1>2. ASSUME present', NEW c, Cipher(c)'
      PROVE  c \in CipherSet /\ c.key = deks'[c.ver] /\ c.nonce \in nonces'[c.ver]
  <2>1. present /\ c \in CipherSet /\ c.key = deks[c.ver] /\ c.nonce \in nonces[c.ver]
    BY <1>2 DEF CiphersFit
  <2>2. c.ver \in Versions /\ c.key \in Keys
    BY <2>1 DEF CipherSet
  <2>3. QED
    BY <1>2, <2>1, <2>2, NoneDiffers
<1>3. QED
  BY <1>1, <1>2 DEF CiphersFit

\* Rows and keys are left alone; a's job changes, to one that fits.
LEMMA JobMoves ==
  ASSUME IInv, NEW a \in Actors, NEW j \in JobSet, job' = [job EXCEPT ![a] = j],
         j.cells = job[a].cells \/ j.cells = Nothing, DOMAIN j.cells \subseteq DOMAIN j.plain,
         JobFits(a)',
         UNCHANGED <<mode, present, keyring, rows, cache, said, dropped>>,
         userLock' \in Servers \cup {None}, rowLock' \in [Rows -> Servers \cup {None}],
         control' \subseteq Servers,
         \A b \in Actors \ {a} :
            /\ userLock = b => userLock' = b
            /\ \A r \in Rows : rowLock[r] = b => rowLock'[r] = b
            /\ b \in control => b \in control'
  PROVE  IInv'
<1>1. /\ job'[a] = j /\ \A b \in Actors \ {a} : job'[b] = job[b]
      /\ UNCHANGED <<deks, writeKey, nonces>>
  BY DEF IInv, Shapes, keyring
<1>2. TypeOK'
  <2>1. \A b \in Actors :
          /\ job'[b].row \in Rows \cup {None} /\ job'[b].ver \in 0..MaxVersion
          /\ job'[b].key \in Keys \cup {None} /\ job'[b].tries \in 0..Attempts
          /\ DOMAIN job'[b].cells \subseteq DOMAIN job'[b].plain
          /\ DOMAIN job'[b].plain \subseteq Fields
    BY <1>1 DEF IInv, Shapes, TypeOK, JobSet
  <2>2. QED
    BY <1>1, <2>1 DEF IInv, Shapes, TypeOK
<1>3. Shapes'
  BY <1>1, <1>2 DEF IInv, Shapes
<1>4. KeysFit' /\ RowsFit' /\ TextsKept'
  BY <1>1 DEF IInv, KeysFit, RowsFit, TextsKept, Kept, Legacy
<1>5. CiphersFit'
  <2>1. \A c : Cipher(c)' => Cipher(c)
    BY <1>1, IdleIsJob DEF Cipher, RowCipher, JobCipher
  <2>2. QED
    BY <1>1, <2>1, CiphersStayFit DEF IInv
<1>6. ASSUME NEW b \in Actors PROVE JobFits(b)'
  <2>1. CASE b = a
    BY <2>1
  <2>2. CASE b # a
    BY <1>1, <2>2, UndisturbedFits DEF IInv, Undisturbed
  <2>3. QED
    BY <2>1, <2>2
<1>7. QED
  BY <1>3, <1>4, <1>5, <1>6 DEF IInv

LEMMA IdleFits ==
  ASSUME NEW a \in Actors, job'[a] = Idle
  PROVE  JobFits(a)'
BY IdleIsJob DEF JobFits, InsertFits, SaveFits, SignalFits, FinishFits, BackfillFits, Past

\* What a process leaves behind that gives up, whatever it was doing.
LEMMA AbortKeeps ==
  ASSUME IInv, NEW a \in Actors, Abort(a), UNCHANGED <<mode, present, keyring, rows, cache, said, dropped>>
  PROVE  IInv'
<1>1. TypeOK /\ job \in [Actors -> JobSet]
  BY DEF IInv, Shapes
<1>2. job' = [job EXCEPT ![a] = Idle] /\ job'[a] = Idle
  BY <1>1 DEF Abort
<1>3. /\ userLock' \in Servers \cup {None} /\ rowLock' \in [Rows -> Servers \cup {None}]
      /\ control' \subseteq Servers
  BY <1>1 DEF Abort, Release, TypeOK
<1>4. \A b \in Actors \ {a} :
         /\ userLock = b => userLock' = b
         /\ \A r \in Rows : rowLock[r] = b => rowLock'[r] = b
         /\ b \in control => b \in control'
  BY DEF Abort, Release
<1>5. JobFits(a)'
  BY <1>2, IdleFits
<1>6. DOMAIN Idle.cells \subseteq DOMAIN Idle.plain
  BY IdleIsJob
<1>7. QED
  BY <1>2, <1>3, <1>4, <1>5, <1>6, IdleIsJob, JobMoves

LEMMA IdleKeeps ==
  ASSUME IInv, NEW a \in Actors, job' = [job EXCEPT ![a] = Idle],
         UNCHANGED <<mode, present, keyring, rows, locks, cache, said, dropped>>
  PROVE  IInv'
<1>1. job \in [Actors -> JobSet] /\ TypeOK /\ UNCHANGED <<userLock, rowLock, control>>
  BY DEF IInv, Shapes, locks
<1>2. job'[a] = Idle
  BY <1>1
<1>3. JobFits(a)'
  BY <1>2, IdleFits
<1>4. DOMAIN Idle.cells \subseteq DOMAIN Idle.plain
  BY IdleIsJob
<1>5. /\ userLock' \in Servers \cup {None} /\ rowLock' \in [Rows -> Servers \cup {None}]
      /\ control' \subseteq Servers
  BY <1>1 DEF TypeOK
<1>6. QED
  BY <1>1, <1>3, <1>4, <1>5, IdleIsJob, JobMoves

\* A process that encrypts goes on.
GoesOn(a, j) ==
    /\ j.kind = job[a].kind /\ j.row = job[a].row /\ j.enc = job[a].enc
    /\ j.target = job[a].target /\ j.plain = job[a].plain
    /\ j.enc /\ j.pc \in {"seal", "keyless", "keywait", "nonce"}
    /\ \A f \in DOMAIN j.cells : j.cells[f].text = j.plain[f]
    /\ j.pc # "seal" => Unsealed(j) # {}

LEMMA GoesOnFits ==
  ASSUME IInv, NEW a \in Actors, Past(a), job[a].pc # "commit", NEW j \in JobSet, job'[a] = j, GoesOn(a, j),
         j.pc = "nonce" => j.ver \in Versions /\ (present' => j.key = deks'[j.ver] /\ j.key # None),
         UNCHANGED <<mode, present, rows, said, dropped, userLock, rowLock>>
  PROVE  JobFits(a)'
<1>1. JobFits(a)
  BY DEF IInv
<1>2. job[a].kind \in {"insert", "save", "signal", "finish", "backfill"}
  BY <1>1 DEF JobFits, Past, JobSet, Kinds, IInv, Shapes
<1>3. Past(a)'
  BY DEF Past, GoesOn
<1>4. InsertFits(a)' /\ SaveFits(a)' /\ SignalFits(a)' /\ FinishFits(a)'
  BY <1>1, <1>3 DEF JobFits, GoesOn, InsertFits, SaveFits, SignalFits, FinishFits
<1>5. BackfillFits(a)'
  BY <1>1 DEF JobFits, GoesOn, BackfillFits, Legacy, Populated
<1>6. Unsealed(job[a])' = Unsealed(j)
  BY DEF Unsealed
<1>7. /\ job'[a].kind \in {"backfill", "rotate", "mode"} <=> a = Operator /\ job'[a].kind # "none"
      /\ mode' = "legacy" => ~job'[a].enc
      /\ job'[a].kind \in {"insert", "save", "signal", "finish"} =>
            job'[a].row \in Rows /\ (job'[a].kind = "signal" <=> job'[a].row \in Signals)
  BY <1>1 DEF JobFits, GoesOn
<1>8. QED
  BY <1>2, <1>3, <1>4, <1>5, <1>6, <1>7 DEF JobFits, GoesOn

LEMMA ActiveKeyKeeps ==
  ASSUME IInv, NEW a \in Actors, ActiveKey(a)
  PROVE  IInv'
<1> DEFINE j == IF writeKey = 0 THEN [job[a] EXCEPT !.pc = "keyless"]
                ELSE [job[a] EXCEPT !.pc = "nonce", !.ver = writeKey, !.key = Unwrapped(a, writeKey)]
<1>1. TypeOK /\ job \in [Actors -> JobSet] /\ KeysFit /\ JobFits(a) /\ job[a] \in JobSet
  BY DEF IInv, Shapes
<1>2. job' = [job EXCEPT ![a] = j]
  BY <1>1 DEF ActiveKey
<1>3. writeKey # 0 => /\ writeKey \in Versions /\ Unwrapped(a, writeKey) \in Keys \cup {None}
                      /\ present => Unwrapped(a, writeKey) = deks[writeKey] /\ deks[writeKey] # None
  BY <1>1 DEF TypeOK, KeysFit, Unwrapped, Versions
<1>4. /\ j \in JobSet /\ j.kind = job[a].kind /\ j.row = job[a].row /\ j.enc = job[a].enc
      /\ j.target = job[a].target /\ j.plain = job[a].plain /\ j.cells = job[a].cells
      /\ j.pc \in {"keyless", "nonce"}
      /\ j.pc = "nonce" => writeKey # 0 /\ j.ver = writeKey /\ j.key = Unwrapped(a, writeKey)
  <2>1. CASE writeKey = 0
    BY <1>1, <2>1 DEF JobSet, Places
  <2>2. CASE writeKey # 0
    <3>1. writeKey \in 0..MaxVersion
      BY <1>1 DEF TypeOK
    <3>2. QED
      BY <1>1, <1>3, <2>2, <3>1 DEF JobSet, Places
  <2>3. QED
    BY <2>1, <2>2
<1> HIDE DEF j
<1>5. job'[a] = j
  BY <1>1, <1>2
<1>6. GoesOn(a, j)
  BY <1>1, <1>4 DEF GoesOn, ActiveKey, JobFits, Unsealed
<1>7. Past(a) /\ job[a].pc # "commit"
  BY DEF ActiveKey, Past
<1>8. UNCHANGED <<mode, present, keyring, rows, locks, cache, said, dropped>>
      /\ UNCHANGED <<userLock, rowLock, control, deks>>
  BY DEF ActiveKey, locks, keyring
<1>9. JobFits(a)'
  BY <1>3, <1>4, <1>5, <1>6, <1>7, <1>8, GoesOnFits
<1>10. DOMAIN j.cells \subseteq DOMAIN j.plain
  BY <1>1, <1>4 DEF TypeOK
<1>11. /\ userLock' \in Servers \cup {None} /\ rowLock' \in [Rows -> Servers \cup {None}]
       /\ control' \subseteq Servers
  BY <1>1, <1>8 DEF TypeOK
<1>12. QED
  BY <1>2, <1>4, <1>8, <1>9, <1>10, <1>11, JobMoves

LEMMA AskForKeyLockKeeps ==
  ASSUME IInv, NEW a \in Actors, AskForKeyLock(a)
  PROVE  IInv'
<1> DEFINE j == [job[a] EXCEPT !.pc = "keywait", !.snap = (writeKey # 0)]
<1>1. TypeOK /\ job \in [Actors -> JobSet] /\ JobFits(a) /\ job[a] \in JobSet
  BY DEF IInv, Shapes
<1>2. job' = [job EXCEPT ![a] = j]
  BY <1>1 DEF AskForKeyLock
<1>3. /\ j \in JobSet /\ j.kind = job[a].kind /\ j.row = job[a].row /\ j.enc = job[a].enc
      /\ j.target = job[a].target /\ j.plain = job[a].plain /\ j.cells = job[a].cells
      /\ j.pc = "keywait"
  BY <1>1 DEF JobSet, Places
<1> HIDE DEF j
<1>4. job'[a] = j
  BY <1>1, <1>2
<1>5. Past(a) /\ job[a].pc = "keyless"
  BY DEF AskForKeyLock, Past
<1>6. GoesOn(a, j)
  BY <1>1, <1>3, <1>5 DEF GoesOn, JobFits, Unsealed
<1>7. UNCHANGED <<mode, present, keyring, rows, locks, cache, said, dropped>>
      /\ UNCHANGED <<userLock, rowLock, control, deks>>
  BY DEF AskForKeyLock, locks, keyring
<1>8. JobFits(a)'
  BY <1>3, <1>4, <1>5, <1>6, <1>7, GoesOnFits
<1>9. DOMAIN j.cells \subseteq DOMAIN j.plain
  BY <1>1, <1>3 DEF TypeOK
<1>10. /\ userLock' \in Servers \cup {None} /\ rowLock' \in [Rows -> Servers \cup {None}]
       /\ control' \subseteq Servers
  BY <1>1, <1>7 DEF TypeOK
<1>11. QED
  BY <1>2, <1>3, <1>7, <1>8, <1>9, <1>10, JobMoves

\* A key is stored, a's job changes to one that fits.
LEMMA KeysGrow ==
  ASSUME IInv, NEW a \in Actors, NEW j \in JobSet, job' = [job EXCEPT ![a] = j],
         j.cells = job[a].cells \/ j.cells = Nothing, DOMAIN j.cells \subseteq DOMAIN j.plain,
         JobFits(a)', KeysFit',
         deks' \in [Versions -> Keys \cup {None}], writeKey' \in 0..MaxVersion,
         cache' \in [Actors -> [Versions -> Keys \cup {None}]],
         \A v \in Versions : deks[v] # None => deks'[v] = deks[v],
         UNCHANGED <<mode, present, nonces, rows, locks, said, dropped>>
  PROVE  IInv'
<1>1. /\ job'[a] = j /\ \A b \in Actors \ {a} : job'[b] = job[b]
      /\ UNCHANGED <<userLock, rowLock, control>>
  BY DEF IInv, Shapes, locks
<1>2. TypeOK'
  <2>1. \A b \in Actors :
          /\ job'[b].row \in Rows \cup {None} /\ job'[b].ver \in 0..MaxVersion
          /\ job'[b].key \in Keys \cup {None} /\ job'[b].tries \in 0..Attempts
          /\ DOMAIN job'[b].cells \subseteq DOMAIN job'[b].plain
          /\ DOMAIN job'[b].plain \subseteq Fields
    BY <1>1 DEF IInv, Shapes, TypeOK, JobSet
  <2>2. TypeOK
    BY DEF IInv, Shapes
  <2>3. \A r \in Rows : rows'[r] # None =>
          \A f \in Populated(rows'[r]) :
             (rows'[r].cells[f].key # None) = (rows'[r].format = "encrypted")
    BY <2>2 DEF TypeOK
  <2>4. QED
    BY <1>1, <2>1, <2>2, <2>3 DEF TypeOK
<1>3. Shapes'
  BY <1>1, <1>2 DEF IInv, Shapes
<1>4. RowsFit' /\ TextsKept'
  BY DEF IInv, RowsFit, TextsKept, Kept, Legacy
<1>5. CiphersFit'
  <2>1. \A c : Cipher(c)' => Cipher(c)
    BY <1>1, IdleIsJob DEF Cipher, RowCipher, JobCipher
  <2>2. QED
    BY <2>1, CiphersStayFit DEF IInv
<1>6. ASSUME NEW b \in Actors PROVE JobFits(b)'
  <2>1. CASE b = a
    BY <2>1
  <2>2. CASE b # a
    BY <1>1, <2>2, UndisturbedFits DEF IInv, Undisturbed
  <2>3. QED
    BY <2>1, <2>2
<1>7. QED
  BY <1>3, <1>4, <1>5, <1>6 DEF IInv

LEMMA StoreInitialKeyKeeps ==
  ASSUME IInv, NEW a \in Actors, StoreInitialKey(a)
  PROVE  IInv'
<1>1. TypeOK /\ job \in [Actors -> JobSet] /\ KeysFit /\ JobFits(a) /\ job[a] \in JobSet
  BY DEF IInv, Shapes
<1>2. CASE ~(present /\ (job[a].snap \/ writeKey = 0))
  BY <1>2, AbortKeeps DEF StoreInitialKey, keyring
<1>3. CASE present /\ (job[a].snap \/ writeKey = 0)
  <2> DEFINE k == IF writeKey' = 1 THEN Canonical(a) ELSE Unwrapped(a, writeKey')
             j == [job[a] EXCEPT !.pc = "nonce", !.ver = writeKey', !.snap = FALSE, !.key = k]
  <2>1. /\ job' = [job EXCEPT ![a] = j] /\ UNCHANGED <<mode, present, nonces, rows, locks, said, dropped>>
        /\ UNCHANGED <<userLock, rowLock, control>>
    BY <1>1, <1>3 DEF StoreInitialKey, locks
  <2>2. 1 \in Versions /\ \A v \in Versions : v # 0 /\ (v # 1 => v > 1)
    BY ContentAssumption DEF Versions
  <2>3. /\ deks' \in [Versions -> Keys \cup {None}] /\ writeKey' \in Versions
        /\ cache' \in [Actors -> [Versions -> Keys \cup {None}]] /\ KeysFit'
        /\ \A v \in Versions : deks[v] # None => deks'[v] = deks[v]
        /\ k = deks'[writeKey'] /\ k \in Keys /\ k # None
    <3>1. CASE writeKey = 0
      <4>1. deks[1] = None /\ \A v \in Versions : deks[v] = None
        BY <1>1, <2>2, <3>1 DEF KeysFit, Versions
      <4>2. Canonical(a) = <<a, 1>> /\ <<a, 1>> \in Keys /\ <<a, 1>> # None
        BY <2>2, <4>1, NoneDiffers DEF Canonical, Keys
      <4>3. /\ deks' = [deks EXCEPT ![1] = <<a, 1>>] /\ writeKey' = 1
            /\ cache' = [cache EXCEPT ![a][1] = <<a, 1>>]
        BY <1>3, <3>1, <4>2 DEF StoreInitialKey
      <4>4. /\ deks' \in [Versions -> Keys \cup {None}] /\ writeKey' \in Versions
            /\ cache' \in [Actors -> [Versions -> Keys \cup {None}]]
        BY <1>1, <2>2, <4>2, <4>3 DEF TypeOK
      <4>5. \A b \in Actors, v \in Versions : cache'[b][v] \in {None, deks'[v]}
        <5>1. \A b \in Actors, v \in Versions : cache[b][v] = None
          BY <1>1, <1>3, <4>1 DEF KeysFit
        <5>2. QED
          BY <1>1, <2>2, <4>3, <5>1 DEF TypeOK
      <4>6. deks'[1] = <<a, 1>> /\ \A v \in Versions : v # 1 => deks'[v] = None
        BY <1>1, <2>2, <4>1, <4>3 DEF TypeOK
      <4>7. KeysFit'
        BY <2>1, <2>2, <4>2, <4>3, <4>5, <4>6, <1>3 DEF KeysFit, Versions
      <4>8. QED
        BY <4>1, <4>2, <4>3, <4>4, <4>6, <4>7
    <3>2. CASE writeKey # 0
      <4>1. UNCHANGED <<deks, writeKey, cache, present>> /\ writeKey \in Versions
        BY <1>1, <1>3, <3>2 DEF StoreInitialKey, TypeOK, Versions
      <4>2. deks[writeKey] # None /\ deks[writeKey] \in Keys
        BY <1>1, <3>2, <4>1 DEF KeysFit, TypeOK
      <4>3. k = deks[writeKey]
        BY <1>1, <1>3, <2>2, <4>1, <4>2 DEF Canonical, Unwrapped, KeysFit
      <4>4. KeysFit'
        BY <1>1, <4>1 DEF KeysFit
      <4>5. QED
        BY <1>1, <4>1, <4>2, <4>3, <4>4 DEF TypeOK
    <3>3. QED
      BY <3>1, <3>2
  <2> HIDE DEF k
  <2>4. /\ j \in JobSet /\ j.kind = job[a].kind /\ j.row = job[a].row /\ j.enc = job[a].enc
        /\ j.target = job[a].target /\ j.plain = job[a].plain /\ j.cells = job[a].cells
        /\ j.pc = "nonce" /\ j.ver = writeKey' /\ j.key = k
    <3>1. writeKey' \in 0..MaxVersion /\ k \in Keys \cup {None}
      BY <2>3 DEF Versions
    <3>2. QED
      BY <1>1, <3>1 DEF JobSet, Places
  <2> HIDE DEF j
  <2>5. job'[a] = j
    BY <1>1, <2>1
  <2>6. Past(a) /\ job[a].pc = "keywait"
    BY DEF StoreInitialKey, Past
  <2>7. GoesOn(a, j)
    BY <1>1, <2>4, <2>6 DEF GoesOn, JobFits, Unsealed
  <2>8. JobFits(a)'
    BY <2>1, <2>3, <2>4, <2>5, <2>6, <2>7, GoesOnFits
  <2>9. DOMAIN j.cells \subseteq DOMAIN j.plain
    BY <1>1, <2>4 DEF TypeOK
  <2>10. writeKey' \in 0..MaxVersion
    BY <2>3 DEF Versions
  <2>11. QED
    BY <2>1, <2>3, <2>4, <2>8, <2>9, <2>10, KeysGrow
<1>4. QED
  BY <1>2, <1>3

LEMMA UnusedIsNonce ==
  ASSUME IInv, NEW a \in Actors, NEW v \in Versions
  PROVE  Unused(a, v) \in Actors \X Nat
<1> DEFINE own == {n \in nonces[v] : n[1] = a}
<1>1. IsFiniteSet(nonces[v]) /\ own \subseteq nonces[v]
  BY DEF IInv, Shapes
<1>2. IsFiniteSet(own)
  BY <1>1, FS_Subset
<1>3. Cardinality(own) \in Nat
  BY <1>2, FS_CardinalityType
<1> HIDE DEF own
<1>4. Cardinality(own) + 1 \in Nat
  BY <1>3
<1>5. Unused(a, v) = <<a, Cardinality(own) + 1>>
  BY DEF Unused, own
<1>6. QED
  BY <1>4, <1>5

\* A text is sealed with a nonce nobody had reserved of that key.
LEMMA SealKeeps ==
  ASSUME IInv, NEW a \in Actors, job[a].pc = "nonce", deks[job[a].ver] # None,
         NEW n \in Actors \X Nat, n \notin nonces[job[a].ver],
         nonces' = [nonces EXCEPT ![job[a].ver] = @ \cup {n}],
         job' = [job EXCEPT ![a].pc = "seal", ![a].tries = 0, ![a].ver = 0,
                            ![a].key = None, ![a].cells = SealNext(job[a], n)],
         UNCHANGED <<mode, present, deks, writeKey, rows, locks, cache, said, dropped>>
  PROVE  IInv'
<1> DEFINE o == job[a]
           v == job[a].ver
           next == CHOOSE f \in Unsealed(o) : TRUE
           c == [text |-> o.plain[next], key |-> o.key, ver |-> v, nonce |-> n]
           cs == SealNext(o, n)
           j == [o EXCEPT !.pc = "seal", !.tries = 0, !.ver = 0, !.key = None, !.cells = cs]
<1>1. TypeOK /\ job \in [Actors -> JobSet] /\ KeysFit /\ JobFits(a) /\ o \in JobSet /\ CiphersFit
      /\ nonces \in [Versions -> SUBSET (Actors \X Nat)] /\ deks \in [Versions -> Keys \cup {None}]
  BY DEF IInv, Shapes, TypeOK
<1>2. v \in Versions /\ v > 0
  BY <1>1 DEF JobFits, Versions
<1>3. present
  BY <1>1, <1>2 DEF KeysFit
<1>4. o.key = deks[v] /\ o.key \in Keys
  BY <1>1, <1>2, <1>3 DEF JobFits
<1>5. next \in Unsealed(o)
  BY <1>1 DEF JobFits
<1>6. /\ next \in DOMAIN o.plain /\ next \notin DOMAIN o.cells /\ DOMAIN o.plain \subseteq Fields
      /\ DOMAIN o.cells \subseteq DOMAIN o.plain /\ o.plain[next] \in Texts
      /\ \A f \in DOMAIN o.cells : o.cells[f] \in CipherSet
  BY <1>1, <1>5 DEF Unsealed, TypeOK, JobSet
<1>7. cs = [f \in DOMAIN o.cells \cup {next} |-> IF f # next THEN o.cells[f] ELSE c]
  BY DEF SealNext
<1> HIDE DEF next
<1>8. c \in CipherSet /\ c.key = o.key /\ c.ver = v /\ c.nonce = n /\ c.text = o.plain[next]
  BY <1>2, <1>4, <1>6 DEF CipherSet
<1> HIDE DEF c, cs
<1>9. /\ cs \in [DOMAIN o.cells \cup {next} -> CipherSet] /\ DOMAIN cs \subseteq DOMAIN o.plain
      /\ DOMAIN cs = DOMAIN o.cells \cup {next}
      /\ \A f \in DOMAIN cs : cs[f] = c \/ (f \in DOMAIN o.cells /\ cs[f] = o.cells[f])
      /\ \A f \in DOMAIN cs : cs[f].text = o.plain[f]
  BY <1>1, <1>6, <1>7, <1>8 DEF JobFits
<1>10. /\ j \in JobSet /\ j.kind = o.kind /\ j.row = o.row /\ j.enc = o.enc /\ j.target = o.target
       /\ j.plain = o.plain /\ j.cells = cs /\ j.pc = "seal"
  <2>1. cs \in UNION {[D -> CipherSet] : D \in SUBSET Fields}
    BY <1>6, <1>9
  <2>2. 0 \in 0..MaxVersion /\ 0 \in 0..Attempts
    BY ContentAssumption
  <2>3. QED
    BY <1>1, <2>1, <2>2 DEF JobSet, Places
<1>11. job' = [job EXCEPT ![a] = j]
  BY <1>1 DEF cs
<1> HIDE DEF j
<1>12. /\ job'[a] = j /\ \A b \in Actors \ {a} : job'[b] = job[b]
       /\ UNCHANGED <<userLock, rowLock, control>>
  BY <1>1, <1>11 DEF locks
<1>13. /\ nonces' \in [Versions -> SUBSET (Actors \X Nat)] /\ n \in nonces'[v]
       /\ \A w \in Versions : nonces[w] \subseteq nonces'[w] /\ IsFiniteSet(nonces'[w])
  <2>1. \A w \in Versions : nonces'[w] = IF w = v THEN nonces[w] \cup {n} ELSE nonces[w]
    BY <1>1, <1>2
  <2>2. \A w \in Versions : IsFiniteSet(nonces[w]) /\ IsFiniteSet(nonces[w] \cup {n})
    BY FS_AddElement DEF IInv, Shapes
  <2>3. QED
    BY <1>1, <1>2, <2>1, <2>2
<1>14. TypeOK'
  <2>1. \A b \in Actors :
          /\ job'[b].row \in Rows \cup {None} /\ job'[b].ver \in 0..MaxVersion
          /\ job'[b].key \in Keys \cup {None} /\ job'[b].tries \in 0..Attempts
          /\ DOMAIN job'[b].cells \subseteq DOMAIN job'[b].plain
          /\ DOMAIN job'[b].plain \subseteq Fields
    <3>1. \A b \in Actors \ {a} : job'[b] = job[b]
      BY <1>12
    <3>2. /\ j.row \in Rows \cup {None} /\ j.ver \in 0..MaxVersion
          /\ j.key \in Keys \cup {None} /\ j.tries \in 0..Attempts
          /\ DOMAIN j.cells \subseteq DOMAIN j.plain /\ DOMAIN j.plain \subseteq Fields
      <4>1. /\ j.row \in Rows \cup {None} /\ j.ver \in 0..MaxVersion
            /\ j.key \in Keys \cup {None} /\ j.tries \in 0..Attempts
        BY <1>10 DEF JobSet
      <4>2. QED
        BY <1>6, <1>9, <1>10, <4>1
    <3>3. \A b \in Actors :
             /\ job[b].row \in Rows \cup {None} /\ job[b].ver \in 0..MaxVersion
             /\ job[b].key \in Keys \cup {None} /\ job[b].tries \in 0..Attempts
             /\ DOMAIN job[b].cells \subseteq DOMAIN job[b].plain
             /\ DOMAIN job[b].plain \subseteq Fields
      BY <1>1, Zenon DEF TypeOK
    <3>4. job'[a] = j
      BY <1>12
    <3>5. QED
      BY <3>1, <3>2, <3>3, <3>4, Zenon
  <2>2. /\ mode' = mode /\ present' = present /\ deks' = deks /\ writeKey' = writeKey
        /\ rows' = rows /\ cache' = cache
    BY <1>1
  <2>3. \A q \in Rows : rows'[q] # None =>
          \A f \in Populated(rows'[q]) :
             (rows'[q].cells[f].key # None) = (rows'[q].format = "encrypted")
    BY <1>1, <2>2 DEF TypeOK
  <2>4. QED
    BY <1>1, <1>12, <1>13, <2>1, <2>2, <2>3 DEF TypeOK
<1>15. Shapes'
  <2>1. job' \in [Actors -> JobSet]
    BY <1>1, <1>10, <1>11
  <2>2. QED
    BY <1>13, <1>14, <2>1 DEF IInv, Shapes
<1>16. KeysFit' /\ RowsFit' /\ TextsKept'
  BY DEF IInv, KeysFit, RowsFit, TextsKept, Kept, Legacy
<1>17. CiphersFit'
  <2>1. \A d : Cipher(d)' => Cipher(d) \/ d = c
    <3>1. \A d : RowCipher(d)' => RowCipher(d)
      BY DEF RowCipher
    <3>2. ASSUME NEW d, JobCipher(d)' PROVE JobCipher(d) \/ d = c
      <4>1. PICK b \in Actors, f \in Fields : f \in DOMAIN job'[b].cells /\ d = job'[b].cells[f]
        BY <3>2 DEF JobCipher
      <4>2. CASE b = a
        <5>1. f \in DOMAIN cs /\ d = cs[f]
          BY <1>10, <1>12, <4>1, <4>2
        <5>2. d = c \/ (f \in DOMAIN o.cells /\ d = o.cells[f])
          BY <1>9, <5>1
        <5>3. QED
          BY <5>2 DEF JobCipher
      <4>3. CASE b # a
        BY <1>12, <4>1, <4>3 DEF JobCipher
      <4>4. QED
        BY <4>2, <4>3
    <3>3. QED
      BY <3>1, <3>2 DEF Cipher
  <2>2. ASSUME NEW d, Cipher(d), d.key = c.key, d.nonce = c.nonce PROVE FALSE
    <3>1. d \in CipherSet /\ d.key = deks[d.ver] /\ d.nonce \in nonces[d.ver]
      BY <1>1, <1>3, <2>2 DEF CiphersFit
    <3>2. d.ver \in Versions /\ d.key # None
      BY <1>4, <1>8, <2>2, <3>1, NoneDiffers DEF CipherSet
    <3>3. d.key[2] = d.ver /\ o.key[2] = v
      BY <1>1, <1>2, <1>4, <3>1, <3>2 DEF KeysFit
    <3>4. QED
      BY <1>8, <2>2, <3>1, <3>3
  <2>3. \A d, e : Cipher(d)' /\ Cipher(e)' /\ d.key = e.key /\ d.nonce = e.nonce => d = e
    BY <1>1, <2>1, <2>2 DEF CiphersFit
  <2>4. ASSUME NEW d, Cipher(d)'
        PROVE  d \in CipherSet /\ d.key = deks'[d.ver] /\ d.nonce \in nonces'[d.ver]
    <3>1. CASE d = c
      BY <1>4, <1>8, <1>13, <3>1
    <3>2. CASE Cipher(d)
      <4>1. d \in CipherSet /\ d.key = deks[d.ver] /\ d.nonce \in nonces[d.ver] /\ d.ver \in Versions
        BY <1>1, <1>3, <3>2 DEF CiphersFit, CipherSet
      <4>2. QED
        BY <1>13, <4>1
    <3>3. QED
      BY <2>1, <2>4, <3>1, <3>2
  <2>5. QED
    BY <2>3, <2>4 DEF CiphersFit
<1>18. JobFits(a)'
  <2>1. Past(a) /\ o.pc = "nonce" /\ o.enc
    BY <1>1 DEF Past, JobFits
  <2>2. GoesOn(a, j)
    BY <1>9, <1>10, <2>1 DEF GoesOn
  <2>3. QED
    BY <1>10, <1>12, <2>1, <2>2, GoesOnFits
<1>19. ASSUME NEW b \in Actors PROVE JobFits(b)'
  <2>1. CASE b = a
    BY <1>18, <2>1
  <2>2. CASE b # a
    BY <1>12, <2>2, UndisturbedFits DEF IInv, Undisturbed
  <2>3. QED
    BY <2>1, <2>2
<1>20. QED
  BY <1>15, <1>16, <1>17, <1>19 DEF IInv

LEMMA ReserveNonceKeeps ==
  ASSUME IInv, NEW a \in Actors, ReserveNonce(a)
  PROVE  IInv'
<1> DEFINE o == job[a]
<1>1. TypeOK /\ job \in [Actors -> JobSet] /\ JobFits(a) /\ o \in JobSet /\ o.pc = "nonce"
      /\ o.ver \in Versions
  BY DEF IInv, Shapes, ReserveNonce, JobFits
<1>2. UNCHANGED <<mode, present, deks, writeKey, rows, cache, said, dropped>>
  BY DEF ReserveNonce
<1>3. CASE Abort(a) /\ UNCHANGED nonces
  BY <1>2, <1>3, AbortKeeps DEF keyring
<1>4. CASE deks[o.ver] = None
  BY <1>3, <1>4 DEF ReserveNonce
<1>5. CASE deks[o.ver] # None
  <2>1. PICK n \in nonces[o.ver] \cup {Unused(a, o.ver)} :
           IF Fresh(o.ver, n)
           THEN /\ nonces' = [nonces EXCEPT ![o.ver] = @ \cup {n}]
                /\ job' = [job EXCEPT ![a].pc = "seal", ![a].tries = 0, ![a].ver = 0,
                             ![a].key = None, ![a].cells = SealNext(o, n)]
                /\ UNCHANGED locks
           ELSE /\ UNCHANGED nonces
                /\ IF o.tries + 1 < Attempts
                   THEN job' = [job EXCEPT ![a].tries = @ + 1] /\ UNCHANGED locks
                   ELSE Abort(a)
    BY <1>5 DEF ReserveNonce
  <2>2. CASE Fresh(o.ver, n)
    <3>1. n \in Actors \X Nat /\ n \notin nonces[o.ver]
      BY <1>1, <2>2, UnusedIsNonce DEF Fresh
    <3>2. QED
      BY <1>1, <1>2, <1>5, <2>1, <2>2, <3>1, SealKeeps
  <2>3. CASE ~Fresh(o.ver, n) /\ o.tries + 1 < Attempts
    <3> DEFINE j == [o EXCEPT !.tries = @ + 1]
    <3>1. o.tries + 1 \in 0..Attempts
      BY <1>1, <2>3, ContentAssumption DEF JobSet
    <3>2. /\ j \in JobSet /\ j.kind = o.kind /\ j.row = o.row /\ j.enc = o.enc /\ j.target = o.target
          /\ j.plain = o.plain /\ j.cells = o.cells /\ j.pc = "nonce" /\ j.ver = o.ver /\ j.key = o.key
      BY <1>1, <3>1 DEF JobSet
    <3>3. job' = [job EXCEPT ![a] = j] /\ UNCHANGED nonces /\ UNCHANGED <<userLock, rowLock, control>>
      BY <1>1, <2>1, <2>3 DEF locks
    <3> HIDE DEF j
    <3>4. job'[a] = j
      BY <1>1, <3>3
    <3>5. GoesOn(a, j) /\ Past(a)
      BY <1>1, <3>2 DEF GoesOn, JobFits, Past, Unsealed
    <3>6. j.ver \in Versions /\ (present' => j.key = deks'[j.ver] /\ j.key # None)
      BY <1>1, <1>2, <3>2 DEF JobFits
    <3>7. JobFits(a)'
      BY <1>1, <1>2, <3>2, <3>3, <3>4, <3>5, <3>6, GoesOnFits
    <3>8. DOMAIN j.cells \subseteq DOMAIN j.plain
      BY <1>1, <3>2 DEF TypeOK
    <3>9. /\ userLock' \in Servers \cup {None} /\ rowLock' \in [Rows -> Servers \cup {None}]
          /\ control' \subseteq Servers
      BY <1>1, <3>3 DEF TypeOK
    <3>10. QED
      BY <1>2, <3>2, <3>3, <3>7, <3>8, <3>9, JobMoves DEF keyring
  <2>4. CASE ~Fresh(o.ver, n) /\ ~(o.tries + 1 < Attempts)
    BY <1>3, <2>1, <2>4
  <2>5. QED
    BY <2>2, <2>3, <2>4
<1>6. QED
  BY <1>4, <1>5

-----------------------------------------------------------------------------
(***************************************************************************)
(* Requests                                                                *)
(***************************************************************************)

LEMMA BeginKeeps ==
  ASSUME IInv, NEW a \in Servers, NEW kind \in {"insert", "save", "signal", "finish", "delete"},
         NEW r \in Rows \cup {None}, kind # "delete" => r \in Rows /\ (kind = "signal" <=> r \in Signals),
         Begin(a, kind, r)
  PROVE  IInv'
<1> DEFINE j == [Idle EXCEPT !.kind = kind, !.pc = "lock", !.row = r, !.enc = (mode # "legacy")]
<1>1. TypeOK /\ job \in [Actors -> JobSet] /\ a \in Actors /\ a # Operator
  BY NoneDiffers DEF IInv, Shapes
<1>2. /\ j \in JobSet /\ j.kind = kind /\ j.pc = "lock" /\ j.row = r /\ j.enc = (mode # "legacy")
      /\ j.cells = Nothing /\ j.plain = Nothing
  <2>1. Idle \in JobSet /\ Idle.cells = Nothing /\ Idle.plain = Nothing
    BY IdleIsJob
  <2>2. kind \in Kinds /\ "lock" \in Places /\ r \in Rows \cup {None} /\ (mode # "legacy") \in BOOLEAN
    BY DEF Kinds, Places
  <2>3. QED
    BY <2>1, <2>2 DEF JobSet
<1>3. job' = [job EXCEPT ![a] = j] /\ UNCHANGED <<mode, present, keyring, rows, cache, said, dropped>>
      /\ UNCHANGED <<userLock, rowLock, control>>
  BY DEF Begin, locks
<1> HIDE DEF j
<1>4. job'[a] = j
  BY <1>1, <1>3
<1>5. JobFits(a)'
  BY <1>1, <1>2, <1>3, <1>4, IdleIsJob
     DEF JobFits, InsertFits, SaveFits, SignalFits, FinishFits, BackfillFits, Past
<1>6. DOMAIN j.cells \subseteq DOMAIN j.plain
  BY <1>2
<1>7. /\ userLock' \in Servers \cup {None} /\ rowLock' \in [Rows -> Servers \cup {None}]
      /\ control' \subseteq Servers
  BY <1>1, <1>3 DEF TypeOK
<1>8. QED
  BY <1>1, <1>2, <1>3, <1>5, <1>6, <1>7, JobMoves

LEMMA LockForInsertKeeps ==
  ASSUME IInv, NEW a \in Servers, LockForInsert(a)
  PROVE  IInv'
<1> DEFINE r == job[a].row
           fs == IF r \in Contents THEN Fields ELSE {Source}
           plain == [f \in fs |-> a]
           j == [job[a] EXCEPT !.pc = "seal", !.target = fs, !.plain = plain]
<1>1. TypeOK /\ job \in [Actors -> JobSet] /\ a \in Actors /\ a # Operator /\ a \in Texts
      /\ job[a] \in JobSet /\ JobFits(a)
  BY NoneDiffers DEF IInv, Shapes
<1>2. job[a].pc = "lock" /\ job[a].kind = "insert" /\ r \in Rows /\ job[a].cells = Nothing
      /\ UNCHANGED <<mode, present, keyring, rows, cache, said, dropped>> /\ UNCHANGED <<rowLock, control>>
  BY <1>1 DEF LockForInsert, JobFits
<1>3. CASE ~(present /\ rows[r] = None)
  BY <1>1, <1>2, <1>3, IdleKeeps DEF LockForInsert, locks
<1>4. CASE present /\ rows[r] = None
  <2>1. fs \subseteq Fields /\ fs # {} /\ plain \in UNION {[D -> Texts] : D \in SUBSET Fields}
        /\ DOMAIN plain = fs
    <3>1. fs \subseteq Fields /\ fs # {}
      BY ContentAssumption
    <3> HIDE DEF fs
    <3>2. plain \in [fs -> Texts]
      BY <1>1
    <3>3. QED
      BY <3>1, <3>2
  <2>2. job' = [job EXCEPT ![a] = j] /\ userLock = None /\ userLock' = a
    BY <1>1, <1>4 DEF LockForInsert, Locked
  <2> HIDE DEF fs, plain
  <2>3. /\ j \in JobSet /\ j.kind = "insert" /\ j.row = r /\ j.enc = job[a].enc /\ j.pc = "seal"
        /\ j.cells = Nothing /\ j.target = fs /\ j.plain = plain
    BY <1>1, <1>2, <2>1 DEF JobSet, Places
  <2> HIDE DEF j
  <2>4. job'[a] = j
    BY <1>1, <2>2
  <2>5. JobFits(a)'
    BY <1>1, <1>2, <1>4, <2>1, <2>2, <2>3, <2>4, IdleIsJob
       DEF JobFits, InsertFits, SaveFits, SignalFits, FinishFits, BackfillFits, Past
  <2>6. /\ userLock' \in Servers \cup {None} /\ rowLock' \in [Rows -> Servers \cup {None}]
        /\ control' \subseteq Servers
    BY <1>1, <1>2, <2>2 DEF TypeOK
  <2>7. DOMAIN j.cells \subseteq DOMAIN j.plain
    BY <2>3, IdleIsJob
  <2>8. \A b \in Actors : userLock # b
    BY <2>2, NoneDiffers
  <2>9. QED
    BY <1>1, <1>2, <2>2, <2>3, <2>5, <2>6, <2>7, <2>8, JobMoves
<1>5. QED
  BY <1>3, <1>4

LEMMA LockForFinishKeeps ==
  ASSUME IInv, NEW a \in Servers, LockForFinish(a)
  PROVE  IInv'
<1> DEFINE r == job[a].row
<1>1. TypeOK /\ job \in [Actors -> JobSet] /\ a \in Actors /\ a # Operator /\ a \in Texts
      /\ job[a] \in JobSet /\ JobFits(a)
  BY NoneDiffers DEF IInv, Shapes
<1>2. job[a].pc = "lock" /\ job[a].kind = "finish" /\ r \in Rows /\ job[a].cells = Nothing
      /\ UNCHANGED <<mode, present, keyring, rows, cache, said, dropped>> /\ UNCHANGED control
      /\ userLock = None /\ rowLock[r] = None
  BY <1>1 DEF LockForFinish, JobFits
<1>3. CASE r \notin Running
  BY <1>1, <1>2, <1>3, IdleKeeps DEF LockForFinish, locks
<1>4. CASE r \in Running
  <2>1. PICK fs \in {{}, Fields \ {Source}} :
           job' = [job EXCEPT ![a].pc = "seal", ![a].target = fs, ![a].plain = [f \in fs |-> a]]
    BY <1>4 DEF LockForFinish, Locked
  <2> DEFINE plain == [f \in fs |-> a]
             j == [job[a] EXCEPT !.pc = "seal", !.target = fs, !.plain = plain]
  <2>2. fs \subseteq Fields /\ plain \in UNION {[D -> Texts] : D \in SUBSET Fields}
        /\ DOMAIN plain = fs
    BY <1>1
  <2>3. /\ job' = [job EXCEPT ![a] = j] /\ userLock' = a /\ rowLock' = [rowLock EXCEPT ![r] = a]
    BY <1>1, <1>4, <2>1 DEF LockForFinish
  <2> HIDE DEF plain
  <2>4. /\ j \in JobSet /\ j.kind = "finish" /\ j.row = r /\ j.enc = job[a].enc /\ j.pc = "seal"
        /\ j.cells = Nothing /\ j.target = fs /\ j.plain = plain
    BY <1>1, <1>2, <2>2, ZenonT(40) DEF JobSet, Places
  <2> HIDE DEF j
  <2>5. job'[a] = j /\ rowLock'[r] = a /\ rows[r] # None
    BY <1>1, <1>2, <1>4, <2>3 DEF TypeOK, Running
  <2>6. JobFits(a)'
    BY <1>1, <1>2, <2>2, <2>3, <2>4, <2>5, IdleIsJob
       DEF JobFits, InsertFits, SaveFits, SignalFits, FinishFits, BackfillFits, Past
  <2>7. /\ userLock' \in Servers \cup {None} /\ rowLock' \in [Rows -> Servers \cup {None}]
        /\ control' \subseteq Servers
    BY <1>1, <1>2, <2>3 DEF TypeOK
  <2>8. DOMAIN j.cells \subseteq DOMAIN j.plain
    BY <2>4, IdleIsJob
  <2>9. \A b \in Actors : userLock # b /\ (\A q \in Rows : rowLock[q] = b => rowLock'[q] = b)
    BY <1>1, <1>2, <2>3, NoneDiffers DEF TypeOK
  <2>10. QED
    BY <1>1, <1>2, <2>3, <2>4, <2>6, <2>7, <2>8, <2>9, JobMoves
<1>5. QED
  BY <1>3, <1>4

LEMMA LockForDeleteKeeps ==
  ASSUME IInv, NEW a \in Servers, LockForDelete(a)
  PROVE  IInv'
<1> DEFINE j == [job[a] EXCEPT !.pc = "rows"]
<1>1. TypeOK /\ job \in [Actors -> JobSet] /\ a \in Actors /\ a # Operator
      /\ job[a] \in JobSet /\ JobFits(a)
  BY NoneDiffers DEF IInv, Shapes
<1>2. job[a].pc = "lock" /\ job[a].kind = "delete" /\ job[a].cells = Nothing
      /\ UNCHANGED <<mode, present, keyring, rows, cache, said, dropped>> /\ UNCHANGED <<rowLock, control>>
      /\ userLock = None
  BY <1>1 DEF LockForDelete, JobFits
<1>3. CASE ~present
  BY <1>1, <1>2, <1>3, IdleKeeps DEF LockForDelete, locks
<1>4. CASE present
  <2>1. job' = [job EXCEPT ![a] = j] /\ userLock' = a
    BY <1>1, <1>4 DEF LockForDelete
  <2>2. /\ j \in JobSet /\ j.kind = "delete" /\ j.enc = job[a].enc /\ j.pc = "rows"
        /\ j.cells = Nothing
    BY <1>1, <1>2 DEF JobSet, Places
  <2> HIDE DEF j
  <2>3. job'[a] = j
    BY <1>1, <2>1
  <2>4. JobFits(a)'
    BY <1>1, <1>2, <2>1, <2>2, <2>3, IdleIsJob
       DEF JobFits, InsertFits, SaveFits, SignalFits, FinishFits, BackfillFits, Past
  <2>5. /\ userLock' \in Servers \cup {None} /\ rowLock' \in [Rows -> Servers \cup {None}]
        /\ control' \subseteq Servers
    BY <1>1, <1>2, <2>1 DEF TypeOK
  <2>6. DOMAIN j.cells \subseteq DOMAIN j.plain
    BY <2>2, IdleIsJob
  <2>7. \A b \in Actors : userLock # b
    BY <1>2, NoneDiffers
  <2>8. QED
    BY <1>1, <1>2, <2>1, <2>2, <2>4, <2>5, <2>6, <2>7, JobMoves
<1>5. QED
  BY <1>3, <1>4

\* A save reads its row under the row's lock: what it adds to its own text is
\* what the user last stored there.
LEMMA LockForSaveKeeps ==
  ASSUME IInv, NEW a \in Servers, LockForSave(a)
  PROVE  IInv'
<1> DEFINE r == job[a].row
<1>1. TypeOK /\ job \in [Actors -> JobSet] /\ a \in Actors /\ a # Operator /\ a \in Texts
      /\ job[a] \in JobSet /\ JobFits(a) /\ TextsKept
  BY NoneDiffers DEF IInv, Shapes
<1>2. job[a].pc = "lock" /\ job[a].kind = "save" /\ r \in Rows /\ job[a].cells = Nothing
      /\ UNCHANGED <<mode, present, keyring, rows, cache, said, dropped>> /\ UNCHANGED <<userLock, control>>
      /\ rowLock[r] = None
  BY <1>1 DEF LockForSave, JobFits
<1>3. CASE rows[r] = None
  BY <1>1, <1>2, <1>3, IdleKeeps DEF LockForSave, locks
<1>4. CASE rows[r] # None
  <2>1. PICK f \in Fields :
           job' = [job EXCEPT ![a].pc = "seal", ![a].target = {f},
                              ![a].plain = Over(ToWrite(r, f, job[a].enc), [g \in {f} |-> a])]
    BY <1>4 DEF LockForSave, Locked
  <2> DEFINE D == {f} \cup (IF job[a].enc /\ rows[r].format = "legacy" THEN Populated(rows[r]) ELSE {})
             plain == Over(ToWrite(r, f, job[a].enc), [g \in {f} |-> a])
             j == [job[a] EXCEPT !.pc = "seal", !.target = {f}, !.plain = plain]
  <2>2. D \subseteq Fields /\ f \in D
    BY DEF Populated
  <2>3. plain = [g \in D |-> IF g = f THEN a ELSE Text(rows[r].cells[g])]
    BY DEF Over, ToWrite
  <2>4. ASSUME NEW g \in D, g # f
        PROVE  Text(rows[r].cells[g]) \in Texts /\ Text(rows[r].cells[g]) = said[r][g]
    <3>1. rows[r] \in RowSet /\ g \in Populated(rows[r]) /\ g \in Fields
      BY <1>1, <1>2, <1>4, <2>4 DEF TypeOK, Populated
    <3>2. rows[r].cells[g] \in CellSet /\ rows[r].cells[g] # None
      BY <3>1 DEF RowSet, Populated
    <3>3. QED
      BY <1>1, <1>2, <1>4, <3>1, <3>2 DEF Text, CellSet, TextsKept, Kept, TypeOK, JobFits
  <2> HIDE DEF D
  <2>5. plain \in [D -> Texts] /\ \A g \in D \ {f} : plain[g] = said[r][g]
    BY <1>1, <2>3, <2>4
  <2> HIDE DEF plain
  <2>6. plain \in UNION {[S -> Texts] : S \in SUBSET Fields} /\ DOMAIN plain = D
    BY <2>2, <2>5
  <2>7. job' = [job EXCEPT ![a] = j] /\ rowLock' = [rowLock EXCEPT ![r] = a]
    BY <1>1, <1>4, <2>1 DEF LockForSave, plain
  <2>8. /\ j \in JobSet /\ j.kind = "save" /\ j.row = r /\ j.enc = job[a].enc /\ j.pc = "seal"
        /\ j.cells = Nothing /\ j.target = {f} /\ j.plain = plain
    BY <1>1, <1>2, <2>6, ZenonT(40) DEF JobSet, Places
  <2> HIDE DEF j
  <2>9. job'[a] = j /\ rowLock'[r] = a
    BY <1>1, <1>2, <2>7 DEF TypeOK
  <2>10. SaveFits(a)'
    BY <1>2, <1>4, <2>2, <2>5, <2>6, <2>8, <2>9 DEF SaveFits
  <2>11. JobFits(a)'
    BY <1>1, <1>2, <2>8, <2>9, <2>10, IdleIsJob
       DEF JobFits, InsertFits, SignalFits, FinishFits, BackfillFits, Past
  <2>12. /\ userLock' \in Servers \cup {None} /\ rowLock' \in [Rows -> Servers \cup {None}]
         /\ control' \subseteq Servers
    BY <1>1, <1>2, <2>7 DEF TypeOK
  <2>13. DOMAIN j.cells \subseteq DOMAIN j.plain
    BY <2>8, IdleIsJob
  <2>14. \A b \in Actors : \A q \in Rows : rowLock[q] = b => rowLock'[q] = b
    BY <1>1, <1>2, <2>7, NoneDiffers DEF TypeOK
  <2>15. QED
    BY <1>1, <1>2, <2>7, <2>8, <2>11, <2>12, <2>13, <2>14, JobMoves
<1>5. QED
  BY <1>3, <1>4

\* A save of a signal holds the lock of its draft, and so keeps the user there.
LEMMA LockForSignalKeeps ==
  ASSUME IInv, NEW a \in Servers, LockForSignal(a)
  PROVE  IInv'
<1> DEFINE r == job[a].row
<1>1. TypeOK /\ job \in [Actors -> JobSet] /\ a \in Actors /\ a # Operator /\ a \in Texts
      /\ job[a] \in JobSet /\ JobFits(a)
  BY NoneDiffers DEF IInv, Shapes
<1>2. job[a].pc = "lock" /\ job[a].kind = "signal" /\ r \in Rows /\ job[a].cells = Nothing
      /\ UNCHANGED <<mode, present, keyring, rows, cache, said, dropped>> /\ UNCHANGED <<userLock, control>>
      /\ rowLock[r] = None
  BY <1>1 DEF LockForSignal, JobFits
<1>3. CASE ~(present /\ (rows[r] # None => Signal(r) # None))
  BY <1>1, <1>2, <1>3, IdleKeeps DEF LockForSignal, locks
<1>4. CASE present /\ (rows[r] # None => Signal(r) # None)
  <2>1. PICK t \in {a, Signal(r), None} :
           job' = [job EXCEPT ![a].pc = "seal", ![a].target = {Source},
                              ![a].plain = [f \in IF t = None THEN {} ELSE {Source} |-> t]]
    BY <1>4 DEF LockForSignal, Locked
  <2> DEFINE D == IF t = None THEN {} ELSE {Source}
             plain == [f \in D |-> t]
             j == [job[a] EXCEPT !.pc = "seal", !.target = {Source}, !.plain = plain]
  <2>2. t \in Texts \cup {None}
    <3>1. Signal(r) \in Texts \cup {None}
      <4>1. rows[r] \in RowSet \cup {None} /\ Source \in Fields
        BY <1>1, <1>2, ContentAssumption DEF TypeOK
      <4>2. QED
        BY <4>1 DEF Signal, Text, RowSet, CellSet
    <3>2. QED
      BY <1>1, <3>1
  <2>3. plain \in [D -> Texts] /\ D \subseteq {Source} /\ D \in SUBSET Fields
    BY <2>2, ContentAssumption
  <2> HIDE DEF D
  <2>4. plain \in UNION {[S -> Texts] : S \in SUBSET Fields} /\ DOMAIN plain \subseteq {Source}
    BY <2>3
  <2>5. job' = [job EXCEPT ![a] = j] /\ rowLock' = [rowLock EXCEPT ![r] = a]
    BY <1>1, <1>4, <2>1 DEF LockForSignal, D
  <2> HIDE DEF plain
  <2>6. /\ j \in JobSet /\ j.kind = "signal" /\ j.row = r /\ j.enc = job[a].enc /\ j.pc = "seal"
        /\ j.cells = Nothing /\ j.target = {Source} /\ j.plain = plain
    <3>1. {Source} \in SUBSET Fields
      BY ContentAssumption
    <3>2. QED
      BY <1>1, <1>2, <2>4, <3>1, ZenonT(40) DEF JobSet, Places
  <2> HIDE DEF j
  <2>7. job'[a] = j /\ rowLock'[r] = a
    BY <1>1, <1>2, <2>5 DEF TypeOK
  <2>8. SignalFits(a)'
    BY <1>2, <1>4, <2>4, <2>6, <2>7 DEF SignalFits
  <2>9. JobFits(a)'
    BY <1>1, <1>2, <2>6, <2>7, <2>8, IdleIsJob
       DEF JobFits, InsertFits, SaveFits, FinishFits, BackfillFits, Past
  <2>10. /\ userLock' \in Servers \cup {None} /\ rowLock' \in [Rows -> Servers \cup {None}]
         /\ control' \subseteq Servers
    BY <1>1, <1>2, <2>5 DEF TypeOK
  <2>11. DOMAIN j.cells \subseteq DOMAIN j.plain
    BY <2>6, IdleIsJob
  <2>12. \A b \in Actors : \A q \in Rows : rowLock[q] = b => rowLock'[q] = b
    BY <1>1, <1>2, <2>5, NoneDiffers DEF TypeOK
  <2>13. QED
    BY <1>1, <1>2, <2>5, <2>6, <2>9, <2>10, <2>11, <2>12, JobMoves
<1>5. QED
  BY <1>3, <1>4

LEMMA WriteKeeps ==
  ASSUME IInv, NEW a \in Servers, Write(a)
  PROVE  IInv'
<1> DEFINE j == [job[a] EXCEPT !.pc = "commit"]
<1>1. TypeOK /\ job \in [Actors -> JobSet] /\ a \in Actors /\ a # Operator
      /\ job[a] \in JobSet /\ JobFits(a)
  BY NoneDiffers DEF IInv, Shapes
<1>2. job[a].pc = "seal" /\ job[a].kind \in {"insert", "save", "signal", "finish"} /\ Ready(job[a])
      /\ UNCHANGED <<mode, present, keyring, rows, cache, said, dropped>> /\ ~Erases(job[a])
  BY DEF Write, Ready
<1>3. CASE ~Accepted(job[a])
  BY <1>1, <1>2, <1>3, AbortKeeps DEF Write
<1>4. CASE Accepted(job[a])
  <2>1. job' = [job EXCEPT ![a] = j] /\ control' = control \cup {a} /\ UNCHANGED <<userLock, rowLock>>
    BY <1>1, <1>4 DEF Write, Shared
  <2>2. /\ j \in JobSet /\ j.kind = job[a].kind /\ j.row = job[a].row /\ j.enc = job[a].enc
        /\ j.pc = "commit" /\ j.cells = job[a].cells /\ j.target = job[a].target
        /\ j.plain = job[a].plain
    BY <1>1 DEF JobSet, Places
  <2> HIDE DEF j
  <2>3. job'[a] = j
    BY <1>1, <2>1
  <2>4. Accepted(job[a])'
    BY <1>2, <1>4, <2>2, <2>3 DEF Accepted, Populated
  <2>5. j.enc => Unsealed(j) = {}
    BY <1>2, <2>2 DEF Ready, Unsealed
  <2>6. Past(a)' /\ Past(a) /\ job[a].pc # "lock"
    BY <1>2, <2>2, <2>3 DEF Past
  <2>7. InsertFits(a)' /\ SaveFits(a)' /\ SignalFits(a)' /\ FinishFits(a)' /\ BackfillFits(a)'
    <3>1. SignalFits(a)'
      BY <1>1, <1>2, <2>1, <2>2, <2>3, <2>6 DEF JobFits, SignalFits, Erases
    <3>2. QED
      BY <1>1, <1>2, <2>1, <2>2, <2>3, <2>6, <3>1 DEF JobFits, InsertFits, SaveFits, FinishFits, BackfillFits
  <2>8. JobFits(a)'
    BY <1>1, <1>2, <2>1, <2>2, <2>3, <2>4, <2>5, <2>6, <2>7 DEF JobFits, Unsealed
  <2>9. /\ userLock' \in Servers \cup {None} /\ rowLock' \in [Rows -> Servers \cup {None}]
        /\ control' \subseteq Servers
    BY <1>1, <2>1 DEF TypeOK
  <2>10. DOMAIN j.cells \subseteq DOMAIN j.plain
    BY <1>1, <2>2 DEF TypeOK
  <2>11. QED
    BY <1>1, <1>2, <2>1, <2>2, <2>8, <2>9, <2>10, JobMoves
<1>5. QED
  BY <1>3, <1>4

-----------------------------------------------------------------------------
(***************************************************************************)
(* Rows written                                                            *)
(***************************************************************************)

\* What the trigger lets through is a row in one format, in the one that the
\* mode asks for, with the texts of the statement.
LEMMA StoredFits ==
  ASSUME IInv, NEW a \in Actors, job[a].row \in Rows, Accepted(job[a]), Past(a),
         job[a].enc => Unsealed(job[a]) = {}, ~Conflicts(job[a]),
         rows[job[a].row] # None \/ DOMAIN job[a].plain # {}
  PROVE  LET old == rows[job[a].row]
             new == Stored(job[a])
         IN  /\ new \in RowSet /\ new # None
             /\ \A f \in Fields : new.cells[f] # None =>
                   (new.cells[f].key # None) = (new.format = "encrypted")
             /\ \A f \in Fields : Text(new.cells[f]) =
                   IF f \in DOMAIN job[a].plain THEN job[a].plain[f]
                   ELSE IF old = None THEN None ELSE Text(old.cells[f])
             /\ mode = "legacy" => new.format = "legacy"
             /\ mode # "legacy" /\ (old = None \/ old.format = "encrypted" \/ mode = "strict"
                                     \/ DOMAIN job[a].plain # {}) =>
                   new.format = "encrypted"
             /\ \A f \in Fields : new.cells[f] # None /\ new.cells[f].key # None =>
                   \/ f \in DOMAIN job[a].cells /\ new.cells[f] = job[a].cells[f]
                   \/ old # None /\ old.cells[f] # None /\ new.cells[f] = old.cells[f]
             /\ \A f \in Fields : f \notin DOMAIN job[a].plain /\ old # None => new.cells[f] = old.cells[f]
<1> DEFINE j == job[a]
           old == rows[j.row]
           new == Stored(j)
           empty == [f \in Fields |-> None]
           base == IF old = None THEN empty ELSE old.cells
           cs == Cells(j)
<1>1. TypeOK /\ RowsFit /\ JobFits(a) /\ j \in JobSet /\ old \in RowSet \cup {None}
  BY DEF IInv, Shapes, TypeOK
<1>2. base \in [Fields -> CellSet \cup {None}]
  BY <1>1 DEF RowSet
<1>3. /\ DOMAIN j.plain \subseteq Fields /\ \A f \in DOMAIN j.plain : j.plain[f] \in Texts
      /\ DOMAIN j.cells \subseteq DOMAIN j.plain
      /\ \A f \in DOMAIN j.cells : j.cells[f] \in CipherSet /\ j.cells[f].text = j.plain[f]
  BY <1>1 DEF JobSet, TypeOK, JobFits
<1>4. CipherSet \subseteq CellSet /\ \A c \in CipherSet : c.key # None
  BY NoneDiffers DEF CipherSet, CellSet, Versions
<1>5. ASSUME NEW f \in DOMAIN j.plain
      PROVE  /\ cs[f] \in CellSet /\ cs[f] # None /\ cs[f].text = j.plain[f]
             /\ j.enc => cs[f].key # None /\ f \in DOMAIN j.cells /\ cs[f] = j.cells[f]
             /\ ~j.enc => cs[f].key = None
  <2>1. CASE j.enc
    <3>1. f \in DOMAIN j.cells /\ cs = j.cells
      BY <2>1 DEF Unsealed, Cells
    <3>2. cs[f] \in CipherSet /\ cs[f].text = j.plain[f]
      BY <1>3, <3>1
    <3>3. QED
      BY <1>4, <2>1, <3>1, <3>2, NoneDiffers
  <2>2. CASE ~j.enc
    <3>1. cs[f] = Plain(j.plain[f])
      BY <2>2 DEF Cells
    <3>2. QED
      BY <1>3, <2>2, <3>1, PlainIsCell
  <2>3. QED
    BY <2>1, <2>2
<1>6. DOMAIN cs = DOMAIN j.plain
  BY <1>3 DEF Cells, Unsealed
<1>7. new = [format |-> IF DOMAIN j.plain = {} THEN old.format
                        ELSE IF j.enc THEN "encrypted" ELSE "legacy",
             cells |-> Over(base, cs),
             running |-> j.row \in Generations /\ j.kind = "insert"]
  BY DEF Stored
<1> HIDE DEF base, cs, new
<1>8. /\ Over(base, cs) \in [Fields -> CellSet \cup {None}]
      /\ \A f \in Fields : Over(base, cs)[f] = IF f \in DOMAIN j.plain THEN cs[f] ELSE base[f]
  BY <1>2, <1>5, <1>6 DEF Over
<1>9. \A f \in Fields : new.cells[f] = IF f \in DOMAIN j.plain THEN cs[f] ELSE base[f]
  BY <1>7, <1>8
<1>10. new.format = IF DOMAIN j.plain = {} THEN old.format ELSE IF j.enc THEN "encrypted" ELSE "legacy"
  BY <1>7
<1>11. new \in RowSet /\ new # None
  <2>1. new.format \in {"legacy", "encrypted"}
    BY <1>1, <1>10 DEF RowSet
  <2>2. (j.row \in Generations /\ j.kind = "insert") \in BOOLEAN
    BY Zenon
  <2>3. new \in RowSet
    BY <1>7, <1>8, <1>10, <2>1, <2>2 DEF RowSet
  <2>4. QED
    BY <2>3, NoneDiffers
<1>12. \A f \in Fields : Text(new.cells[f]) =
          IF f \in DOMAIN j.plain THEN j.plain[f] ELSE IF old = None THEN None ELSE Text(old.cells[f])
  BY <1>5, <1>9 DEF Text, base
<1>13. mode = "legacy" => new.format = "legacy"
  BY <1>1, <1>10 DEF RowsFit, JobFits
<1>14. mode # "legacy" /\ (old = None \/ old.format = "encrypted" \/ mode = "strict"
                            \/ DOMAIN j.plain # {}) => new.format = "encrypted"
  BY <1>1, <1>10 DEF Accepted, RowSet
<1>15. \A f \in Fields : new.cells[f] # None /\ new.cells[f].key # None =>
          \/ f \in DOMAIN j.cells /\ new.cells[f] = j.cells[f]
          \/ old # None /\ old.cells[f] # None /\ new.cells[f] = old.cells[f]
  BY <1>5, <1>9 DEF base
<1>16. ASSUME NEW f \in Fields, new.cells[f] # None
       PROVE  (new.cells[f].key # None) = (new.format = "encrypted")
  <2>1. old # None => \A g \in Fields : old.cells[g] # None =>
           (old.cells[g].key # None) = (old.format = "encrypted")
    BY <1>1 DEF TypeOK, Populated
  <2>2. CASE f \in DOMAIN j.plain
    BY <1>5, <1>9, <1>10, <2>2
  <2>3. CASE f \notin DOMAIN j.plain
    <3>1. old # None /\ old.cells[f] # None /\ new.cells[f] = old.cells[f]
      BY <1>9, <1>16, <2>3 DEF base
    <3>2. new.format = old.format
      <4>1. CASE DOMAIN j.plain = {}
        BY <1>10, <4>1
      <4>2. CASE DOMAIN j.plain # {} /\ mode = "legacy"
        BY <1>1, <1>13, <3>1, <4>2 DEF RowsFit
      <4>3. CASE DOMAIN j.plain # {} /\ mode # "legacy"
        <5>1. old.format # "legacy"
          BY <1>16, <2>3, <3>1, <4>3 DEF Accepted, Populated
        <5>2. QED
          BY <1>1, <1>14, <3>1, <4>3, <5>1 DEF RowSet
      <4>4. QED
        BY <4>1, <4>2, <4>3
    <3>3. QED
      BY <2>1, <3>1, <3>2
  <2>4. QED
    BY <2>2, <2>3
<1>17. \A f \in Fields : f \notin DOMAIN j.plain /\ old # None => new.cells[f] = old.cells[f]
  BY <1>9 DEF base
<1>18. QED
  BY <1>11, <1>12, <1>13, <1>14, <1>15, <1>16, <1>17 DEF new

\* An encrypted signal that finds its row writes no text.
LEMMA ExcludedFits ==
  ASSUME IInv, NEW a \in Actors, job[a].row \in Rows, Conflicts(job[a])
  PROVE  LET old == rows[job[a].row]
             new == Stored(job[a])
         IN  /\ new \in RowSet /\ new # None /\ mode # "legacy" /\ new.format = "encrypted"
             /\ \A f \in Fields : new.cells[f] # None =>
                   new.cells[f].key # None /\ old.cells[f] # None /\ new.cells[f] = old.cells[f]
<1> DEFINE old == rows[job[a].row]
           cells == [f \in Fields |-> IF old.format = "legacy" THEN None ELSE old.cells[f]]
           new == [old EXCEPT !.format = "encrypted", !.cells = cells]
<1>1. TypeOK /\ old \in RowSet /\ JobFits(a)
  BY DEF IInv, Shapes, TypeOK, Conflicts
<1>2. \A f \in Fields : old.cells[f] # None => (old.cells[f].key # None) = (old.format = "encrypted")
  BY <1>1, NoneDiffers DEF TypeOK, Populated
<1>3. Stored(job[a]) = new
  BY DEF Stored, Excluded
<1>4. cells \in [Fields -> CellSet \cup {None}]
  BY <1>1 DEF RowSet
<1>5. new \in RowSet /\ new # None /\ new.format = "encrypted" /\ new.cells = cells
  <2> HIDE DEF cells
  <2>1. new \in RowSet /\ new.format = "encrypted" /\ new.cells = cells
    BY <1>1, <1>4 DEF RowSet
  <2>2. QED
    BY <2>1, NoneDiffers
<1>6. \A f \in Fields : cells[f] # None =>
         cells[f].key # None /\ old.cells[f] # None /\ cells[f] = old.cells[f]
  BY <1>1, <1>2 DEF RowSet
<1>7. mode # "legacy"
  BY <1>1 DEF JobFits, Conflicts
<1>8. QED
  BY <1>3, <1>5, <1>6, <1>7

\* A request that relies on row r as it is.
Relies(b, r) ==
    /\ job[b].row = r
    /\ \/ job[b].kind \in {"insert", "save", "finish"} /\ Past(b)
       \/ job[b].pc = "commit"

\* A row is written or erased by the process that may, which is done with it.
Writes(a, r, new) ==
    /\ present /\ rows' = [rows EXCEPT ![r] = new] /\ job' = [job EXCEPT ![a] = Idle]
    /\ UNCHANGED <<mode, present, keyring, cache>>
    /\ said' \in [Rows -> [Fields -> Texts \cup {None}]]
    /\ \A q \in Rows \ {r} : said'[q] = said[q] /\ (q \in dropped' <=> q \in dropped)
    /\ dropped' \subseteq Signals
    /\ r \in dropped' => new # None /\ new.format = "encrypted"
    /\ new # None /\ r \notin dropped' => \A f \in Fields : Text(new.cells[f]) = said'[r][f]
    /\ new = None => \A f \in Fields : said'[r][f] = None
    /\ \A f \in Fields : new # None /\ new.cells[f] # None =>
          (new.cells[f].key # None) = (new.format = "encrypted")
    /\ new # None /\ mode = "legacy" => new.format = "legacy"
    /\ new # None /\ mode # "legacy" =>
          \/ new.format = "encrypted"
          \/ /\ rows[r] # None /\ rows[r].format = "legacy"
             /\ new.cells = rows[r].cells /\ said'[r] = said[r]
    /\ \A f \in Fields : new # None /\ new.cells[f] # None /\ new.cells[f].key # None =>
          \/ f \in DOMAIN job[a].cells /\ new.cells[f] = job[a].cells[f]
          \/ rows[r] # None /\ rows[r].cells[f] # None /\ new.cells[f] = rows[r].cells[f]
    /\ userLock' \in Servers \cup {None} /\ rowLock' \in [Rows -> Servers \cup {None}]
    /\ control' \subseteq Servers
    /\ \A b \in Actors \ {a} :
          /\ userLock = b => userLock' = b
          /\ \A q \in Rows : rowLock[q] = b => rowLock'[q] = b
          /\ b \in control => b \in control'
          /\ ~Relies(b, r)

LEMMA RowWritten ==
  ASSUME IInv, NEW a \in Actors, NEW r \in Rows, NEW new \in RowSet \cup {None}, Writes(a, r, new)
  PROVE  IInv'
<1> USE DEF Writes
<1>1. /\ TypeOK /\ job \in [Actors -> JobSet] /\ RowsFit /\ TextsKept /\ CiphersFit /\ KeysFit
      /\ rows \in [Rows -> RowSet \cup {None}]
  BY DEF IInv, Shapes, TypeOK
<1>2. /\ job'[a] = Idle /\ \A b \in Actors \ {a} : job'[b] = job[b]
      /\ rows'[r] = new /\ \A q \in Rows \ {r} : rows'[q] = rows[q]
      /\ UNCHANGED <<deks, writeKey, nonces>>
  BY <1>1, NoneDiffers DEF keyring
<1>3. TypeOK'
  <2>1. \A b \in Actors :
          /\ job'[b].row \in Rows \cup {None} /\ job'[b].ver \in 0..MaxVersion
          /\ job'[b].key \in Keys \cup {None} /\ job'[b].tries \in 0..Attempts
          /\ DOMAIN job'[b].cells \subseteq DOMAIN job'[b].plain
          /\ DOMAIN job'[b].plain \subseteq Fields
    BY <1>1, <1>2, IdleIsJob DEF TypeOK, JobSet
  <2>2. rows' \in [Rows -> RowSet \cup {None}]
    BY <1>1
  <2>3. \A q \in Rows : rows'[q] # None =>
          \A f \in Populated(rows'[q]) : (rows'[q].cells[f].key # None) = (rows'[q].format = "encrypted")
    BY <1>1, <1>2 DEF TypeOK, Populated
  <2>4. QED
    BY <1>1, <1>2, <2>1, <2>2, <2>3 DEF TypeOK
<1>4. Shapes'
  <2>1. job' \in [Actors -> JobSet]
    BY <1>1, IdleIsJob
  <2>2. QED
    BY <1>2, <1>3, <2>1 DEF IInv, Shapes
<1>5. KeysFit'
  BY <1>1, <1>2 DEF KeysFit
<1>6. mode # "legacy" => Legacy' \subseteq Legacy
  BY <1>2 DEF Legacy
<1>7. RowsFit'
  <2>1. mode = "strict" => Legacy' = {}
    BY <1>1, <1>6 DEF RowsFit
  <2>2. \A q \in Rows : rows'[q] = None => \A f \in Fields : said'[q][f] = None
    BY <1>1, <1>2 DEF RowsFit
  <2>3. \A q \in dropped' : rows'[q] # None /\ rows'[q].format = "encrypted"
    <3>1. dropped' \subseteq Rows
      BY DEF Rows
    <3>2. QED
      BY <1>1, <1>2, <3>1 DEF RowsFit
  <2>4. QED
    BY <1>1, <1>2, <2>1, <2>2, <2>3 DEF RowsFit
<1>8. TextsKept'
  BY <1>1, <1>2 DEF TextsKept, Kept
<1>9. CiphersFit'
  <2>1. ASSUME NEW c, RowCipher(c)' PROVE Cipher(c)
    <3>1. PICK q \in Rows, f \in Fields :
             rows'[q] # None /\ rows'[q].cells[f] # None /\ rows'[q].cells[f].key # None /\ c = rows'[q].cells[f]
      BY <2>1 DEF RowCipher
    <3>2. CASE q = r
      BY <1>2, <3>1, <3>2 DEF Cipher, RowCipher, JobCipher
    <3>3. CASE q # r
      BY <1>2, <3>1, <3>3 DEF Cipher, RowCipher
    <3>4. QED
      BY <3>2, <3>3
  <2>2. \A c : JobCipher(c)' => JobCipher(c)
    BY <1>2, IdleIsJob DEF JobCipher
  <2>3. QED
    BY <1>1, <1>2, <2>1, <2>2, CiphersStayFit DEF Cipher
<1>10. ASSUME NEW b \in Actors, b # a PROVE JobFits(b)'
  <2>1. JobFits(b) /\ job'[b] = job[b] /\ job[b] \in JobSet
    BY <1>1, <1>2, <1>10 DEF IInv
  <2>2. /\ job[b].kind = "none" => job[b].pc = "idle"
        /\ job[b].kind \in {"backfill", "rotate", "mode"} <=> b = Operator /\ job[b].kind # "none"
        /\ job[b].kind \in {"insert", "save", "signal", "finish"} =>
              /\ job[b].row \in Rows /\ (job[b].pc = "lock" \/ Past(b))
              /\ job[b].kind = "signal" <=> job[b].row \in Signals
        /\ job[b].pc = "lock" => job[b].cells = Nothing /\ b \in Servers
        /\ job[b].kind = "delete" => job[b].pc = "lock" \/ (job[b].pc = "rows" /\ userLock = b)
        /\ job[b].kind = "rotate" => job[b].pc = "rotate" /\ job[b].ver \in Versions
        /\ job[b].kind = "mode" =>
              job[b].pc = "modewait" /\ (job[b].snap /\ mode = "encrypting" => Legacy = {})
        /\ mode = "legacy" => ~job[b].enc
        /\ Past(b) /\ ~job[b].enc => job[b].pc \in {"seal", "commit"} /\ job[b].cells = Nothing
        /\ job[b].pc \in {"keyless", "keywait"} => Unsealed(job[b]) # {}
        /\ \A f \in DOMAIN job[b].cells : job[b].cells[f].text = job[b].plain[f]
    BY <2>1 DEF JobFits
  <2>3. job[b].pc = "nonce" => /\ job[b].ver \in Versions /\ Unsealed(job[b]) # {}
                               /\ present => job[b].key = deks[job[b].ver] /\ job[b].key # None
    BY <2>1 DEF JobFits
  <2>4. job[b].pc = "commit" =>
            /\ job[b].kind \in {"insert", "save", "signal", "finish"} /\ b \in control' /\ Accepted(job[b])'
            /\ job[b].enc => Unsealed(job[b]) = {}
    <3>1. job[b].pc = "commit" => job[b].row \in Rows \ {r}
      BY <1>10, <2>1, <2>2 DEF JobFits, Past, Relies
    <3>2. QED
      BY <1>2, <1>10, <2>1, <3>1 DEF JobFits, Accepted, Populated
  <2>5. InsertFits(b)' /\ SaveFits(b)' /\ SignalFits(b)' /\ FinishFits(b)'
    <3>1. InsertFits(b)'
      BY <1>2, <1>10, <2>1 DEF JobFits, InsertFits, Past, Relies
    <3>2. SaveFits(b)'
      BY <1>2, <1>10, <2>1 DEF JobFits, SaveFits, Past, Relies
    <3>3. FinishFits(b)'
      BY <1>2, <1>10, <2>1 DEF JobFits, FinishFits, Past, Relies
    <3>4. SignalFits(b)'
      BY <1>2, <1>10, <2>1, <2>2 DEF JobFits, SignalFits, Past
    <3>5. QED
      BY <3>1, <3>2, <3>3, <3>4
  <2>6. BackfillFits(b)'
    <3> SUFFICES ASSUME job[b].kind = "backfill" PROVE BackfillFits(b)'
      BY <2>1 DEF BackfillFits
    <3>1. /\ job[b].pc \in {"seal", "keyless", "keywait", "nonce"} /\ job[b].enc /\ mode # "legacy"
          /\ job[b].row \in Rows
          /\ job[b].row \in Legacy =>
             /\ DOMAIN job[b].plain = Populated(rows[job[b].row])
             /\ \A f \in DOMAIN job[b].plain : job[b].plain[f] = said[job[b].row][f]
      BY <2>1 DEF JobFits, BackfillFits
    <3>2. CASE job[b].row = r /\ job[b].row \in Legacy'
      <4>1. new # None /\ rows[r] # None /\ rows[r].format = "legacy" /\ new.cells = rows[r].cells
            /\ said'[r] = said[r]
        BY <1>2, <3>1, <3>2 DEF Legacy
      <4>2. r \in Legacy /\ Populated(rows[r]) = Populated(new)
        BY <4>1 DEF Legacy, Populated
      <4>3. QED
        BY <1>2, <2>1, <3>1, <3>2, <4>1, <4>2 DEF BackfillFits, Populated
    <3>3. CASE job[b].row # r /\ job[b].row \in Legacy'
      <4>1. job[b].row \in Legacy /\ rows'[job[b].row] = rows[job[b].row] /\ said'[job[b].row] = said[job[b].row]
        BY <1>2, <3>1, <3>3 DEF Legacy
      <4>2. QED
        BY <2>1, <3>1, <4>1 DEF BackfillFits, Populated
    <3>4. CASE job[b].row \notin Legacy'
      BY <2>1, <3>1, <3>4 DEF BackfillFits
    <3>5. QED
      BY <3>2, <3>3, <3>4
  <2>7. (Past(b)' <=> Past(b)) /\ Unsealed(job[b])' = Unsealed(job[b])
    BY <2>1 DEF Past, Unsealed
  <2>8. job[b].kind = "delete" /\ job[b].pc = "rows" => userLock' = b
    BY <1>10, <2>2
  <2>9. job[b].snap /\ mode = "encrypting" /\ job[b].kind = "mode" => Legacy' = {}
    BY <1>6, <2>2
  <2>10. QED
    BY <1>2, <2>1, <2>2, <2>3, <2>4, <2>5, <2>6, <2>7, <2>8, <2>9 DEF JobFits
<1>11. JobFits(a)'
  BY <1>2, IdleFits
<1>12. QED
  BY <1>4, <1>5, <1>7, <1>8, <1>9, <1>10, <1>11 DEF IInv

LEMMA CommitKeeps ==
  ASSUME IInv, NEW a \in Servers, Commit(a)
  PROVE  IInv'
<1> DEFINE j == job[a]
           r == job[a].row
           new == Stored(j)
           told == [f \in j.target |-> j.plain[f]]
<1>1. TypeOK /\ job \in [Actors -> JobSet] /\ a \in Actors /\ a # Operator /\ JobFits(a) /\ KeysFit
      /\ RowsFit /\ TextsKept
  BY NoneDiffers DEF IInv, Shapes
<1>2. /\ Past(a) /\ j.kind \in {"insert", "save", "signal", "finish"} /\ r \in Rows /\ Accepted(j)
      /\ j.enc => Unsealed(j) = {}
  BY <1>1 DEF Commit, JobFits, Past
<1>3. /\ j.target \subseteq DOMAIN j.plain
      /\ \A f \in DOMAIN j.plain \ j.target : j.plain[f] = said[r][f]
      /\ rows[r] # None \/ DOMAIN j.plain # {}
      /\ j.kind = "signal" <=> r \in Signals
      /\ j.kind = "signal" => DOMAIN j.plain # {}
  <2>1. j.pc = "commit"
    BY DEF Commit
  <2>2. QED
    BY <1>1, <1>2, <2>1 DEF JobFits, InsertFits, SaveFits, SignalFits, FinishFits
<1>4. ASSUME ~Conflicts(j)
      PROVE  /\ new \in RowSet /\ new # None
             /\ \A f \in Fields : new.cells[f] # None => (new.cells[f].key # None) = (new.format = "encrypted")
             /\ \A f \in Fields : Text(new.cells[f]) =
                   IF f \in DOMAIN j.plain THEN j.plain[f]
                   ELSE IF rows[r] = None THEN None ELSE Text(rows[r].cells[f])
             /\ mode = "legacy" => new.format = "legacy"
             /\ mode # "legacy" /\ (rows[r] = None \/ rows[r].format = "encrypted" \/ mode = "strict"
                                     \/ DOMAIN j.plain # {}) => new.format = "encrypted"
             /\ \A f \in Fields : new.cells[f] # None /\ new.cells[f].key # None =>
                   \/ f \in DOMAIN j.cells /\ new.cells[f] = j.cells[f]
                   \/ rows[r] # None /\ rows[r].cells[f] # None /\ new.cells[f] = rows[r].cells[f]
             /\ \A f \in Fields : f \notin DOMAIN j.plain /\ rows[r] # None => new.cells[f] = rows[r].cells[f]
  BY <1>1, <1>2, <1>3, <1>4, StoredFits
<1>5. ASSUME Conflicts(j)
       PROVE  /\ new \in RowSet /\ new # None /\ mode # "legacy" /\ new.format = "encrypted"
              /\ rows[r] # None /\ r \in Signals
              /\ \A f \in Fields : new.cells[f] # None =>
                    new.cells[f].key # None /\ rows[r].cells[f] # None /\ new.cells[f] = rows[r].cells[f]
  BY <1>1, <1>2, <1>3, <1>5, ExcludedFits DEF Conflicts
<1>6. ~Conflicts(j) => r \notin dropped
  <2> SUFFICES ASSUME ~Conflicts(j), r \in dropped PROVE FALSE
    OBVIOUS
  <2>1. rows[r] # None /\ rows[r].format = "encrypted" /\ r \in Signals
    BY <1>1 DEF RowsFit, TypeOK
  <2>2. j.kind = "signal" /\ ~j.enc
    BY <1>3, <2>1 DEF Conflicts
  <2>3. mode = "legacy"
    BY <1>2, <1>3, <2>2 DEF Accepted
  <2>4. QED
    BY <1>1, <1>2, <2>1, <2>3 DEF RowsFit
<1>7. /\ rows' = [rows EXCEPT ![r] = new] /\ said' = [said EXCEPT ![r] = Over(@, told)]
      /\ Abort(a) /\ UNCHANGED <<mode, present, keyring, cache>>
      /\ dropped' = dropped \cup (IF Conflicts(j) THEN {r} ELSE {})
  BY DEF Commit
<1> HIDE DEF new
<1>8. /\ said \in [Rows -> [Fields -> Texts \cup {None}]]
      /\ \A f \in DOMAIN j.plain : j.plain[f] \in Texts /\ f \in Fields
  BY <1>1 DEF IInv, Shapes, JobSet, TypeOK
<1>9. Over(said[r], told) = [f \in Fields |-> IF f \in j.target THEN j.plain[f] ELSE said[r][f]]
  BY <1>2, <1>8 DEF Over
<1> HIDE DEF told
<1>10. /\ said' \in [Rows -> [Fields -> Texts \cup {None}]] /\ \A q \in Rows \ {r} : said'[q] = said[q]
      /\ \A f \in Fields : said'[r][f] = IF f \in j.target THEN j.plain[f] ELSE said[r][f]
  <2>1. Over(said[r], told) \in [Fields -> Texts \cup {None}]
    BY <1>2, <1>3, <1>8, <1>9
  <2>2. QED
    BY <1>2, <1>7, <1>8, <1>9, <2>1
<1>11. r \notin dropped' => \A f \in Fields : Text(new.cells[f]) = said'[r][f]
  <2> SUFFICES ASSUME r \notin dropped', NEW f \in Fields PROVE Text(new.cells[f]) = said'[r][f]
    OBVIOUS
  <2>1. ~Conflicts(j) /\ r \in Rows \ dropped
    BY <1>2, <1>7, <1>6
  <2>2. IF rows[r] = None THEN said[r][f] = None ELSE Text(rows[r].cells[f]) = said[r][f]
    BY <1>1, <2>1 DEF RowsFit, TextsKept, Kept
  <2>3. QED
    BY <1>3, <1>4, <1>10, <2>1, <2>2
<1>12. mode # "legacy" =>
         \/ new.format = "encrypted"
         \/ /\ rows[r] # None /\ rows[r].format = "legacy"
            /\ new.cells = rows[r].cells /\ said'[r] = said[r]
  <2> SUFFICES ASSUME mode # "legacy", new.format # "encrypted"
               PROVE  /\ rows[r] # None /\ rows[r].format = "legacy"
                      /\ new.cells = rows[r].cells /\ said'[r] = said[r]
    OBVIOUS
  <2>1. rows[r] # None /\ rows[r].format # "encrypted" /\ DOMAIN j.plain = {} /\ ~Conflicts(j)
    BY <1>4, <1>5
  <2>2. rows[r] \in RowSet
    BY <1>1, <1>2, <2>1 DEF TypeOK
  <2>3. new.cells = rows[r].cells
    BY <1>4, <2>1, <2>2 DEF RowSet
  <2>4. said'[r] = said[r]
    BY <1>2, <1>3, <1>8, <1>10, <2>1
  <2>5. QED
    BY <2>1, <2>2, <2>3, <2>4 DEF RowSet
<1>13. \A b \in Actors \ {a} : ~Relies(b, r)
  <2> SUFFICES ASSUME NEW b \in Actors \ {a}, Relies(b, r) PROVE FALSE
    OBVIOUS
  <2>1. JobFits(b) /\ job[b].row = r /\ Past(b) /\ job[b].kind \in {"insert", "save", "signal", "finish"}
    BY DEF IInv, Relies, JobFits, Past
  <2>2. \/ userLock = a /\ rows[r] = None /\ r \notin Signals
        \/ rowLock[r] = a /\ rows[r] # None
        \/ rowLock[r] = a /\ r \in Signals
    BY <1>1, <1>2, <1>3 DEF JobFits, InsertFits, SaveFits, SignalFits, FinishFits
  <2>3. \/ userLock = b /\ rows[r] = None /\ r \notin Signals
        \/ rowLock[r] = b /\ rows[r] # None
        \/ rowLock[r] = b /\ r \in Signals
    BY <2>1 DEF JobFits, InsertFits, SaveFits, SignalFits, FinishFits
  <2>4. QED
    BY <2>2, <2>3
<1>14. present
  <2>1. rows[r] # None \/ present
    BY <1>1, <1>2 DEF JobFits, InsertFits, SaveFits, SignalFits, FinishFits
  <2>2. QED
    BY <1>1, <1>2, <2>1 DEF RowsFit
<1>15. /\ job' = [job EXCEPT ![a] = Idle] /\ userLock' \in Servers \cup {None}
       /\ rowLock' \in [Rows -> Servers \cup {None}] /\ control' \subseteq Servers
  BY <1>1, <1>7 DEF Abort, Release, TypeOK
<1>16. \A b \in Actors \ {a} :
          /\ userLock = b => userLock' = b
          /\ \A q \in Rows : rowLock[q] = b => rowLock'[q] = b
          /\ b \in control => b \in control'
          /\ ~Relies(b, r)
  BY <1>7, <1>13 DEF Abort, Release
<1>17. /\ dropped' \subseteq Signals /\ \A q \in Rows \ {r} : q \in dropped' <=> q \in dropped
       /\ r \in dropped' => new.format = "encrypted"
  BY <1>1, <1>7, <1>5, <1>6 DEF TypeOK
<1>18. /\ \A f \in Fields : new.cells[f] # None => (new.cells[f].key # None) = (new.format = "encrypted")
       /\ mode = "legacy" => new.format = "legacy"
  <2>1. CASE Conflicts(j)
    BY <1>5, <2>1
  <2>2. CASE ~Conflicts(j)
    BY <1>4, <2>2
  <2>3. QED
    BY <2>1, <2>2
<1> HIDE DEF r, j
<1>19. /\ r \in Rows /\ new \in RowSet /\ new # None
       /\ \A f \in Fields : new.cells[f] # None /\ new.cells[f].key # None =>
            \/ f \in DOMAIN job[a].cells /\ new.cells[f] = job[a].cells[f]
            \/ rows[r] # None /\ rows[r].cells[f] # None /\ new.cells[f] = rows[r].cells[f]
  BY <1>2, <1>4, <1>5 DEF j
<1>20. Writes(a, r, new)
  BY <1>7, <1>10, <1>11, <1>12, <1>14, <1>15, <1>16, <1>19, <1>17, <1>18 DEF Writes
<1>21. QED
  BY <1>1, <1>19, <1>20, RowWritten

LEMMA EraseSignalKeeps ==
  ASSUME IInv, NEW a \in Servers, EraseSignal(a)
  PROVE  IInv'
<1> DEFINE r == job[a].row
<1>1. TypeOK /\ a \in Actors /\ a # Operator /\ JobFits(a) /\ job[a].kind = "signal" /\ Past(a)
      /\ said \in [Rows -> [Fields -> Texts \cup {None}]]
  BY NoneDiffers DEF IInv, Shapes, EraseSignal, Erases, Ready, Past
<1>2. r \in Rows /\ r \in Signals /\ present /\ rowLock[r] = a
  BY <1>1 DEF JobFits, SignalFits
<1>3. /\ rows' = [rows EXCEPT ![r] = None] /\ said' = [said EXCEPT ![r] = [f \in Fields |-> None]]
      /\ dropped' = dropped \ {r} /\ Abort(a) /\ UNCHANGED <<mode, present, keyring, cache>>
  BY DEF EraseSignal
<1>4. /\ job' = [job EXCEPT ![a] = Idle] /\ userLock' \in Servers \cup {None}
      /\ rowLock' \in [Rows -> Servers \cup {None}] /\ control' \subseteq Servers
  BY <1>1, <1>3 DEF Abort, Release, TypeOK
<1>5. /\ said' \in [Rows -> [Fields -> Texts \cup {None}]] /\ \A q \in Rows \ {r} : said'[q] = said[q]
      /\ \A f \in Fields : said'[r][f] = None
  <2>1. [f \in Fields |-> None] \in [Fields -> Texts \cup {None}]
    OBVIOUS
  <2>2. QED
    BY <1>1, <1>2, <1>3, <2>1
<1>6. ASSUME NEW b \in Actors \ {a}, Relies(b, r) PROVE FALSE
  <2>1. JobFits(b) /\ job[b].row = r /\ Past(b) /\ job[b].kind \in {"insert", "save", "signal", "finish"}
    BY <1>6 DEF IInv, Relies, JobFits, Past
  <2>2. QED
    BY <1>2, <2>1 DEF JobFits, SignalFits
<1>7. \A b \in Actors \ {a} :
         /\ userLock = b => userLock' = b
         /\ \A q \in Rows : rowLock[q] = b => rowLock'[q] = b
         /\ b \in control => b \in control'
         /\ ~Relies(b, r)
  BY <1>3, <1>6 DEF Abort, Release
<1>8. dropped' \subseteq Signals /\ r \notin dropped' /\ \A q \in Rows \ {r} : q \in dropped' <=> q \in dropped
  BY <1>1, <1>3 DEF TypeOK
<1> HIDE DEF r
<1>9. Writes(a, r, None)
  BY <1>2, <1>3, <1>4, <1>5, <1>7, <1>8 DEF Writes
<1>10. QED
  BY <1>1, <1>2, <1>9, RowWritten

\* When the user goes, the requests that are left wait for their first lock,
\* and a backfill finds no row.
LEMMA DeleteUserKeeps ==
  ASSUME IInv, NEW a \in Servers, DeleteUser(a)
  PROVE  IInv'
<1>1. TypeOK /\ job \in [Actors -> JobSet] /\ a \in Actors /\ a # Operator /\ JobFits(a) /\ CiphersFit
      /\ job[a] \in JobSet
  BY NoneDiffers DEF IInv, Shapes
<1>2. userLock = a /\ \A r \in Rows : rowLock[r] = None
  BY <1>1 DEF DeleteUser, JobFits, JobSet, Kinds, Past
<1>3. /\ job' = [job EXCEPT ![a] = Idle] /\ present' = FALSE /\ mode' = mode /\ cache' = cache
      /\ deks' = [v \in Versions |-> None] /\ writeKey' = 0 /\ nonces' = [v \in Versions |-> {}]
      /\ rows' = [r \in Rows |-> None] /\ said' = [r \in Rows |-> [f \in Fields |-> None]]
      /\ userLock' \in Servers \cup {None} /\ rowLock' \in [Rows -> Servers \cup {None}]
      /\ control' \subseteq Servers /\ dropped' = {}
  BY <1>1 DEF DeleteUser, Abort, Release, TypeOK
<1>4. job'[a] = Idle /\ \A b \in Actors \ {a} : job'[b] = job[b]
  BY <1>1, <1>3
<1>5. (\A r \in Rows : rows'[r] = None) /\ Legacy' = {}
  BY <1>3 DEF Legacy
<1>6. Shapes'
  <2>1. job' \in [Actors -> JobSet]
    BY <1>1, <1>3, IdleIsJob
  <2>2. \A b \in Actors :
          /\ job'[b].row \in Rows \cup {None} /\ job'[b].ver \in 0..MaxVersion
          /\ job'[b].key \in Keys \cup {None} /\ job'[b].tries \in 0..Attempts
          /\ DOMAIN job'[b].cells \subseteq DOMAIN job'[b].plain
          /\ DOMAIN job'[b].plain \subseteq Fields
    BY <1>1, <1>4, <2>1, IdleIsJob, ZenonT(40) DEF TypeOK, JobSet
  <2>3. nonces' \in [Versions -> SUBSET (Actors \X Nat)] /\ \A v \in Versions : IsFiniteSet(nonces'[v])
    BY <1>3, FS_EmptySet
  <2>4. deks' \in [Versions -> Keys \cup {None}] /\ writeKey' \in 0..MaxVersion
        /\ rows' \in [Rows -> RowSet \cup {None}] /\ present' \in BOOLEAN
        /\ said' \in [Rows -> [Fields -> Texts \cup {None}]]
    <3>1. 0 \in 0..MaxVersion
      BY ContentAssumption
    <3>2. [r \in Rows |-> [f \in Fields |-> None]] \in [Rows -> [Fields -> Texts \cup {None}]]
      OBVIOUS
    <3>3. QED
      BY <1>3, <3>1, <3>2
  <2>5. TypeOK'
    BY <1>1, <1>3, <1>5, <2>2, <2>3, <2>4 DEF TypeOK
  <2>6. QED
    BY <2>1, <2>3, <2>4, <2>5 DEF Shapes
<1>7. KeysFit'
  BY <1>3 DEF KeysFit
<1>8. RowsFit'
  BY <1>3, <1>5 DEF RowsFit
<1>9. TextsKept'
  BY <1>5 DEF TextsKept, Kept
<1>10. CiphersFit'
  <2>1. \A c : Cipher(c)' => Cipher(c)
    BY <1>4, <1>5, IdleIsJob DEF Cipher, RowCipher, JobCipher
  <2>2. QED
    BY <1>1, <1>3, <2>1, CiphersStayFit
<1>11. ASSUME NEW b \in Actors, b # a PROVE JobFits(b)'
  <2>1. JobFits(b) /\ job'[b] = job[b] /\ userLock # b /\ job[b] \in JobSet
    BY <1>1, <1>2, <1>4, <1>11 DEF IInv
  <2>2. ~(job[b].kind \in {"insert", "save", "signal", "finish"} /\ Past(b))
    BY <1>2, <2>1, NoneDiffers DEF JobFits, InsertFits, SaveFits, SignalFits, FinishFits
  <2>3. (Past(b)' <=> Past(b)) /\ Unsealed(job[b])' = Unsealed(job[b])
    BY <2>1 DEF Past, Unsealed
  <2>4. InsertFits(b)' /\ SaveFits(b)' /\ SignalFits(b)' /\ FinishFits(b)'
    BY <2>1, <2>2, <2>3 DEF InsertFits, SaveFits, SignalFits, FinishFits
  <2>5. BackfillFits(b)'
    BY <1>3, <1>5, <2>1 DEF JobFits, BackfillFits
  <2>6. job[b].pc # "commit" /\ ~(job[b].kind = "delete" /\ job[b].pc = "rows")
    BY <2>1, <2>2 DEF JobFits, Past
  <2>7. QED
    BY <1>3, <1>5, <2>1, <2>3, <2>4, <2>5, <2>6 DEF JobFits
<1>12. JobFits(a)'
  BY <1>1, <1>4, IdleFits
<1>13. QED
  BY <1>6, <1>7, <1>8, <1>9, <1>10, <1>11, <1>12 DEF IInv

LEMMA FailKeeps ==
  ASSUME IInv, NEW a \in Actors, Fail(a) \/ TimesOut(a)
  PROVE  IInv'
BY AbortKeeps DEF Fail, TimesOut

-----------------------------------------------------------------------------
(***************************************************************************)
(* The operator                                                            *)
(***************************************************************************)

LEMMA BackfillKeeps ==
  ASSUME IInv, NEW r \in Rows, Backfill(r)
  PROVE  IInv'
<1> DEFINE plain == [f \in Populated(rows[r]) |-> rows[r].cells[f].text]
           j == [Idle EXCEPT !.kind = "backfill", !.pc = "seal", !.row = r, !.enc = TRUE, !.plain = plain]
<1>1. TypeOK /\ job \in [Actors -> JobSet] /\ Operator \in Actors /\ TextsKept
      /\ rows[r] # None /\ rows[r] \in RowSet /\ r \in Rows \ dropped
  BY NoneDiffers DEF IInv, Shapes, TypeOK, Backfill, Legacy, RowsFit
<1>2. ASSUME NEW f \in Populated(rows[r])
      PROVE  f \in Fields /\ rows[r].cells[f].text \in Texts /\ rows[r].cells[f].text = said[r][f]
  <2>1. f \in Fields /\ rows[r].cells[f] # None /\ rows[r].cells[f] \in CellSet
    BY <1>1 DEF Populated, RowSet
  <2>2. QED
    BY <1>1, <2>1 DEF CellSet, TextsKept, Kept, Text
<1>3. plain \in UNION {[D -> Texts] : D \in SUBSET Fields} /\ DOMAIN plain = Populated(rows[r])
      /\ \A f \in DOMAIN plain : plain[f] = said[r][f]
  BY <1>2
<1> HIDE DEF plain
<1>4. /\ j \in JobSet /\ j.kind = "backfill" /\ j.pc = "seal" /\ j.row = r /\ j.enc /\ j.plain = plain
      /\ j.cells = Nothing
  BY <1>3, IdleIsJob DEF JobSet, Kinds, Places
<1> HIDE DEF j
<1>5. job' = [job EXCEPT ![Operator] = j] /\ UNCHANGED <<mode, present, keyring, rows, cache, said, dropped>>
      /\ UNCHANGED <<userLock, rowLock, control>> /\ mode = "encrypting"
  BY DEF Backfill, Becomes, locks, j, plain
<1>6. job'[Operator] = j
  BY <1>1, <1>5
<1>7. BackfillFits(Operator)'
  BY <1>3, <1>4, <1>5, <1>6 DEF BackfillFits, Legacy, Populated
<1>8. JobFits(Operator)'
  BY <1>4, <1>5, <1>6, <1>7, NoneDiffers, IdleIsJob DEF JobFits, InsertFits, SaveFits, SignalFits, FinishFits, Past
<1>9. DOMAIN j.cells \subseteq DOMAIN j.plain
  BY <1>4, IdleIsJob
<1>10. /\ userLock' \in Servers \cup {None} /\ rowLock' \in [Rows -> Servers \cup {None}]
       /\ control' \subseteq Servers
  BY <1>1, <1>5 DEF TypeOK
<1>11. QED
  BY <1>1, <1>4, <1>5, <1>8, <1>9, <1>10, JobMoves

\* The backfill writes the texts it read, if the row still is as it was read:
\* a save in between has made it an encrypted one, or has still its lock.
LEMMA BackfillCASKeeps ==
  ASSUME IInv, BackfillCAS
  PROVE  IInv'
<1> DEFINE a == Operator
           r == job[a].row
           st == Stored(job[a])
           new == [st EXCEPT !.running = rows[r].running]
<1>1. /\ TypeOK /\ job \in [Actors -> JobSet] /\ a \in Actors /\ JobFits(a) /\ KeysFit /\ RowsFit /\ TextsKept
      /\ job[a] \in JobSet /\ rows \in [Rows -> RowSet \cup {None}] /\ said \in [Rows -> [Fields -> Texts \cup {None}]]
  BY NoneDiffers DEF IInv, Shapes, TypeOK
<1>2. /\ job[a].kind = "backfill" /\ job[a].pc = "seal" /\ Ready(job[a]) /\ RowFree(r) /\ r \in Rows
      /\ job[a].enc /\ Unsealed(job[a]) = {} /\ Past(a) /\ mode # "legacy" /\ ~Conflicts(job[a])
      /\ r \in Legacy => /\ DOMAIN job[a].plain = Populated(rows[r])
                         /\ \A f \in DOMAIN job[a].plain : job[a].plain[f] = said[r][f]
  BY <1>1 DEF BackfillCAS, Ready, JobFits, BackfillFits, Past, Conflicts
<1>3. /\ job' = [job EXCEPT ![a] = Idle] /\ UNCHANGED <<mode, present, keyring, locks, cache, said, dropped>>
      /\ UNCHANGED <<userLock, rowLock, control>>
  BY DEF BackfillCAS, Becomes, locks
<1>4. CASE ~(StillLegacy(r) /\ Accepted(job[a]))
  <2>1. rows' = rows
    BY <1>4 DEF BackfillCAS
  <2>2. QED
    BY <1>1, <1>3, <2>1, IdleKeeps
<1>5. CASE StillLegacy(r) /\ Accepted(job[a])
  <2>1. rows' = [rows EXCEPT ![r] = new] /\ r \in Legacy /\ rows[r] # None /\ rows[r].format = "legacy"
        /\ rows[r] \in RowSet /\ r \notin dropped
    BY <1>1, <1>5 DEF BackfillCAS, StillLegacy, Legacy, RowsFit
  <2>2. /\ st \in RowSet
        /\ \A f \in Fields : st.cells[f] # None => (st.cells[f].key # None) = (st.format = "encrypted")
        /\ \A f \in Fields : Text(st.cells[f]) =
              IF f \in DOMAIN job[a].plain THEN job[a].plain[f]
              ELSE IF rows[r] = None THEN None ELSE Text(rows[r].cells[f])
        /\ mode # "legacy" /\ (rows[r] = None \/ rows[r].format = "encrypted" \/ mode = "strict"
                                \/ DOMAIN job[a].plain # {}) => st.format = "encrypted"
        /\ \A f \in Fields : st.cells[f] # None /\ st.cells[f].key # None =>
              \/ f \in DOMAIN job[a].cells /\ st.cells[f] = job[a].cells[f]
              \/ rows[r] # None /\ rows[r].cells[f] # None /\ st.cells[f] = rows[r].cells[f]
        /\ \A f \in Fields : f \notin DOMAIN job[a].plain /\ rows[r] # None => st.cells[f] = rows[r].cells[f]
    BY <1>1, <1>2, <1>5, <2>1, StoredFits
  <2> HIDE DEF st
  <2>3. new \in RowSet /\ new.cells = st.cells /\ new.format = st.format
    BY <2>1, <2>2 DEF RowSet
  <2> HIDE DEF new
  <2>4. \A f \in Fields : Text(st.cells[f]) = said[r][f]
    BY <1>1, <1>2, <2>1, <2>2 DEF TextsKept, Kept
  <2>5. st.format = "encrypted" \/ st.cells = rows[r].cells
    <3>1. CASE DOMAIN job[a].plain = {}
      BY <2>1, <2>2, <3>1 DEF RowSet
    <3>2. CASE DOMAIN job[a].plain # {}
      BY <1>2, <2>2, <3>2
    <3>3. QED
      BY <3>1, <3>2
  <2>6. present
    BY <1>1, <1>2, <2>1 DEF RowsFit
  <2>7. ASSUME NEW b \in Actors \ {a}, Relies(b, r) PROVE FALSE
    <3>1. JobFits(b) /\ job[b].row = r /\ Past(b) /\ job[b].kind \in {"insert", "save", "signal", "finish"}
          /\ b \in Servers
      BY <2>7, NoneDiffers DEF IInv, Relies, JobFits, Past
    <3>2. rowLock[r] = b
      BY <2>1, <3>1 DEF JobFits, InsertFits, SaveFits, SignalFits, FinishFits
    <3>3. job[b].kind = "signal" /\ job[b].pc # "commit"
      BY <1>2, <3>1, <3>2 DEF RowFree, JobFits
    <3>4. QED
      BY <2>7, <3>3 DEF Relies
  <2>8. /\ userLock' \in Servers \cup {None} /\ rowLock' \in [Rows -> Servers \cup {None}]
        /\ control' \subseteq Servers /\ UNCHANGED <<mode, present, keyring, cache>>
        /\ said' = said /\ dropped' = dropped /\ dropped \subseteq Signals
    BY <1>1, <1>3 DEF TypeOK
  <2>9. \A f \in Fields : new.cells[f] # None /\ new.cells[f].key # None =>
          \/ f \in DOMAIN job[a].cells /\ new.cells[f] = job[a].cells[f]
          \/ rows[r] # None /\ rows[r].cells[f] # None /\ new.cells[f] = rows[r].cells[f]
    BY <2>2, <2>3
  <2>10. Writes(a, r, new)
    <3> HIDE DEF a, r
    <3>1. \A f \in Fields : new.cells[f] # None =>
            (new.cells[f].key # None) = (new.format = "encrypted")
      BY <2>2, <2>3
    <3>2. \A f \in Fields : Text(new.cells[f]) = said'[r][f]
      BY <2>3, <2>4, <2>8
    <3>3. mode # "legacy" =>
            \/ new.format = "encrypted"
            \/ /\ rows[r] # None /\ rows[r].format = "legacy"
               /\ new.cells = rows[r].cells /\ said'[r] = said[r]
      BY <2>1, <2>3, <2>5, <2>8
    <3>4. \A b \in Actors \ {a} :
             /\ userLock = b => userLock' = b
             /\ \A q \in Rows : rowLock[q] = b => rowLock'[q] = b
             /\ b \in control => b \in control'
             /\ ~Relies(b, r)
      BY <1>3, <2>7
    <3>5. said' \in [Rows -> [Fields -> Texts \cup {None}]] /\ \A q \in Rows \ {r} : said'[q] = said[q]
      BY <1>1, <2>8
    <3>6. new # None /\ new.format \in {"legacy", "encrypted"}
      BY <2>3, NoneDiffers DEF RowSet
    <3>7. QED
      BY <1>2, <1>3, <2>1, <2>6, <2>8, <2>9, <3>1, <3>2, <3>3, <3>4, <3>5, <3>6 DEF Writes
  <2>11. QED
    BY <1>1, <1>2, <2>3, <2>10, RowWritten
<1>6. QED
  BY <1>4, <1>5

LEMMA RotateKeeps ==
  ASSUME IInv, Rotate
  PROVE  IInv'
<1> DEFINE j == [Idle EXCEPT !.kind = "rotate", !.pc = "rotate", !.ver = writeKey + 1]
<1>1. TypeOK /\ job \in [Actors -> JobSet] /\ Operator \in Actors
  BY NoneDiffers DEF IInv, Shapes
<1>2. writeKey + 1 \in Versions /\ writeKey + 1 \in 0..MaxVersion
  BY ContentAssumption DEF Rotate, Versions
<1>3. /\ j \in JobSet /\ j.kind = "rotate" /\ j.pc = "rotate" /\ j.ver \in Versions /\ j.cells = Nothing
      /\ j.plain = Nothing /\ ~j.enc
  BY <1>2, IdleIsJob DEF JobSet, Kinds, Places
<1>4. job' = [job EXCEPT ![Operator] = j] /\ UNCHANGED <<mode, present, keyring, rows, cache, said, dropped>>
      /\ UNCHANGED <<userLock, rowLock, control>>
  BY DEF Rotate, Becomes, locks
<1> HIDE DEF j
<1>5. job'[Operator] = j
  BY <1>1, <1>4
<1>6. JobFits(Operator)'
  BY <1>3, <1>4, <1>5, NoneDiffers, IdleIsJob
     DEF JobFits, InsertFits, SaveFits, SignalFits, FinishFits, BackfillFits, Past
<1>7. /\ userLock' \in Servers \cup {None} /\ rowLock' \in [Rows -> Servers \cup {None}]
      /\ control' \subseteq Servers
  BY <1>1, <1>4 DEF TypeOK
<1>8. DOMAIN j.cells \subseteq DOMAIN j.plain
  BY <1>3
<1>9. QED
  BY <1>1, <1>3, <1>4, <1>6, <1>7, <1>8, JobMoves

\* The next key is stored under the next version, or not at all.
LEMMA StoreRotatedKeyKeeps ==
  ASSUME IInv, StoreRotatedKey
  PROVE  IInv'
<1> DEFINE v == job[Operator].ver
           k == <<Operator, job[Operator].ver>>
<1>1. TypeOK /\ job \in [Actors -> JobSet] /\ Operator \in Actors /\ JobFits(Operator) /\ KeysFit
      /\ job[Operator] \in JobSet
  BY NoneDiffers DEF IInv, Shapes
<1>2. v \in Versions /\ v \in Nat /\ v \in 0..MaxVersion
  <2>1. job[Operator].kind = "rotate"
    BY <1>1 DEF StoreRotatedKey, JobFits, BackfillFits, JobSet, Kinds, Past
  <2>2. QED
    BY <1>1, <2>1 DEF JobFits, JobSet, Versions
<1>3. job' = [job EXCEPT ![Operator] = Idle] /\ UNCHANGED <<mode, present, nonces, rows, locks, said, dropped>>
  BY DEF StoreRotatedKey, Becomes
<1>4. CASE ~(present /\ writeKey + 1 = v)
  <2>1. UNCHANGED <<mode, present, keyring, rows, locks, cache, said, dropped>>
    BY <1>3, <1>4 DEF StoreRotatedKey, keyring
  <2>2. QED
    BY <1>1, <1>3, <2>1, IdleKeeps
<1>5. CASE present /\ writeKey + 1 = v
  <2>1. /\ deks' = [deks EXCEPT ![v] = k] /\ writeKey' = v
        /\ cache' = [cache EXCEPT ![Operator][v] = k]
    BY <1>5 DEF StoreRotatedKey
  <2>2. writeKey \in Nat /\ v > writeKey /\ deks[v] = None /\ k \in Keys /\ k # None /\ k[2] = v
    BY <1>1, <1>2, <1>5, NoneDiffers DEF TypeOK, KeysFit, Keys
  <2> HIDE DEF k, v
  <2>3. \A w \in Versions : deks'[w] = IF w = v THEN k ELSE deks[w]
    BY <1>1, <1>2, <2>1 DEF TypeOK
  <2>4. \A b \in Actors, w \in Versions : cache'[b][w] = IF b = Operator /\ w = v THEN k ELSE cache[b][w]
    BY <1>1, <1>2, <2>1 DEF TypeOK
  <2>5. /\ deks' \in [Versions -> Keys \cup {None}] /\ writeKey' \in 0..MaxVersion
        /\ cache' \in [Actors -> [Versions -> Keys \cup {None}]]
    BY <1>1, <1>2, <2>1, <2>2 DEF TypeOK
  <2>6. \A w \in Versions : deks[w] # None => deks'[w] = deks[w]
    BY <2>2, <2>3
  <2>7. KeysFit'
    <3>1. \A w \in Versions : (w > v => deks'[w] = None) /\ (deks'[w] # None => deks'[w][2] = w)
      BY <1>1, <1>2, <2>2, <2>3 DEF KeysFit, Versions
    <3>2. \A b \in Actors, w \in Versions : cache'[b][w] \in {None, deks'[w]}
      BY <1>1, <1>5, <2>2, <2>3, <2>4 DEF KeysFit
    <3>3. QED
      BY <1>2, <1>3, <1>5, <2>1, <2>2, <2>3, <3>1, <3>2 DEF KeysFit
  <2>8. JobFits(Operator)'
    BY <1>1, <1>3, IdleFits
  <2>9. DOMAIN Idle.cells \subseteq DOMAIN Idle.plain
    BY IdleIsJob
  <2>10. QED
    BY <1>1, <1>3, <2>5, <2>6, <2>7, <2>8, <2>9, IdleIsJob, KeysGrow
<1>6. QED
  BY <1>4, <1>5

LEMMA AskForControlKeeps ==
  ASSUME IInv, AskForControl
  PROVE  IInv'
<1> DEFINE j == [Idle EXCEPT !.kind = "mode", !.pc = "modewait", !.snap = Done]
<1>1. TypeOK /\ job \in [Actors -> JobSet] /\ Operator \in Actors
  BY NoneDiffers DEF IInv, Shapes
<1>2. Done \in BOOLEAN
  BY Zenon DEF Done
<1>3. /\ j \in JobSet /\ j.kind = "mode" /\ j.pc = "modewait" /\ j.cells = Nothing
      /\ j.plain = Nothing /\ ~j.enc /\ j.snap = Done
  BY <1>2, IdleIsJob, ZenonT(40) DEF JobSet, Kinds, Places
<1>4. job' = [job EXCEPT ![Operator] = j] /\ UNCHANGED <<mode, present, keyring, rows, cache, said, dropped>>
      /\ UNCHANGED <<userLock, rowLock, control>>
  BY DEF AskForControl, Becomes, locks
<1> HIDE DEF j
<1>5. job'[Operator] = j
  BY <1>1, <1>4
<1>6. j.snap /\ mode = "encrypting" => Legacy = {}
  BY <1>3 DEF Done
<1>7. JobFits(Operator)'
  BY <1>3, <1>4, <1>5, <1>6, NoneDiffers, IdleIsJob
     DEF JobFits, InsertFits, SaveFits, SignalFits, FinishFits, BackfillFits, Past, Legacy
<1>8. /\ userLock' \in Servers \cup {None} /\ rowLock' \in [Rows -> Servers \cup {None}]
      /\ control' \subseteq Servers
  BY <1>1, <1>4 DEF TypeOK
<1>9. DOMAIN j.cells \subseteq DOMAIN j.plain
  BY <1>3
<1>10. QED
  BY <1>1, <1>3, <1>4, <1>7, <1>8, <1>9, JobMoves

\* The mode changes while no request is past the trigger, and becomes strict
\* only when no row was left in the legacy format before.
LEMMA SetModeKeeps ==
  ASSUME IInv, SetMode
  PROVE  IInv'
<1>1. TypeOK /\ job \in [Actors -> JobSet] /\ Operator \in Actors /\ JobFits(Operator) /\ RowsFit
      /\ job[Operator] \in JobSet
  BY NoneDiffers DEF IInv, Shapes
<1>2. /\ job' = [job EXCEPT ![Operator] = Idle] /\ control = {}
      /\ UNCHANGED <<present, keyring, rows, locks, cache, said, dropped>>
      /\ UNCHANGED <<userLock, rowLock, control, deks, writeKey, nonces>>
      /\ mode' = IF job[Operator].snap THEN NextMode ELSE mode
  BY DEF SetMode, Becomes, locks, keyring
<1>3. job'[Operator] = Idle /\ \A b \in Actors \ {Operator} : job'[b] = job[b]
  BY <1>1, <1>2
<1>4. job[Operator].kind = "mode"
  BY <1>1 DEF SetMode, JobFits, BackfillFits, JobSet, Kinds, Past
<1>5. /\ mode' \in {"legacy", "encrypting", "strict"}
      /\ mode' = "legacy" => mode = "legacy"
      /\ mode' = "strict" => Legacy = {}
  BY <1>1, <1>2, <1>4 DEF NextMode, TypeOK, RowsFit, JobFits
<1>6. Legacy' = Legacy
  BY <1>2 DEF Legacy
<1>7. Shapes'
  <2>1. job' \in [Actors -> JobSet]
    BY <1>1, <1>2, IdleIsJob
  <2>2. \A b \in Actors :
          /\ job'[b].row \in Rows \cup {None} /\ job'[b].ver \in 0..MaxVersion
          /\ job'[b].key \in Keys \cup {None} /\ job'[b].tries \in 0..Attempts
          /\ DOMAIN job'[b].cells \subseteq DOMAIN job'[b].plain
          /\ DOMAIN job'[b].plain \subseteq Fields
    BY <1>1, <1>3, <2>1, IdleIsJob, ZenonT(40) DEF TypeOK, JobSet
  <2>3. TypeOK'
    BY <1>1, <1>2, <1>5, <2>2 DEF TypeOK, Populated
  <2>4. QED
    BY <1>2, <2>1, <2>3 DEF IInv, Shapes
<1>8. KeysFit' /\ TextsKept'
  BY <1>2 DEF IInv, KeysFit, TextsKept, Kept
<1>9. RowsFit'
  BY <1>1, <1>2, <1>5, <1>6 DEF RowsFit
<1>10. CiphersFit'
  <2>1. \A c : Cipher(c)' => Cipher(c)
    BY <1>2, <1>3, IdleIsJob DEF Cipher, RowCipher, JobCipher
  <2>2. QED
    BY <1>2, <2>1, CiphersStayFit DEF IInv
<1>11. ASSUME NEW b \in Actors, b # Operator PROVE JobFits(b)'
  <2>1. JobFits(b) /\ job'[b] = job[b] /\ job[b].pc # "commit"
        /\ job[b].kind \notin {"backfill", "rotate", "mode"}
    BY <1>2, <1>3, <1>11 DEF IInv, JobFits
  <2>2. (Past(b)' <=> Past(b)) /\ Unsealed(job[b])' = Unsealed(job[b])
    BY <2>1 DEF Past, Unsealed
  <2>3. InsertFits(b)' /\ SaveFits(b)' /\ SignalFits(b)' /\ FinishFits(b)' /\ BackfillFits(b)'
    BY <1>2, <2>1, <2>2 DEF JobFits, InsertFits, SaveFits, SignalFits, FinishFits, BackfillFits
  <2>4. QED
    BY <1>2, <1>5, <1>11, <2>1, <2>2, <2>3 DEF JobFits
<1>12. JobFits(Operator)'
  BY <1>1, <1>3, IdleFits
<1>13. QED
  BY <1>7, <1>8, <1>9, <1>10, <1>11, <1>12 DEF IInv

-----------------------------------------------------------------------------
(***************************************************************************)
(* The system                                                              *)
(***************************************************************************)

LEMMA StutterKeeps ==
  ASSUME IInv, UNCHANGED vars
  PROVE  IInv'
<1>1. /\ UNCHANGED <<mode, present, keyring, rows, job, locks, cache, said, dropped>>
      /\ UNCHANGED <<userLock, rowLock, control, deks, writeKey, nonces>>
  BY DEF vars, locks, keyring
<1>2. Shapes' /\ KeysFit' /\ RowsFit' /\ TextsKept'
  BY <1>1 DEF IInv, Shapes, TypeOK, KeysFit, RowsFit, TextsKept, Kept, Legacy, Populated
<1>3. CiphersFit'
  <2>1. \A c : Cipher(c)' => Cipher(c)
    BY <1>1 DEF Cipher, RowCipher, JobCipher
  <2>2. QED
    BY <1>1, <2>1, CiphersStayFit DEF IInv
<1>4. \A a \in Actors : JobFits(a)'
  BY <1>1, UndisturbedFits DEF IInv, Undisturbed
<1>5. QED
  BY <1>2, <1>3, <1>4 DEF IInv

LEMMA NextKeepsIInv == IInv /\ [Next]_vars => IInv'
<1> SUFFICES ASSUME IInv, [Next]_vars PROVE IInv'
  OBVIOUS
<1>1. ASSUME NEW a \in Servers, Start(a) PROVE IInv'
  <2>1. CASE \E r \in Rows \ Signals : Begin(a, "insert", r)
    BY <1>1, <2>1, BeginKeeps
  <2>2. CASE \E r \in Contents : Begin(a, "save", r)
    BY <1>1, <2>2, BeginKeeps, ContentAssumption DEF Rows
  <2>3. CASE \E r \in Signals : Begin(a, "signal", r)
    BY <1>1, <2>3, BeginKeeps DEF Rows
  <2>4. CASE \E r \in Generations : Begin(a, "finish", r)
    BY <1>1, <2>4, BeginKeeps, ContentAssumption DEF Rows
  <2>5. CASE Begin(a, "delete", None)
    BY <1>1, <2>5, BeginKeeps
  <2>6. QED
    BY <1>1, <2>1, <2>2, <2>3, <2>4, <2>5 DEF Start
<1>2. ASSUME NEW a \in Servers, Request(a) PROVE IInv'
  BY <1>2, LockForInsertKeeps, LockForSaveKeeps, LockForSignalKeeps, LockForFinishKeeps, LockForDeleteKeeps,
     WriteKeeps, CommitKeeps, EraseSignalKeeps, DeleteUserKeeps DEF Request
<1>3. ASSUME NEW a \in Servers, TimesOut(a) PROVE IInv'
  BY <1>3, FailKeeps, NoneDiffers
<1>4. ASSUME NEW a \in Actors, Encrypt(a) PROVE IInv'
  BY <1>4, ActiveKeyKeeps, AskForKeyLockKeeps, StoreInitialKeyKeeps, ReserveNonceKeeps DEF Encrypt
<1>5. ASSUME NEW a \in Actors, Fail(a) PROVE IInv'
  BY <1>5, FailKeeps
<1>6. CASE StartBackfill \/ Rotate \/ AskForControl
  BY <1>6, BackfillKeeps, RotateKeeps, AskForControlKeeps DEF StartBackfill
<1>7. CASE OperatorStep
  BY <1>7, BackfillCASKeeps, StoreRotatedKeyKeeps, SetModeKeeps DEF OperatorStep
<1>8. CASE UNCHANGED vars
  BY <1>8, StutterKeeps
<1>9. QED
  BY <1>1, <1>2, <1>3, <1>4, <1>5, <1>6, <1>7, <1>8 DEF Next

LEMMA AlwaysIInv == Spec => []IInv
BY InitIsIInv, NextKeepsIInv, PTL DEF Spec

\* The shapes of the tables, of the requests and of the locks.
THEOREM ContentTypeCorrect == Spec => []TypeOK
<1>1. IInv => TypeOK
  BY DEF IInv, Shapes
<1>2. QED
  BY <1>1, AlwaysIInv, PTL

\* Every stored ciphertext opens with the key stored under its version, and no
\* nonce is used twice with one key: of any servers and operator, through
\* rotations, lost transactions and a deletion (contentcrypto/service.go).
THEOREM CiphertextsStaySound == Spec => []CiphertextsSound
<1>1. IInv => CiphertextsSound
  <2> SUFFICES ASSUME IInv PROVE CiphertextsSound
    OBVIOUS
  <2>1. CiphersFit /\ RowsFit /\ job \in [Actors -> JobSet] /\ TypeOK
    BY DEF IInv, Shapes
  <2>2. ASSUME NEW p \in Sealed, Ciphertext(p)
        PROVE  Cipher(CellAt(p)) /\ (p[1] = "row" => present)
    <3>1. CASE \E r \in Rows, f \in Fields : rows[r] # None /\ p = <<"row", r, f>>
      BY <2>1, <2>2, <3>1 DEF Ciphertext, CellAt, Cipher, RowCipher, RowsFit
    <3>2. CASE \E a \in Actors, f \in Fields : p = <<"job", a, f>>
      BY <2>1, <2>2, <3>2 DEF Ciphertext, CellAt, Cipher, JobCipher
    <3>3. QED
      BY <3>1, <3>2 DEF Sealed
  <2>3. \A p \in Sealed : Ciphertext(p) /\ p[1] = "row" => CellAt(p).key = deks[CellAt(p).ver]
    BY <2>1, <2>2 DEF CiphersFit
  <2>4. \A p, q \in Sealed :
          Ciphertext(p) /\ Ciphertext(q) /\ CellAt(p).key = CellAt(q).key
            /\ CellAt(p).nonce = CellAt(q).nonce => CellAt(p) = CellAt(q)
    BY <2>1, <2>2 DEF CiphersFit
  <2>5. QED
    BY <2>3, <2>4 DEF CiphertextsSound
<1>2. QED
  BY <1>1, AlwaysIInv, PTL

\* What a field opens to is what a user last stored in it, whatever the
\* backfill and the migration of rows do meanwhile (content_encryption.go),
\* except in the signals whose row was there when an encrypted one was saved.
THEOREM TextsAreKept == Spec => []TextsKept
<1>1. IInv => TextsKept
  BY DEF IInv
<1>2. QED
  BY <1>1, AlwaysIInv, PTL

\* In the mode strict no row is in the legacy format, and no transaction that
\* is still to commit will make one (the trigger of migration 000010).
THEOREM StrictStaysComplete == Spec => []StrictIsComplete
<1>1. IInv => StrictIsComplete
  <2> SUFFICES ASSUME IInv, mode = "strict"
               PROVE  Legacy = {} /\ \A a \in Servers : job[a].pc = "commit" => Stored(job[a]).format = "encrypted"
    BY DEF StrictIsComplete
  <2>1. Legacy = {}
    BY DEF IInv, RowsFit
  <2>2. ASSUME NEW a \in Servers, job[a].pc = "commit" PROVE Stored(job[a]).format = "encrypted"
    <3>1. a \in Actors /\ JobFits(a) /\ Past(a)
      BY <2>2, NoneDiffers DEF IInv, Past
    <3>2. /\ job[a].kind \in {"insert", "save", "signal", "finish"} /\ Accepted(job[a]) /\ job[a].row \in Rows
          /\ job[a].enc => Unsealed(job[a]) = {}
      BY <2>2, <3>1 DEF JobFits
    <3>3. rows[job[a].row] # None \/ DOMAIN job[a].plain # {}
      BY <2>2, <3>1, <3>2 DEF JobFits, InsertFits, SaveFits, SignalFits, FinishFits
    <3>4. CASE Conflicts(job[a])
      BY <3>1, <3>2, <3>4, ExcludedFits
    <3>5. CASE ~Conflicts(job[a])
      <4>1. rows[job[a].row] # None => rows[job[a].row].format = "encrypted"
        BY <2>1, <3>1, <3>2 DEF IInv, Shapes, TypeOK, RowSet, Legacy
      <4>3. QED
        BY <3>1, <3>2, <3>3, <3>5, <4>1, StoredFits
    <3>6. QED
      BY <3>4, <3>5
  <2>3. QED
    BY <2>1, <2>2
<1>2. QED
  BY <1>1, AlwaysIInv, PTL
==============================================================================
