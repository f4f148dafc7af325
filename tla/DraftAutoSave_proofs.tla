------------------------- MODULE DraftAutoSave_proofs -------------------------
(***************************************************************************)
(* That the editor of a draft sends a text only to replace a revision its  *)
(* author saw, calls nothing saved that is not, starts the text that was   *)
(* shown, and keeps what the server may not have: for any texts, any       *)
(* number of editors one after the other, edits, conflicts and faults, and *)
(* any length of the queue of browser operations.                          *)
(***************************************************************************)
EXTENDS DraftAutoSave, SequenceTheorems, TLAPS

(***************************************************************************)
(* The invariant                                                           *)
(***************************************************************************)
Stages == {"sent", "ok", "conflict", "gone", "resolving"}
DraftsTo(n) == [text : Texts, base : 1..n, basis : 1..n]
ConflictsTo(n) == [text : Texts, base : 1..n]
AttemptsTo(n) ==
    [text : Texts, base : 1..n, basis : 1..n, inputs : Nat, stage : Stages, rev : 0..n]
Pendings == {"none", "start", "discard", "adopt"}
EditorsTo(n) ==
    [mounted : BOOLEAN, usable : BOOLEAN, mount : Nat,
     pending : Pendings,
     saved : Texts, current : Texts, queued : Texts \cup {None}, uncertain : BOOLEAN,
     hydrating : BOOLEAN, halted : {None, "retryable", "final"}, waiting : BOOLEAN,
     retries : 0..MaxRetries, inputs : Nat, saveTimer : BOOLEAN, persistTimer : BOOLEAN,
     attempt : AttemptsTo(n) \cup {None}, shown : {"saving", "failed", "dirty", "saved"},
     rev : 1..n, basis : 1..n, conflict : ConflictsTo(n) \cup {None},
     recovery : DraftsTo(n) \cup {None}, resolving : BOOLEAN,
     lastCached : DraftsTo(n) \cup {None}, moved : BOOLEAN, warned : BOOLEAN, offered : BOOLEAN]

\* What the server stores is in the form it stores.
Stored(o) == o \in Seq(Texts) /\ Len(o) > 0 /\ \A i \in DOMAIN o : Canon[o[i]] = o[i]

\* A draft was written by someone who saw its base, or chose to replace it.
Sound(d) == d # None => d.base = d.basis

\* A request replaces the revision that is saved here, and its answer is a
\* newer one with its text; one that is resolved belongs to the conflict.
AttemptFits(o, e) ==
    LET a == e.attempt IN
    a # None =>
      /\ e.usable /\ ~e.hydrating /\ ~e.moved /\ e.recovery = None /\ a.base = a.basis
      /\ a.stage # "resolving" => e.conflict = None /\ a.base = e.rev
      /\ a.stage = "resolving" => e.conflict # None /\ e.conflict.text = a.text
      /\ a.stage = "ok" => a.rev >= e.rev /\ o[a.rev] = Canon[a.text]

\* saved is the text of rev, which is what the user saw: but for a choice,
\* which shows a newer one beside the text of the older.
Frame(o, e) ==
    /\ e \in EditorsTo(Len(o)) /\ e.saved = o[e.rev]
    /\ e.mounted => e.usable
    /\ e.recovery # None => e.conflict # None /\ e.basis = e.conflict.base
    /\ e.recovery = None => e.basis = e.rev /\ (e.conflict # None => e.conflict.base = e.rev)
    /\ e.conflict # None => ~e.hydrating /\ ~e.moved
    /\ e.moved => ~e.hydrating
    /\ e.hydrating => ~e.uncertain

\* Nothing is waiting, on its way or in doubt.
Clean(e) == ~e.hydrating /\ ~Blocked(e) /\ e.attempt = None /\ e.queued = None

Flags(e) ==
    /\ ~e.usable => ~e.saveTimer /\ ~e.persistTimer
    /\ e.moved => ~e.persistTimer
    /\ Blocked(e) => e.queued # None
    /\ e.usable /\ e.attempt = None /\ e.queued = None => Canon[e.current] = e.saved /\ ~e.uncertain
    /\ e.shown = "saved" \/ e.pending \in {"start", "adopt"} => Clean(e)

Fits(o, e) == Frame(o, e) /\ AttemptFits(o, e) /\ Flags(e)

LoadFits(o, e, l) ==
    l # None =>
      /\ e.usable /\ e.conflict # None /\ e.recovery = None
      /\ l \in [stage : {"asked", "read"}, rev : 0..Len(o)]
      /\ l.stage = "read" /\ l.rev # 0 => l.rev >= e.rev

\* The command is the one the editor waits for. A start names a revision not
\* above the one that is saved here; an adoption took the suggestion over.
CmdFits(o, e, c, ad) ==
    c # None =>
      /\ c \in [kind : {"start", "discard", "adopt"}, base : 1..Len(o), mount : Nat,
                stage : {"sent", "ok", "refused"}]
      /\ c.kind = e.pending /\ c.mount = e.mount
      /\ c.kind = "start" /\ c.stage = "sent" => c.base <= e.rev
      /\ c.kind = "adopt" /\ c.stage = "ok" => c.base >= e.rev /\ o[c.base] = Suggestion /\ ad # 0

OrphanFits(o, e, q, m) ==
    \/ q \in [kind : {"save"}, text : Texts, base : 1..Len(o)]
    \/ /\ q \in [kind : {"start", "discard", "adopt"}, base : 1..Len(o), mount : 0..m]
       /\ q.kind = "start" /\ q.mount = e.mount => q.base <= e.rev
OrphansFit(o, e, qs, m) == \A q \in qs : OrphanFits(o, e, q, m)

EndingFits(o, e, en, m) ==
    en # None =>
      /\ en \in [by : {"start", "discard", "other"}, base : 1..Len(o), mount : 0..m]
      /\ en.by = "start" => en.base = Len(o) /\ (en.mount = e.mount => en.base <= e.rev)

BrowserOps ==
    [kind : {"get", "put", "clear", "wipe"}, then : Tails,
     draft : [text : Texts, base : Nat, basis : Nat] \cup {None}]
OpFits(n, op) ==
    /\ op.draft \in DraftsTo(n) \cup {None} /\ Sound(op.draft)
    /\ op.kind = "put" <=> op.draft # None
OpsFit(o, e, q) ==
    /\ q \in Seq(BrowserOps)
    /\ \A i \in DOMAIN q : OpFits(Len(o), q[i])
    /\ \A i \in DOMAIN q : q[i].kind = "get" => i = 1 /\ e.hydrating

\* The queue ends with the text on disk.
OnDisk(e, q, c) ==
    IF q = <<>> THEN c # None /\ c.text = e.current
    ELSE q[Len(q)].kind = "put" /\ q[Len(q)].draft.text = e.current

KeptFits(e, q, c, faults) ==
    e.usable /\ ~Settled(e) =>
      /\ e.mounted => e.persistTimer \/ OnDisk(e, q, c) \/ (q = <<>> /\ e.warned)
      /\ ~e.mounted /\ faults = 0 => OnDisk(e, q, c)

\* As long as nobody else changes the draft.
NewestFits(o, e, l) ==
    e.usable =>
      /\ e.attempt # None /\ e.attempt.stage = "ok" => e.attempt.rev = Len(o)
      /\ e.rev = Len(o) \/ e.uncertain \/ (e.attempt # None /\ e.attempt.stage = "ok")
      /\ e.recovery # None => e.rev = Len(o)
      /\ l # None /\ l.stage = "read" => l.rev \in {0, Len(o)}

Counts == [edits : Nat, others : Nat, faults : Nat, mounts : Nat, late : Nat]
Quiet(u, ad) == u.others = 0 /\ ad = 0 /\ u.late = 0 /\ u.mounts = 1

StoreFits(o, ad, h, cl, u) ==
    /\ Stored(o)
    /\ ad \in 0..Len(o) /\ (ad # 0 => o[ad] = Suggestion)
    /\ h \in 0..Len(o)
    /\ cl \in {"none", "waiting", "quiesced", "done", "skipped"}
    /\ u \in Counts /\ u.mounts > 0

BrowserFits(o, e, c, q, cl, faults) ==
    /\ c \in DraftsTo(Len(o)) \cup {None} /\ Sound(c)
    /\ OpsFit(o, e, q)
    /\ cl \in {"quiesced", "done"} => ~e.usable
    /\ cl = "done" => c = None /\ q = <<>>
    /\ e.warned => faults # 0
    /\ KeptFits(e, q, c, faults)

RequestsFit(o, e, l, c, ad, qs, en, m) ==
    /\ e.mount <= m
    /\ LoadFits(o, e, l) /\ CmdFits(o, e, c, ad)
    /\ OrphansFit(o, e, qs, m) /\ EndingFits(o, e, en, m)

IInv ==
    /\ StoreFits(log, adopted, home, cleanup, used)
    /\ Fits(log, ed)
    /\ RequestsFit(log, ed, load, cmd, adopted, orphans, ending, used.mounts)
    /\ BrowserFits(log, ed, cache, ops, cleanup, used.faults)
    /\ Quiet(used, adopted) => NewestFits(log, ed, load)

-----------------------------------------------------------------------------
(***************************************************************************)
(* The parts the editor's functions are made of                            *)
(***************************************************************************)

\* f is e but for the texts, the timers, the badge and the retries.
Kin(e, f) ==
    /\ f.mounted = e.mounted /\ f.usable = e.usable /\ f.mount = e.mount /\ f.pending = e.pending
    /\ f.hydrating = e.hydrating /\ f.attempt = e.attempt /\ f.rev = e.rev /\ f.basis = e.basis
    /\ f.conflict = e.conflict /\ f.recovery = e.recovery /\ f.resolving = e.resolving
    /\ f.lastCached = e.lastCached /\ f.moved = e.moved /\ f.warned = e.warned
    /\ f.offered = e.offered

\* f is e but for what is queued, the timers, the badge and the retries.
Alike(e, f) ==
    /\ Kin(e, f) /\ f.saved = e.saved /\ f.current = e.current
    /\ f.uncertain = e.uncertain /\ f.inputs = e.inputs

\* What a refreshed badge says, and a reconciled editor has queued.
Told(f) == f.shown = "saved" => Clean(f)
Even(f) ==
    f.queued = None => IF f.attempt = None THEN f.current = f.saved /\ ~f.uncertain
                       ELSE f.current = f.attempt.text

LEMMA RefreshedIs ==
  ASSUME NEW n, NEW e \in EditorsTo(n)
  PROVE  LET f == Refreshed(e) IN
         /\ f \in EditorsTo(n) /\ Alike(e, f) /\ f.queued = e.queued
         /\ f.saveTimer = e.saveTimer /\ f.persistTimer = e.persistTimer
         /\ f.waiting = e.waiting /\ f.retries = e.retries /\ f.halted = e.halted
         /\ Told(f)
<1> DEFINE s == IF e.hydrating THEN "saving"
                ELSE IF Blocked(e) \/ e.halted # None THEN "failed"
                ELSE IF e.attempt # None THEN "saving"
                ELSE IF e.queued # None THEN "dirty" ELSE "saved"
           f == [e EXCEPT !.shown = s]
<1>1. s \in {"saving", "failed", "dirty", "saved"} /\ (s = "saved" => Clean(e))
  BY DEF Clean
<1>2. Refreshed(e) = f
  BY DEF Refreshed
<1> HIDE DEF s
<1>3. /\ f \in EditorsTo(n) /\ Alike(e, f) /\ f.queued = e.queued /\ f.shown = s
      /\ f.saveTimer = e.saveTimer /\ f.persistTimer = e.persistTimer
      /\ f.waiting = e.waiting /\ f.retries = e.retries /\ f.halted = e.halted
  BY <1>1 DEF EditorsTo, Alike, Kin
<1> HIDE DEF f
<1>4. QED
  BY <1>1, <1>2, <1>3 DEF Clean, Blocked, Told, Alike, Kin

LEMMA ScheduledIs ==
  ASSUME NEW n, NEW e \in EditorsTo(n)
  PROVE  LET f == Scheduled(e) IN
         /\ f \in EditorsTo(n) /\ Alike(e, f) /\ f.queued = e.queued
         /\ f.persistTimer = e.persistTimer /\ f.shown = e.shown
         /\ f.waiting = e.waiting /\ f.retries = e.retries /\ f.halted = e.halted
         /\ f.saveTimer => e.saveTimer \/ e.usable
<1> DEFINE s == MaySend(e) /\ Savable(e)
           f == [e EXCEPT !.saveTimer = s]
<1>1. s \in BOOLEAN /\ (s => e.usable)
  BY DEF MaySend
<1>2. Scheduled(e) = IF e.waiting /\ e.saveTimer THEN e ELSE f
  BY DEF Scheduled
<1> HIDE DEF s
<1>3. /\ f \in EditorsTo(n) /\ Alike(e, f) /\ f.queued = e.queued /\ f.shown = e.shown
      /\ f.saveTimer = s /\ f.persistTimer = e.persistTimer
      /\ f.waiting = e.waiting /\ f.retries = e.retries /\ f.halted = e.halted
  BY <1>1 DEF EditorsTo, Alike, Kin
<1> HIDE DEF f
<1>4. QED
  BY <1>1, <1>2, <1>3 DEF Alike, Kin

LEMMA PersistSoonIs ==
  ASSUME NEW n, NEW e \in EditorsTo(n)
  PROVE  LET f == PersistSoon(e) IN
         /\ f \in EditorsTo(n) /\ Alike(e, f) /\ f.queued = e.queued
         /\ f.saveTimer = e.saveTimer /\ f.persistTimer = ~e.moved /\ f.shown = e.shown
         /\ f.waiting = e.waiting /\ f.retries = e.retries /\ f.halted = e.halted
<1> DEFINE b == ~e.moved
           f == [e EXCEPT !.persistTimer = b]
<1>1. b \in BOOLEAN /\ PersistSoon(e) = f
  BY DEF PersistSoon
<1> HIDE DEF b
<1>2. /\ f \in EditorsTo(n) /\ Alike(e, f) /\ f.queued = e.queued
      /\ f.saveTimer = e.saveTimer /\ f.persistTimer = b /\ f.shown = e.shown
      /\ f.waiting = e.waiting /\ f.retries = e.retries /\ f.halted = e.halted
  BY <1>1 DEF EditorsTo, Alike, Kin
<1> HIDE DEF f
<1>3. QED
  BY <1>1, <1>2 DEF b

LEMMA RestartedIs ==
  ASSUME NEW n, NEW e \in EditorsTo(n)
  PROVE  LET f == Restarted(e) IN
         /\ f \in EditorsTo(n) /\ Alike(e, f) /\ f.queued = e.queued
         /\ f.saveTimer = e.saveTimer /\ f.persistTimer = e.persistTimer /\ f.shown = e.shown
<1> DEFINE f == [e EXCEPT !.halted = None, !.retries = 0, !.waiting = FALSE]
<1>0. 0 \in 0..MaxRetries
  BY RetriesAreCounted
<1>1. f \in EditorsTo(n)
  BY <1>0, ZenonT(40) DEF EditorsTo
<1>2. /\ Alike(e, f) /\ f.queued = e.queued
      /\ f.saveTimer = e.saveTimer /\ f.persistTimer = e.persistTimer /\ f.shown = e.shown
  BY DEF EditorsTo, Alike, Kin
<1>3. QED
  BY <1>1, <1>2 DEF Restarted

\* What is not queued is saved, or on its way.
LEMMA ReconciledIs ==
  ASSUME NEW n, NEW e \in EditorsTo(n)
  PROVE  LET f == Reconciled(e) IN
         /\ f \in EditorsTo(n) /\ Alike(e, f)
         /\ f.saveTimer = e.saveTimer /\ f.persistTimer = e.persistTimer /\ f.shown = e.shown
         /\ f.waiting = e.waiting /\ f.retries = e.retries /\ f.halted = e.halted
         /\ Even(f)
<1> DEFINE sent == IF e.attempt # None THEN e.attempt.text ELSE e.saved
           same == e.current = sent /\ (e.attempt # None \/ ~e.uncertain)
           q == IF same THEN None ELSE e.current
           f == [e EXCEPT !.queued = q]
<1>1. e.current \in Texts
  BY DEF EditorsTo
<1>2. q \in Texts \cup {None} /\ (q = None => IF e.attempt = None THEN e.current = e.saved /\ ~e.uncertain
                                              ELSE e.current = e.attempt.text)
  BY <1>1, NoneIsApart
<1>3. Reconciled(e) = f
  BY DEF Reconciled
<1> HIDE DEF q
<1>4. /\ f \in EditorsTo(n) /\ Alike(e, f) /\ f.queued = q /\ f.shown = e.shown
      /\ f.saveTimer = e.saveTimer /\ f.persistTimer = e.persistTimer
      /\ f.waiting = e.waiting /\ f.retries = e.retries /\ f.halted = e.halted
  BY <1>2 DEF EditorsTo, Alike, Kin
<1> HIDE DEF f
<1>5. QED
  BY <1>2, <1>3, <1>4 DEF Even, Alike, Kin

LEMMA AlikeTwice ==
  ASSUME NEW e, NEW f, NEW g, Alike(e, f), Alike(f, g)
  PROVE  Alike(e, g)
BY DEF Alike, Kin

LEMMA EditedIs ==
  ASSUME NEW n, NEW e \in EditorsTo(n), NEW t \in Texts
  PROVE  LET f == Edited(e, t) IN
         /\ f \in EditorsTo(n) /\ Kin(e, f) /\ f.saved = e.saved /\ f.uncertain = e.uncertain
         /\ f.current = t /\ f.inputs = e.inputs + 1 /\ f.persistTimer = ~e.moved
         /\ f.saveTimer => e.saveTimer \/ e.usable
         /\ Told(f) /\ Even(f)
<1> DEFINE a == Restarted(e)
           i == a.inputs + 1
           b == [a EXCEPT !.current = t, !.inputs = i]
           c == Reconciled(b)
           d == PersistSoon(c)
           g == Refreshed(d)
           f == Scheduled(g)
<1>1. a \in EditorsTo(n) /\ Alike(e, a) /\ a.saveTimer = e.saveTimer
  BY RestartedIs
<1> HIDE DEF a
<1>2. i \in Nat /\ [a EXCEPT !.current = t, !.inputs = @ + 1] = b
  BY <1>1 DEF EditorsTo
<1>0. Edited(e, t) = f
  BY <1>2 DEF Edited, a
<1> HIDE DEF i
<1>3. /\ b \in EditorsTo(n) /\ Kin(a, b) /\ b.saved = a.saved /\ b.uncertain = a.uncertain
      /\ b.current = t /\ b.inputs = i /\ b.saveTimer = a.saveTimer
  <2>1. b \in EditorsTo(n)
    <3>1. a \in EditorsTo(n) /\ t \in Texts /\ i \in Nat
      BY <1>1, <1>2
    <3>2. QED
      BY <3>1, ZenonT(40) DEF EditorsTo
  <2>2. Kin(a, b)
    BY <1>1 DEF EditorsTo, Kin
  <2>3. QED
    BY <1>1, <2>1, <2>2 DEF EditorsTo
<1> HIDE DEF b
<1>4. c \in EditorsTo(n) /\ Alike(b, c) /\ c.saveTimer = b.saveTimer /\ Even(c)
  BY <1>3, ReconciledIs
<1> HIDE DEF c
<1>5. d \in EditorsTo(n) /\ Alike(c, d) /\ d.saveTimer = c.saveTimer /\ d.persistTimer = ~c.moved /\ d.queued = c.queued
  BY <1>4, PersistSoonIs
<1> HIDE DEF d
<1>6. /\ g \in EditorsTo(n) /\ Alike(d, g) /\ g.saveTimer = d.saveTimer /\ g.persistTimer = d.persistTimer
      /\ g.queued = d.queued /\ Told(g)
  BY <1>5, RefreshedIs
<1> HIDE DEF g
<1>7. /\ f \in EditorsTo(n) /\ Alike(g, f) /\ f.persistTimer = g.persistTimer /\ f.queued = g.queued
      /\ f.shown = g.shown /\ (f.saveTimer => g.saveTimer \/ g.usable)
  BY <1>6, ScheduledIs
<1> HIDE DEF f
<1>8. Told(f) /\ Even(f)
  BY <1>4, <1>5, <1>6, <1>7 DEF Told, Even, Clean, Blocked, Alike, Kin
<1>9. QED
  BY <1>0, <1>1, <1>3, <1>4, <1>5, <1>6, <1>7, <1>8 DEF Alike, Kin, i

LEMMA RebasedIs ==
  ASSUME NEW n, NEW e \in EditorsTo(n), NEW t \in Texts
  PROVE  LET f == Rebased(e, t) IN
         /\ f \in EditorsTo(n) /\ Kin(e, f) /\ f.saved = t /\ ~f.uncertain
         /\ f.current = e.current /\ f.inputs = e.inputs
         /\ f.persistTimer = ~e.moved /\ f.saveTimer = e.saveTimer
<1> DEFINE b == [e EXCEPT !.saved = t, !.uncertain = FALSE]
           c == Reconciled(b)
           d == PersistSoon(c)
           f == Refreshed(d)
<1>0. Rebased(e, t) = f
  BY DEF Rebased
<1>1. /\ b \in EditorsTo(n) /\ Kin(e, b) /\ b.saved = t /\ ~b.uncertain
      /\ b.current = e.current /\ b.inputs = e.inputs /\ b.saveTimer = e.saveTimer
  <2>1. b \in EditorsTo(n)
    BY ZenonT(40) DEF EditorsTo
  <2>2. Kin(e, b)
    BY DEF EditorsTo, Kin
  <2>3. QED
    BY <2>1, <2>2 DEF EditorsTo
<1> HIDE DEF b
<1>2. c \in EditorsTo(n) /\ Alike(b, c) /\ c.saveTimer = b.saveTimer
  BY <1>1, ReconciledIs
<1> HIDE DEF c
<1>3. d \in EditorsTo(n) /\ Alike(c, d) /\ d.saveTimer = c.saveTimer /\ d.persistTimer = ~c.moved
  BY <1>2, PersistSoonIs
<1> HIDE DEF d
<1>4. /\ f \in EditorsTo(n) /\ Alike(d, f) /\ f.saveTimer = d.saveTimer /\ f.persistTimer = d.persistTimer
  BY <1>3, RefreshedIs
<1> HIDE DEF f
<1>5. QED
  BY <1>0, <1>1, <1>2, <1>3, <1>4 DEF Alike, Kin

LEMMA UnblockedIs ==
  ASSUME NEW n, NEW e \in EditorsTo(n)
  PROVE  LET f == Unblocked(e) IN
         /\ f \in EditorsTo(n) /\ Alike(e, f) /\ f.persistTimer = ~e.moved
         /\ f.saveTimer => e.saveTimer \/ e.usable
         /\ Told(f) /\ Even(f)
<1> DEFINE a == Restarted(e)
           c == Reconciled(a)
           d == PersistSoon(c)
           g == Refreshed(d)
           f == Scheduled(g)
<1>0. Unblocked(e) = f
  BY DEF Unblocked
<1>1. a \in EditorsTo(n) /\ Alike(e, a) /\ a.saveTimer = e.saveTimer
  BY RestartedIs
<1> HIDE DEF a
<1>2. c \in EditorsTo(n) /\ Alike(a, c) /\ c.saveTimer = a.saveTimer /\ Even(c)
  BY <1>1, ReconciledIs
<1> HIDE DEF c
<1>3. d \in EditorsTo(n) /\ Alike(c, d) /\ d.saveTimer = c.saveTimer /\ d.persistTimer = ~c.moved /\ d.queued = c.queued
  BY <1>2, PersistSoonIs
<1> HIDE DEF d
<1>4. /\ g \in EditorsTo(n) /\ Alike(d, g) /\ g.saveTimer = d.saveTimer /\ g.persistTimer = d.persistTimer
      /\ g.queued = d.queued /\ Told(g)
  BY <1>3, RefreshedIs
<1> HIDE DEF g
<1>5. /\ f \in EditorsTo(n) /\ Alike(g, f) /\ f.persistTimer = g.persistTimer /\ f.queued = g.queued
      /\ f.shown = g.shown /\ (f.saveTimer => g.saveTimer \/ g.usable)
  BY <1>4, ScheduledIs
<1> HIDE DEF f
<1>6. Told(f) /\ Even(f)
  BY <1>2, <1>3, <1>4, <1>5 DEF Told, Even, Clean, Blocked, Alike, Kin
<1>7. QED
  BY <1>0, <1>1, <1>2, <1>3, <1>4, <1>5, <1>6 DEF Alike, Kin

TakesOver(e, t) == [e EXCEPT !.current = t, !.queued = t, !.saveTimer = FALSE]
LEMMA TakesOverIs ==
  ASSUME NEW n, NEW e \in EditorsTo(n), NEW t \in Texts
  PROVE  LET f == TakesOver(e, t) IN
         /\ f \in EditorsTo(n) /\ Kin(e, f) /\ f.saved = e.saved /\ f.uncertain = e.uncertain
         /\ f.inputs = e.inputs /\ f.current = t /\ f.queued = t /\ ~f.saveTimer
<1>1. TakesOver(e, t) \in EditorsTo(n)
  BY ZenonT(40) DEF EditorsTo, TakesOver
<1>2. Kin(e, TakesOver(e, t))
  BY DEF EditorsTo, TakesOver, Kin
<1>3. QED
  BY <1>1, <1>2 DEF EditorsTo, TakesOver

LEMMA BlockedWithIs ==
  ASSUME NEW n, NEW e \in EditorsTo(n), NEW t \in Texts
  PROVE  LET f == BlockedWith(e, t) IN
         /\ f \in EditorsTo(n) /\ Kin(e, f) /\ f.saved = e.saved /\ f.uncertain = e.uncertain
         /\ f.inputs = e.inputs /\ f.current = t /\ f.queued = t
         /\ f.persistTimer = ~e.moved /\ ~f.saveTimer /\ Told(f)
<1> DEFINE a == Restarted(e)
           b == [a EXCEPT !.current = t, !.queued = t, !.saveTimer = FALSE]
           d == PersistSoon(b)
           f == Refreshed(d)
<1>0. BlockedWith(e, t) = f
  BY DEF BlockedWith
<1>1. a \in EditorsTo(n) /\ Alike(e, a)
  BY RestartedIs
<1> HIDE DEF a
<1>2. /\ b \in EditorsTo(n) /\ Kin(a, b) /\ b.saved = a.saved /\ b.uncertain = a.uncertain
      /\ b.inputs = a.inputs /\ b.current = t /\ b.queued = t /\ ~b.saveTimer
  BY <1>1, TakesOverIs DEF TakesOver
<1> HIDE DEF b
<1>3. d \in EditorsTo(n) /\ Alike(b, d) /\ d.saveTimer = b.saveTimer /\ d.persistTimer = ~b.moved /\ d.queued = b.queued
  BY <1>2, PersistSoonIs
<1> HIDE DEF d
<1>4. /\ f \in EditorsTo(n) /\ Alike(d, f) /\ f.saveTimer = d.saveTimer /\ f.persistTimer = d.persistTimer
      /\ f.queued = d.queued /\ Told(f)
  BY <1>3, RefreshedIs
<1> HIDE DEF f
<1>5. QED
  BY <1>0, <1>1, <1>2, <1>3, <1>4 DEF Alike, Kin

Synchronizes(e, t) == 
    [e EXCEPT !.saved = t, !.current = t, !.queued = None, !.uncertain = FALSE, !.saveTimer = FALSE]
LEMMA SynchronizesIs ==
  ASSUME NEW n, NEW e \in EditorsTo(n), NEW t \in Texts
  PROVE  LET f == Synchronizes(e, t) IN
         /\ f \in EditorsTo(n) /\ Kin(e, f) /\ f.saved = t /\ ~f.uncertain
         /\ f.inputs = e.inputs /\ f.current = t /\ f.queued = None /\ ~f.saveTimer
<1>1. Synchronizes(e, t) \in EditorsTo(n)
  BY ZenonT(40) DEF EditorsTo, Synchronizes
<1>2. Kin(e, Synchronizes(e, t))
  BY DEF EditorsTo, Synchronizes, Kin
<1>3. QED
  BY <1>1, <1>2 DEF EditorsTo, Synchronizes

LEMMA SynchronizedIs ==
  ASSUME NEW n, NEW e \in EditorsTo(n), NEW t \in Texts
  PROVE  LET f == Synchronized(e, t) IN
         /\ f \in EditorsTo(n) /\ Kin(e, f) /\ f.saved = t /\ ~f.uncertain
         /\ f.inputs = e.inputs /\ f.current = t /\ f.queued = None
         /\ f.persistTimer = ~e.moved /\ ~f.saveTimer /\ Told(f)
<1> DEFINE a == Restarted(e)
           b == [a EXCEPT !.saved = t, !.current = t, !.queued = None,
                          !.uncertain = FALSE, !.saveTimer = FALSE]
           d == PersistSoon(b)
           f == Refreshed(d)
<1>0. Synchronized(e, t) = f
  BY DEF Synchronized
<1>1. a \in EditorsTo(n) /\ Alike(e, a)
  BY RestartedIs
<1> HIDE DEF a
<1>2. /\ b \in EditorsTo(n) /\ Kin(a, b) /\ b.saved = t /\ ~b.uncertain
      /\ b.inputs = a.inputs /\ b.current = t /\ b.queued = None /\ ~b.saveTimer
  BY <1>1, SynchronizesIs DEF Synchronizes
<1> HIDE DEF b
<1>3. d \in EditorsTo(n) /\ Alike(b, d) /\ d.saveTimer = b.saveTimer /\ d.persistTimer = ~b.moved /\ d.queued = b.queued
  BY <1>2, PersistSoonIs
<1> HIDE DEF d
<1>4. /\ f \in EditorsTo(n) /\ Alike(d, f) /\ f.saveTimer = d.saveTimer /\ f.persistTimer = d.persistTimer
      /\ f.queued = d.queued /\ Told(f)
  BY <1>3, RefreshedIs
<1> HIDE DEF f
<1>5. QED
  BY <1>0, <1>1, <1>2, <1>3, <1>4 DEF Alike, Kin

\* A badge that is refreshed and a timer that is set again.
LEMMA AgainIs ==
  ASSUME NEW n, NEW e \in EditorsTo(n)
  PROVE  LET f == Scheduled(Refreshed(e)) IN
         /\ f \in EditorsTo(n) /\ Alike(e, f) /\ f.queued = e.queued
         /\ f.persistTimer = e.persistTimer
         /\ f.saveTimer => e.saveTimer \/ e.usable
         /\ Told(f)
<1> DEFINE g == Refreshed(e)
           f == Scheduled(g)
<1>1. /\ g \in EditorsTo(n) /\ Alike(e, g) /\ g.saveTimer = e.saveTimer /\ g.persistTimer = e.persistTimer
      /\ g.queued = e.queued /\ Told(g)
  BY RefreshedIs
<1> HIDE DEF g
<1>2. /\ f \in EditorsTo(n) /\ Alike(g, f) /\ f.persistTimer = g.persistTimer /\ f.queued = g.queued
      /\ f.shown = g.shown /\ (f.saveTimer => g.saveTimer \/ g.usable)
  BY <1>1, ScheduledIs
<1> HIDE DEF f
<1>3. Told(f)
  BY <1>1, <1>2 DEF Told, Clean, Blocked, Alike, Kin
<1>4. QED
  BY <1>1, <1>2, <1>3 DEF Alike, Kin, g, f

-----------------------------------------------------------------------------
(***************************************************************************)
(* What the user and the browser do to the editor                          *)
(***************************************************************************)

\* What the commands, the requests and the queue know of the editor.
Stays(e, f) ==
    /\ f.mounted = e.mounted /\ f.usable = e.usable /\ f.mount = e.mount /\ f.pending = e.pending
    /\ f.hydrating = e.hydrating /\ f.warned = e.warned

\* Who stays through two steps stays through both.
LEMMA StaysOn ==
  ASSUME NEW a, NEW b, NEW c, Stays(a, b), Stays(b, c)
  PROVE  Stays(a, c)
BY DEF Stays

LEMMA KinStays ==
  ASSUME NEW a, NEW b, Kin(a, b)
  PROVE  Stays(a, b)
BY DEF Kin, Stays

LEMMA SavedIsStored ==
  ASSUME NEW o, NEW e, Stored(o), Frame(o, e)
  PROVE  e.saved \in Texts /\ Canon[e.saved] = e.saved /\ e.rev \in 1..Len(o)
<1>1. e.rev \in 1..Len(o) /\ e.saved \in Texts /\ e.saved = o[e.rev]
  BY DEF Frame, EditorsTo
<1>2. DOMAIN o = 1..Len(o)
  BY DEF Stored
<1>3. QED
  BY <1>1, <1>2 DEF Stored

\* An editor that is free to save and whose badge and queue are up to date.
LEMMA FreeFlags ==
  ASSUME NEW f, Told(f), Even(f), Canon[f.saved] = f.saved, ~Blocked(f), f.pending \notin {"start", "adopt"},
         f.saveTimer => f.usable, f.persistTimer => f.usable /\ ~f.moved
  PROVE  Flags(f)
BY DEF Flags, Told, Even, Blocked

LEMMA EditedFits ==
  ASSUME NEW o, NEW e, Stored(o), Fits(o, e), e.usable, ~Blocked(e), e.pending \notin {"start", "adopt"},
         NEW t \in Texts
  PROVE  LET f == Edited(e, t) IN
         /\ Fits(o, f) /\ Stays(e, f) /\ f.current = t /\ f.inputs > e.inputs /\ f.persistTimer
         /\ f.rev = e.rev /\ f.conflict = None /\ f.recovery = e.recovery
         /\ f.attempt = e.attempt /\ f.uncertain = e.uncertain
<1> DEFINE f == Edited(e, t)
<1>1. e \in EditorsTo(Len(o)) /\ e.inputs \in Nat
  BY DEF Fits, Frame, EditorsTo
<1>2. /\ f \in EditorsTo(Len(o)) /\ Kin(e, f) /\ f.saved = e.saved /\ f.uncertain = e.uncertain
      /\ f.current = t /\ f.inputs = e.inputs + 1 /\ f.persistTimer = ~e.moved
      /\ f.saveTimer => e.saveTimer \/ e.usable
      /\ Told(f) /\ Even(f)
  BY <1>1, EditedIs
<1> HIDE DEF f
<1>3. Frame(o, f)
  BY <1>2 DEF Fits, Frame, Kin
<1>4. AttemptFits(o, f)
  BY <1>2 DEF Fits, AttemptFits, Kin
<1>5. ~Blocked(f) /\ f.conflict = None /\ ~e.moved
  BY <1>2 DEF Blocked, Kin
<1>6. Flags(f)
  BY <1>2, <1>3, <1>5, SavedIsStored, FreeFlags DEF Kin
<1>7. f.inputs > e.inputs
  BY <1>1, <1>2
<1>8. QED
  BY <1>2, <1>3, <1>4, <1>5, <1>6, <1>7 DEF Fits, Kin, Stays, f

\* A badge that is refreshed, a timer that is set, retries that are forgotten.
LEMMA AgainFits ==
  ASSUME NEW o, NEW e, NEW f \in EditorsTo(Len(o)), Fits(o, e), Alike(e, f), f.queued = e.queued,
         f.persistTimer => e.persistTimer, f.saveTimer => e.saveTimer \/ e.usable,
         Told(f) \/ f.shown = e.shown
  PROVE  Fits(o, f) /\ Stays(e, f)
<1>1. Frame(o, f)
  BY DEF Fits, Frame, Alike, Kin
<1>2. AttemptFits(o, f)
  BY DEF Fits, AttemptFits, Alike, Kin
<1>3. Flags(f)
  BY DEF Fits, Flags, Alike, Kin, Clean, Blocked, Told
<1>4. QED
  BY <1>1, <1>2, <1>3 DEF Fits, Stays, Alike, Kin

LEMMA SendAgainFits ==
  ASSUME NEW o, NEW e, Fits(o, e)
  PROVE  LET f == Scheduled(Refreshed(Restarted(e))) IN
         Fits(o, f) /\ Stays(e, f) /\ Alike(e, f) /\ f.queued = e.queued /\ f.persistTimer = e.persistTimer
<1> DEFINE a == Restarted(e)
           f == Scheduled(Refreshed(a))
<1>1. e \in EditorsTo(Len(o))
  BY DEF Fits, Frame
<1>2. /\ a \in EditorsTo(Len(o)) /\ Alike(e, a) /\ a.queued = e.queued
      /\ a.saveTimer = e.saveTimer /\ a.persistTimer = e.persistTimer
  BY <1>1, RestartedIs
<1> HIDE DEF a
<1>3. /\ f \in EditorsTo(Len(o)) /\ Alike(a, f) /\ f.queued = a.queued
      /\ f.persistTimer = a.persistTimer
      /\ f.saveTimer => a.saveTimer \/ a.usable
      /\ Told(f)
  BY <1>2, AgainIs
<1> HIDE DEF f
<1>4. Alike(e, f) /\ (f.saveTimer => e.saveTimer \/ e.usable)
  BY <1>2, <1>3, AlikeTwice DEF Alike, Kin
<1>5. Fits(o, f) /\ Stays(e, f)
  BY <1>2, <1>3, <1>4, AgainFits
<1>6. QED
  BY <1>2, <1>3, <1>4, <1>5 DEF a, f

\* The end of an attempt whose error was handled, or of no attempt.
LEMMA HandledFits ==
  ASSUME NEW o, NEW e, Frame(o, e), e.usable, e.pending \notin {"start", "adopt"},
         Blocked(e) => e.queued # None, e.moved => ~e.persistTimer,
         e.queued = None => Canon[e.current] = e.saved /\ ~e.uncertain
  PROVE  LET f == Handled(e) IN
         /\ Fits(o, f) /\ Stays(e, f) /\ f.attempt = None /\ f.current = e.current /\ f.queued = e.queued
         /\ f.inputs = e.inputs /\ f.rev = e.rev /\ f.conflict = e.conflict /\ f.recovery = e.recovery
         /\ f.uncertain = e.uncertain /\ f.persistTimer = e.persistTimer /\ f.moved = e.moved
<1> DEFINE a == [e EXCEPT !.attempt = None, !.retries = 0, !.waiting = FALSE]
           f == Scheduled(Refreshed(a))
<1>1. e \in EditorsTo(Len(o)) /\ 0 \in 0..MaxRetries
  BY RetriesAreCounted DEF Frame
<1>2. a \in EditorsTo(Len(o))
  BY <1>1, ZenonT(40) DEF EditorsTo
<1>3. /\ Stays(e, a) /\ a.attempt = None /\ a.current = e.current /\ a.queued = e.queued /\ a.saved = e.saved
      /\ a.inputs = e.inputs /\ a.rev = e.rev /\ a.basis = e.basis /\ a.conflict = e.conflict
      /\ a.recovery = e.recovery /\ a.uncertain = e.uncertain /\ a.persistTimer = e.persistTimer
      /\ a.saveTimer = e.saveTimer /\ a.moved = e.moved
  BY <1>1 DEF EditorsTo, Stays
<1>4. Handled(e) = f
  BY DEF Handled
<1> HIDE DEF a
<1>5. /\ f \in EditorsTo(Len(o)) /\ Alike(a, f) /\ f.queued = a.queued
      /\ f.persistTimer = a.persistTimer
      /\ f.saveTimer => a.saveTimer \/ a.usable
      /\ Told(f)
  BY <1>2, AgainIs
<1> HIDE DEF f
<1>6. Frame(o, f)
  BY <1>3, <1>5 DEF Frame, Stays, Alike, Kin
<1>7. f.attempt = None /\ AttemptFits(o, f)
  BY <1>3, <1>5 DEF AttemptFits, Alike, Kin
<1>8. Flags(f)
  BY <1>3, <1>5 DEF Flags, Stays, Alike, Kin, Blocked, Told
<1>9. QED
  BY <1>3, <1>4, <1>5, <1>6, <1>7, <1>8 DEF Fits, Stays, Alike, Kin

-----------------------------------------------------------------------------
(***************************************************************************)
(* Conflicts and drafts that are gone                                      *)
(***************************************************************************)

Moves(e) ==
    [e EXCEPT !.moved = TRUE, !.conflict = None, !.recovery = None, !.resolving = FALSE,
              !.queued = e.current, !.saveTimer = FALSE, !.persistTimer = FALSE]
LEMMA MovesIs ==
  ASSUME NEW n, NEW e \in EditorsTo(n)
  PROVE  LET f == Moves(e) IN
         /\ f \in EditorsTo(n) /\ Stays(e, f) /\ f.saved = e.saved /\ f.current = e.current
         /\ f.uncertain = e.uncertain /\ f.inputs = e.inputs /\ f.attempt = e.attempt
         /\ f.rev = e.rev /\ f.basis = e.basis /\ f.moved /\ f.conflict = None /\ f.recovery = None
         /\ f.queued = e.current /\ ~f.saveTimer /\ ~f.persistTimer
<1>0. e.current \in Texts \cup {None}
  BY DEF EditorsTo
<1>1. Moves(e) \in EditorsTo(n)
  BY <1>0, ZenonT(40) DEF EditorsTo, Moves
<1>2. Stays(e, Moves(e))
  BY DEF EditorsTo, Moves, Stays
<1>3. QED
  BY <1>1, <1>2 DEF EditorsTo, Moves

LEMMA MovedFits ==
  ASSUME NEW o, NEW e, Fits(o, e), e.usable, ~e.hydrating, e.recovery = None,
         e.attempt # None \/ e.conflict # None
  PROVE  LET m == Moved(e)
             f == AttemptOver(m) IN
         /\ Fits(o, f) /\ Stays(e, f) /\ f.attempt = None /\ f.current = e.current /\ f.queued = e.current
         /\ f.inputs = e.inputs /\ f.rev = e.rev /\ f.conflict = None /\ f.recovery = None
         /\ f.uncertain = e.uncertain /\ f.moved
         /\ e.attempt # None => f = Handled(m)
<1> DEFINE a == Restarted(e)
           b == Moves(a)
           m == Refreshed(b)
           f == AttemptOver(m)
<1>1. e \in EditorsTo(Len(o)) /\ e.current \in Texts
  BY DEF Fits, Frame, EditorsTo
<1>2. a \in EditorsTo(Len(o)) /\ Alike(e, a)
  BY <1>1, RestartedIs
<1>3. a.current = e.current
  BY <1>2 DEF Alike
<1>4. Moved(e) = m
  BY <1>3 DEF Moved, Moves
<1> HIDE DEF a
<1>5. /\ b \in EditorsTo(Len(o)) /\ Stays(a, b) /\ b.saved = a.saved /\ b.current = a.current
      /\ b.uncertain = a.uncertain /\ b.inputs = a.inputs /\ b.attempt = a.attempt
      /\ b.rev = a.rev /\ b.basis = a.basis /\ b.moved /\ b.conflict = None /\ b.recovery = None
      /\ b.queued = a.current /\ ~b.saveTimer /\ ~b.persistTimer
  BY <1>2, MovesIs
<1> HIDE DEF b
<1>6. /\ m \in EditorsTo(Len(o)) /\ Alike(b, m) /\ m.queued = b.queued
      /\ m.saveTimer = b.saveTimer /\ m.persistTimer = b.persistTimer /\ Told(m)
  BY <1>5, RefreshedIs
<1> HIDE DEF m
<1>7. e.pending \notin {"start", "adopt"}
  BY DEF Fits, Flags, Clean, Blocked
<1>8. /\ Stays(e, m) /\ m.saved = e.saved /\ m.current = e.current /\ m.uncertain = e.uncertain
      /\ m.inputs = e.inputs /\ m.attempt = e.attempt /\ m.rev = e.rev /\ m.basis = e.basis
      /\ m.moved /\ m.conflict = None /\ m.recovery = None /\ m.queued = e.current
      /\ ~m.saveTimer /\ ~m.persistTimer
  BY <1>2, <1>5, <1>6 DEF Alike, Kin, Stays
<1>9. Frame(o, m)
  BY <1>6, <1>8 DEF Fits, Frame, Stays
<1>10. m.queued # None
  BY <1>1, <1>8, NoneIsApart
<1>11. CASE e.attempt = None
  <2>1. AttemptFits(o, m) /\ f = m
    BY <1>8, <1>11 DEF AttemptFits, AttemptOver
  <2>2. Flags(m)
    BY <1>6, <1>7, <1>8, <1>10 DEF Flags, Told, Blocked, Stays
  <2>3. QED
    BY <1>4, <1>8, <1>9, <1>11, <2>1, <2>2 DEF Fits
<1>12. CASE e.attempt # None
  <2>1. f = Handled(m)
    BY <1>8, <1>12 DEF AttemptOver
  <2> HIDE DEF f
  <2>0. m.usable /\ m.pending \notin {"start", "adopt"} /\ ~m.persistTimer
    BY <1>7, <1>8 DEF Stays
  <2>2. /\ Fits(o, f) /\ Stays(m, f) /\ f.attempt = None /\ f.current = m.current /\ f.queued = m.queued
        /\ f.inputs = m.inputs /\ f.rev = m.rev /\ f.conflict = m.conflict /\ f.recovery = m.recovery
        /\ f.uncertain = m.uncertain /\ f.moved = m.moved
    BY <1>9, <1>10, <2>0, <2>1, HandledFits
  <2>3. QED
    BY <1>4, <1>8, <2>1, <2>2 DEF Stays, f
<1>13. QED
  BY <1>11, <1>12

AtRevision(e, r) == [e EXCEPT !.rev = r]
LEMMA AtRevisionIs ==
  ASSUME NEW n, NEW e \in EditorsTo(n), NEW r \in 1..n
  PROVE  LET f == AtRevision(e, r) IN
         /\ f \in EditorsTo(n) /\ Stays(e, f) /\ f.rev = r /\ f.current = e.current /\ f.inputs = e.inputs
         /\ f.attempt = e.attempt /\ f.basis = e.basis /\ f.conflict = e.conflict
         /\ f.recovery = e.recovery /\ f.moved = e.moved /\ f.saveTimer = e.saveTimer
<1>1. AtRevision(e, r) \in EditorsTo(n)
  BY DEF EditorsTo, AtRevision
<1>2. Stays(e, AtRevision(e, r))
  BY DEF EditorsTo, AtRevision, Stays
<1>3. QED
  BY <1>1, <1>2 DEF EditorsTo, AtRevision

\* The text of a newer revision r is known to be the saved one.
LEMMA RebasedAt ==
  ASSUME NEW n, NEW e \in EditorsTo(n), NEW r \in 1..n, NEW t \in Texts
  PROVE  LET f == Rebased(AtRevision(e, r), t) IN
         /\ f \in EditorsTo(n) /\ Stays(e, f) /\ f.rev = r /\ f.current = e.current /\ f.inputs = e.inputs
         /\ f.attempt = e.attempt /\ f.basis = e.basis /\ f.conflict = e.conflict
         /\ f.recovery = e.recovery /\ f.moved = e.moved /\ f.saveTimer = e.saveTimer
         /\ f.saved = t /\ ~f.uncertain /\ f.persistTimer = ~e.moved
<1> DEFINE a == AtRevision(e, r)
           f == Rebased(a, t)
<1>1. /\ a \in EditorsTo(n) /\ Stays(e, a) /\ a.rev = r /\ a.current = e.current /\ a.inputs = e.inputs
      /\ a.attempt = e.attempt /\ a.basis = e.basis /\ a.conflict = e.conflict
      /\ a.recovery = e.recovery /\ a.moved = e.moved /\ a.saveTimer = e.saveTimer
  BY AtRevisionIs
<1> HIDE DEF a
<1>2. /\ f \in EditorsTo(n) /\ Kin(a, f) /\ f.saved = t /\ ~f.uncertain
      /\ f.current = a.current /\ f.inputs = a.inputs
      /\ f.persistTimer = ~a.moved /\ f.saveTimer = a.saveTimer
  BY <1>1, RebasedIs
<1> HIDE DEF f
<1>3. QED
  BY <1>1, <1>2 DEF Kin, Stays, a, f

\* The conflict and the choice are over.
Freed(e, r) == [e EXCEPT !.conflict = None, !.recovery = None, !.basis = r]
LEMMA FreedIs ==
  ASSUME NEW n, NEW e \in EditorsTo(n), NEW r \in 1..n
  PROVE  LET f == Freed(e, r) IN
         /\ f \in EditorsTo(n) /\ Stays(e, f) /\ f.rev = e.rev /\ f.current = e.current
         /\ f.inputs = e.inputs /\ f.attempt = e.attempt /\ f.basis = r /\ f.conflict = None
         /\ f.recovery = None /\ f.moved = e.moved /\ f.saveTimer = e.saveTimer
         /\ f.saved = e.saved /\ f.uncertain = e.uncertain
<1>1. Freed(e, r) \in EditorsTo(n)
  BY DEF EditorsTo, Freed
<1>2. Stays(e, Freed(e, r))
  BY DEF EditorsTo, Freed, Stays
<1>3. QED
  BY <1>1, <1>2 DEF EditorsTo, Freed

\* The conflict turns out to be none: revision r has what was sent.
LEMMA ConvergedFits ==
  ASSUME NEW e, Stored(log), Fits(log, e), e.usable, e.conflict # None, e.recovery = None,
         NEW r \in 1..Len(log), Canon[e.conflict.text] = log[r]
  PROVE  LET f == AttemptOver(Converged(e, r)) IN
         /\ Fits(log, f) /\ Stays(e, f) /\ f.attempt = None /\ f.current = e.current
         /\ f.inputs = e.inputs /\ f.rev = r /\ f.conflict = None /\ f.recovery = None
         /\ f.persistTimer /\ ~f.uncertain
<1> DEFINE t == log[r]
           b == Rebased(AtRevision(e, r), t)
           c == Freed(b, r)
           d == Unblocked(c)
           f == AttemptOver(d)
<1>1. /\ e \in EditorsTo(Len(log)) /\ ~e.hydrating /\ ~e.moved /\ e.pending \notin {"start", "adopt"}
      /\ t \in Texts /\ Canon[t] = t
  BY DEF Fits, Frame, Flags, Clean, Blocked, Stored
<1>2. Converged(e, r) = d
  BY DEF Converged, Freed, AtRevision
<1>3. /\ b \in EditorsTo(Len(log)) /\ Stays(e, b) /\ b.rev = r /\ b.current = e.current /\ b.inputs = e.inputs
      /\ b.attempt = e.attempt /\ b.moved = e.moved /\ b.saveTimer = e.saveTimer
      /\ b.saved = t /\ ~b.uncertain
  BY <1>1, RebasedAt
<1> HIDE DEF b
<1>4. /\ c \in EditorsTo(Len(log)) /\ Stays(b, c) /\ c.rev = b.rev /\ c.current = b.current /\ c.inputs = b.inputs
      /\ c.attempt = b.attempt /\ c.basis = r /\ c.conflict = None /\ c.recovery = None
      /\ c.moved = b.moved /\ c.saveTimer = b.saveTimer /\ c.saved = b.saved /\ c.uncertain = b.uncertain
  BY <1>3, FreedIs
<1> HIDE DEF c
<1>5. /\ d \in EditorsTo(Len(log)) /\ Alike(c, d) /\ d.persistTimer = ~c.moved
      /\ (d.saveTimer => c.saveTimer \/ c.usable) /\ Told(d) /\ Even(d)
  BY <1>4, UnblockedIs
<1> HIDE DEF d
<1>6. /\ Stays(e, d) /\ d.rev = r /\ d.current = e.current /\ d.inputs = e.inputs /\ d.attempt = e.attempt
      /\ d.basis = r /\ d.conflict = None /\ d.recovery = None /\ ~d.moved /\ d.saved = t /\ ~d.uncertain
      /\ d.persistTimer
  <2>1. Kin(c, d) /\ d.saved = c.saved /\ d.current = c.current /\ d.uncertain = c.uncertain /\ d.inputs = c.inputs
    BY <1>5 DEF Alike
  <2>2. Stays(e, d)
    <3>1. Stays(c, d)
      BY <2>1, KinStays
    <3>2. Stays(e, c)
      BY <1>3, <1>4, StaysOn
    <3>3. QED
      BY <3>1, <3>2, StaysOn
  <2>3. /\ d.attempt = c.attempt /\ d.rev = c.rev /\ d.basis = c.basis /\ d.conflict = c.conflict
        /\ d.recovery = c.recovery /\ d.moved = c.moved
    BY <2>1 DEF Kin
  <2>4. /\ c.rev = r /\ c.current = e.current /\ c.inputs = e.inputs /\ c.attempt = e.attempt /\ c.saved = t
        /\ ~c.uncertain /\ ~c.moved
    BY <1>1, <1>3, <1>4
  <2>5. QED
    BY <1>4, <1>5, <2>1, <2>2, <2>3, <2>4
<1> HIDE DEF t
<1>7. Frame(log, d)
  BY <1>1, <1>5, <1>6 DEF Fits, Frame, Stays, t
<1>8. ~Blocked(d) /\ d.usable /\ d.pending \notin {"start", "adopt"}
  BY <1>1, <1>6 DEF Blocked, Stays
<1>9. CASE e.attempt = None
  <2>1. AttemptFits(log, d) /\ f = d
    BY <1>6, <1>9 DEF AttemptFits, AttemptOver
  <2>2. Flags(d)
    BY <1>1, <1>5, <1>6, <1>8, FreeFlags
  <2>3. QED
    BY <1>2, <1>6, <1>7, <1>9, <2>1, <2>2 DEF Fits
<1>10. CASE e.attempt # None
  <2>1. f = Handled(d)
    BY <1>6, <1>10 DEF AttemptOver
  <2> HIDE DEF f
  <2>2. d.queued = None => Canon[d.current] = d.saved /\ ~d.uncertain
    <3>1. e.conflict.text = e.attempt.text
      BY <1>10 DEF Fits, AttemptFits
    <3>2. d.queued = None => d.current = e.attempt.text
      BY <1>5, <1>6, <1>10 DEF Even
    <3>3. QED
      BY <1>6, <3>1, <3>2 DEF t
  <2>3. /\ Fits(log, f) /\ Stays(d, f) /\ f.attempt = None /\ f.current = d.current
        /\ f.inputs = d.inputs /\ f.rev = d.rev /\ f.conflict = d.conflict /\ f.recovery = d.recovery
        /\ f.persistTimer = d.persistTimer /\ f.uncertain = d.uncertain
    <3>1. /\ Frame(log, d) /\ d.usable /\ d.pending \notin {"start", "adopt"}
          /\ Blocked(d) => d.queued # None
          /\ d.moved => ~d.persistTimer
          /\ d.queued = None => Canon[d.current] = d.saved /\ ~d.uncertain
      BY <1>6, <1>7, <1>8, <2>2
    <3> DEFINE h == Handled(d)
    <3>2. /\ Fits(log, h) /\ Stays(d, h) /\ h.attempt = None /\ h.current = d.current
          /\ h.inputs = d.inputs /\ h.rev = d.rev /\ h.conflict = d.conflict /\ h.recovery = d.recovery
          /\ h.persistTimer = d.persistTimer /\ h.uncertain = d.uncertain
      BY <3>1, HandledFits
    <3>3. QED
      BY <2>1, <3>2
  <2>4. QED
    BY <1>2, <1>6, <2>3 DEF Stays, f
<1>11. QED
  BY <1>9, <1>10

Offers(e, d) == [e EXCEPT !.recovery = d, !.lastCached = d, !.resolving = FALSE]
LEMMA OffersIs ==
  ASSUME NEW n, NEW e \in EditorsTo(n), NEW d \in DraftsTo(n)
  PROVE  LET f == Offers(e, d) IN
         /\ f \in EditorsTo(n) /\ Stays(e, f) /\ f.rev = e.rev /\ f.current = e.current
         /\ f.inputs = e.inputs /\ f.attempt = e.attempt /\ f.basis = e.basis /\ f.conflict = e.conflict
         /\ f.recovery = d /\ f.moved = e.moved /\ f.saved = e.saved /\ f.uncertain = e.uncertain
<1>1. Offers(e, d) \in EditorsTo(n)
  BY ZenonT(40) DEF EditorsTo, Offers
<1>2. Stays(e, Offers(e, d))
  BY DEF EditorsTo, Offers, Stays
<1>3. QED
  BY <1>1, <1>2 DEF EditorsTo, Offers

LEMMA DraftsAreSome ==
  ASSUME NEW n \in Nat, NEW d \in DraftsTo(n)
  PROVE  d # None
<1>1. d \in [text : Texts, base : Nat, basis : Nat]
  BY DEF DraftsTo
<1>2. QED
  BY <1>1, NoneIsApart

LEMMA AttemptsAreSome ==
  ASSUME NEW n \in Nat, NEW a \in AttemptsTo(n)
  PROVE  a # None
<1>1. a \in [text : Texts, base : Nat, basis : Nat, inputs : Nat, rev : Nat,
             stage : {"sent", "ok", "conflict", "gone", "resolving"}]
  BY DEF AttemptsTo, Stages
<1>2. QED
  BY <1>1, NoneIsApart

\* The draft an editor keeps is of a revision its author saw, or replaces.
LEMMA DraftOfFits ==
  ASSUME NEW o, NEW e, Stored(o), Frame(o, e)
  PROVE  /\ DraftOf(e) \in DraftsTo(Len(o)) /\ DraftOf(e) # None /\ DraftOf(e).text = e.current
         /\ DraftOf(e).base = DraftOf(e).basis
<1>1. /\ e.rev \in 1..Len(o) /\ e.basis \in 1..Len(o) /\ e.current \in Texts
      /\ e.conflict # None => e.conflict.base \in 1..Len(o)
  BY DEF Frame, EditorsTo, ConflictsTo
<1>2. e.basis = IF e.conflict # None THEN e.conflict.base ELSE e.rev
  BY DEF Frame
<1>3. Len(o) \in Nat
  BY DEF Stored
<1>4. DraftOf(e) \in DraftsTo(Len(o)) /\ DraftOf(e).text = e.current /\ DraftOf(e).base = DraftOf(e).basis
  BY <1>1, <1>2 DEF DraftOf, DraftsTo
<1>5. QED
  BY <1>3, <1>4, DraftsAreSome

\* The server has something else: the user chooses between the two.
LEMMA OfferedChoiceFits ==
  ASSUME NEW e, Stored(log), Fits(log, e), e.usable, e.conflict # None, e.recovery = None,
         NEW r \in 1..Len(log)
  PROVE  LET f == AttemptOver(OfferedChoice(e, r)) IN
         /\ Fits(log, f) /\ Stays(e, f) /\ f.attempt = None /\ f.current = e.current
         /\ f.inputs = e.inputs /\ f.rev = r /\ f.conflict # None /\ f.recovery # None
         /\ f.persistTimer /\ ~f.uncertain
<1> DEFINE t == log[r]
           b == Rebased(AtRevision(e, r), t)
           w == [DraftOf(e) EXCEPT !.base = e.conflict.base]
           c == Offers(b, w)
           d == BlockedWith(c, e.current)
           f == AttemptOver(d)
<1>1. /\ e \in EditorsTo(Len(log)) /\ ~e.hydrating /\ ~e.moved /\ e.pending \notin {"start", "adopt"}
      /\ t \in Texts /\ e.basis = e.conflict.base /\ e.current \in Texts
  BY DEF Fits, Frame, Flags, Clean, Blocked, Stored, EditorsTo
<1>2. w \in DraftsTo(Len(log)) /\ w # None
  <2>1. DraftOf(e) \in DraftsTo(Len(log)) /\ e.conflict.base \in 1..Len(log)
    BY DraftOfFits DEF Fits, Frame, EditorsTo, ConflictsTo
  <2>2. w \in DraftsTo(Len(log)) /\ Len(log) \in Nat
    BY <2>1 DEF DraftsTo, Stored
  <2>3. QED
    BY <2>2, DraftsAreSome
<1>3. OfferedChoice(e, r) = d
  BY DEF OfferedChoice, Offers, AtRevision
<1> HIDE DEF w
<1>4. /\ b \in EditorsTo(Len(log)) /\ Stays(e, b) /\ b.rev = r /\ b.current = e.current /\ b.inputs = e.inputs
      /\ b.attempt = e.attempt /\ b.basis = e.basis /\ b.conflict = e.conflict
      /\ b.moved = e.moved /\ b.saved = t /\ ~b.uncertain
  BY <1>1, RebasedAt
<1> HIDE DEF b
<1>5. /\ c \in EditorsTo(Len(log)) /\ Stays(b, c) /\ c.rev = b.rev /\ c.inputs = b.inputs
      /\ c.attempt = b.attempt /\ c.basis = b.basis /\ c.conflict = b.conflict /\ c.recovery = w
      /\ c.moved = b.moved /\ c.saved = b.saved /\ c.uncertain = b.uncertain
  BY <1>2, <1>4, OffersIs
<1> HIDE DEF c
<1>6. /\ d \in EditorsTo(Len(log)) /\ Kin(c, d) /\ d.saved = c.saved /\ d.uncertain = c.uncertain
      /\ d.inputs = c.inputs /\ d.current = e.current /\ d.queued = e.current
      /\ d.persistTimer = ~c.moved /\ ~d.saveTimer /\ Told(d)
  BY <1>1, <1>5, BlockedWithIs
<1> HIDE DEF d
<1>7. /\ Stays(e, d) /\ d.rev = r /\ d.current = e.current /\ d.inputs = e.inputs /\ d.attempt = e.attempt
      /\ d.basis = e.basis /\ d.conflict = e.conflict /\ d.recovery = w /\ ~d.moved /\ d.saved = t
      /\ ~d.uncertain /\ d.persistTimer /\ d.queued = e.current
  <2>1. Stays(e, d)
    <3>1. Stays(c, d)
      BY <1>6, KinStays
    <3>2. Stays(e, c)
      BY <1>4, <1>5, StaysOn
    <3>3. QED
      BY <3>1, <3>2, StaysOn
  <2>2. /\ d.attempt = c.attempt /\ d.rev = c.rev /\ d.basis = c.basis /\ d.conflict = c.conflict
        /\ d.recovery = c.recovery /\ d.moved = c.moved
    BY <1>6 DEF Kin
  <2>3. /\ c.rev = r /\ c.inputs = e.inputs /\ c.attempt = e.attempt /\ c.basis = e.basis
        /\ c.conflict = e.conflict /\ c.recovery = w /\ ~c.moved /\ c.saved = t /\ ~c.uncertain
    BY <1>1, <1>4, <1>5
  <2>4. QED
    BY <1>6, <2>1, <2>2, <2>3
<1> HIDE DEF t
<1>8. Frame(log, d)
  BY <1>1, <1>2, <1>6, <1>7 DEF Fits, Frame, Stays, t
<1>9. d.usable /\ d.pending \notin {"start", "adopt"} /\ d.queued # None
  BY <1>1, <1>7, NoneIsApart DEF Stays
<1>10. CASE e.attempt = None
  <2>1. AttemptFits(log, d) /\ f = d
    BY <1>7, <1>10 DEF AttemptFits, AttemptOver
  <2>2. Flags(d)
    BY <1>6, <1>7, <1>9 DEF Flags, Told, Stays
  <2>3. QED
    BY <1>2, <1>3, <1>7, <1>8, <1>10, <2>1, <2>2 DEF Fits
<1>11. CASE e.attempt # None
  <2>1. f = Handled(d)
    BY <1>7, <1>11 DEF AttemptOver
  <2> HIDE DEF f
  <2>2. /\ Fits(log, f) /\ Stays(d, f) /\ f.attempt = None /\ f.current = d.current
        /\ f.inputs = d.inputs /\ f.rev = d.rev /\ f.conflict = d.conflict /\ f.recovery = d.recovery
        /\ f.persistTimer = d.persistTimer /\ f.uncertain = d.uncertain
    <3>1. /\ Frame(log, d) /\ d.usable /\ d.pending \notin {"start", "adopt"}
          /\ Blocked(d) => d.queued # None
          /\ d.moved => ~d.persistTimer
          /\ d.queued = None => Canon[d.current] = d.saved /\ ~d.uncertain
      BY <1>7, <1>8, <1>9
    <3> DEFINE h == Handled(d)
    <3>2. /\ Fits(log, h) /\ Stays(d, h) /\ h.attempt = None /\ h.current = d.current
          /\ h.inputs = d.inputs /\ h.rev = d.rev /\ h.conflict = d.conflict /\ h.recovery = d.recovery
          /\ h.persistTimer = d.persistTimer /\ h.uncertain = d.uncertain
      BY <3>1, HandledFits
    <3>3. QED
      BY <2>1, <3>2
  <2>3. QED
    BY <1>2, <1>3, <1>7, <2>2 DEF Stays, f
<1>12. QED
  BY <1>10, <1>11

\* The answer is an offer, or none is needed.
LEMMA ResolvedFits ==
  ASSUME NEW e, Stored(log), Fits(log, e), e.usable, e.conflict # None, e.recovery = None,
         NEW r \in 1..Len(log)
  PROVE  LET f == AttemptOver(Resolved(e, r)) IN
         /\ Fits(log, f) /\ Stays(e, f) /\ f.attempt = None /\ f.current = e.current
         /\ f.inputs = e.inputs /\ f.rev = r
         /\ f.persistTimer /\ ~f.uncertain
<1>1. CASE Canon[e.conflict.text] = log[r]
  BY <1>1, ConvergedFits DEF Resolved
<1>2. CASE Canon[e.conflict.text] # log[r]
  BY <1>2, OfferedChoiceFits DEF Resolved
<1>3. QED
  BY <1>1, <1>2

-----------------------------------------------------------------------------
(***************************************************************************)
(* A save and its answers                                                  *)
(***************************************************************************)

Saves(e, t, r, x) ==
    [e EXCEPT !.saved = t, !.uncertain = FALSE, !.attempt = None, !.rev = r, !.basis = r, !.current = x]
LEMMA SavesIs ==
  ASSUME NEW n, NEW e \in EditorsTo(n), NEW r \in 1..n, NEW t \in Texts, NEW x \in Texts
  PROVE  LET f == Saves(e, t, r, x) IN
         /\ f \in EditorsTo(n) /\ Stays(e, f) /\ f.rev = r /\ f.basis = r /\ f.current = x
         /\ f.inputs = e.inputs /\ f.attempt = None /\ f.conflict = e.conflict
         /\ f.recovery = e.recovery /\ f.moved = e.moved /\ f.saveTimer = e.saveTimer
         /\ f.persistTimer = e.persistTimer /\ f.shown = e.shown /\ f.saved = t /\ ~f.uncertain
<1>1. Saves(e, t, r, x) \in EditorsTo(n)
  BY ZenonT(40) DEF EditorsTo, Saves
<1>2. Stays(e, Saves(e, t, r, x))
  BY DEF EditorsTo, Saves, Stays
<1>3. QED
  BY <1>1, <1>2 DEF EditorsTo, Saves

\* A request on its way: what it means for the editor that waits for it.
LEMMA AttemptMeans ==
  ASSUME NEW o, NEW e, Fits(o, e), e.attempt # None
  PROVE  /\ e.attempt \in AttemptsTo(Len(o)) /\ e.usable /\ ~e.hydrating /\ ~e.moved /\ e.recovery = None
         /\ e.pending \notin {"start", "adopt"} /\ e.shown # "saved" /\ ~Settled(e)
         /\ e.attempt.stage # "resolving" => e.conflict = None /\ ~Blocked(e)
BY DEF Fits, Frame, AttemptFits, Flags, Clean, EditorsTo, Settled, Blocked

LEMMA AcknowledgedFits ==
  ASSUME NEW e, Stored(log), Fits(log, e), e.attempt # None, e.attempt.stage = "ok"
  PROVE  LET r == e.attempt.rev
             f == Acknowledged(e, r) IN
         /\ Fits(log, f) /\ Stays(e, f) /\ f.attempt = None /\ f.inputs = e.inputs /\ f.rev = r
         /\ r \in 1..Len(log) /\ r >= e.rev
         /\ f.conflict = None /\ f.recovery = None /\ ~f.uncertain /\ ~f.moved
         /\ f.current # e.current => f.current = Canon[e.current]
<1> DEFINE r == e.attempt.rev
           t == log[r]
           x == IF e.current = e.attempt.text THEN t ELSE e.current
           a == Restarted(e)
           c == Saves(a, t, r, x)
           f == Reconciled(c)
<1>1. e \in EditorsTo(Len(log)) /\ e.current \in Texts /\ e.rev \in 1..Len(log)
  BY DEF Fits, Frame, EditorsTo
<1>2. /\ e.attempt \in AttemptsTo(Len(log)) /\ e.usable /\ ~e.hydrating /\ ~e.moved /\ e.recovery = None
      /\ e.pending \notin {"start", "adopt"} /\ e.shown # "saved" /\ e.conflict = None
  BY AttemptMeans
<1>3. r \in 0..Len(log) /\ r >= e.rev /\ t = Canon[e.attempt.text]
  BY <1>2 DEF Fits, AttemptFits, AttemptsTo
<1>4. r \in 1..Len(log)
  BY <1>1, <1>3 DEF Stored
<1>5. t \in Texts /\ Canon[t] = t /\ x \in Texts /\ (x # e.current => x = Canon[e.current])
  BY <1>1, <1>3, <1>4 DEF Stored
<1>6. a \in EditorsTo(Len(log)) /\ Alike(e, a) /\ a.saveTimer = e.saveTimer /\ a.persistTimer = e.persistTimer
      /\ a.shown = e.shown
  BY <1>1, RestartedIs
<1>7. Acknowledged(e, r) = f
  <2>1. a.current = e.current
    BY <1>6 DEF Alike
  <2>2. QED
    BY <2>1 DEF Acknowledged, Saves
<1> HIDE DEF a, x, t, r
<1>8. /\ c \in EditorsTo(Len(log)) /\ Stays(a, c) /\ c.rev = r /\ c.basis = r /\ c.current = x
      /\ c.inputs = a.inputs /\ c.attempt = None /\ c.conflict = a.conflict
      /\ c.recovery = a.recovery /\ c.moved = a.moved /\ c.saveTimer = a.saveTimer
      /\ c.persistTimer = a.persistTimer /\ c.shown = a.shown /\ c.saved = t /\ ~c.uncertain
  BY <1>4, <1>5, <1>6, SavesIs
<1> HIDE DEF c
<1>9. /\ f \in EditorsTo(Len(log)) /\ Alike(c, f) /\ f.saveTimer = c.saveTimer
      /\ f.persistTimer = c.persistTimer /\ f.shown = c.shown /\ Even(f)
  BY <1>8, ReconciledIs
<1> HIDE DEF f
<1>10. /\ Stays(e, f) /\ f.rev = r /\ f.basis = r /\ f.current = x /\ f.inputs = e.inputs
       /\ f.attempt = None /\ f.conflict = None /\ f.recovery = None /\ ~f.moved
       /\ f.saveTimer = e.saveTimer /\ f.persistTimer = e.persistTimer /\ f.shown = e.shown
       /\ f.saved = t /\ ~f.uncertain
  BY <1>2, <1>6, <1>8, <1>9 DEF Alike, Kin, Stays
<1>11. Frame(log, f)
  BY <1>2, <1>9, <1>10 DEF Fits, Frame, Stays, t
<1>12. AttemptFits(log, f)
  BY <1>10 DEF AttemptFits
<1>13. Flags(f)
  <2>1. f.usable /\ f.pending \notin {"start", "adopt"} /\ f.shown # "saved" /\ ~Blocked(f)
    BY <1>2, <1>10 DEF Stays, Blocked
  <2>2. QED
    BY <1>5, <1>9, <1>10, <2>1, FreeFlags DEF Told
<1>14. QED
  BY <1>3, <1>4, <1>5, <1>7, <1>10, <1>11, <1>12, <1>13 DEF Fits, r

\* A conflict blocks the text that is on the screen.
Conflicts(e, k) == [e EXCEPT !.conflict = k, !.recovery = None]
LEMMA ConflictsIs ==
  ASSUME NEW n, NEW e \in EditorsTo(n), NEW k \in ConflictsTo(n)
  PROVE  LET f == Conflicts(e, k) IN
         /\ f \in EditorsTo(n) /\ Stays(e, f) /\ f.rev = e.rev /\ f.current = e.current
         /\ f.inputs = e.inputs /\ f.attempt = e.attempt /\ f.basis = e.basis /\ f.conflict = k
         /\ f.recovery = None /\ f.moved = e.moved /\ f.saved = e.saved /\ f.uncertain = e.uncertain
         /\ f.resolving = e.resolving
<1>1. Conflicts(e, k) \in EditorsTo(n)
  BY ZenonT(40) DEF EditorsTo, Conflicts
<1>2. Stays(e, Conflicts(e, k))
  BY DEF EditorsTo, Conflicts, Stays
<1>3. QED
  BY <1>1, <1>2 DEF EditorsTo, Conflicts

\* The look at the latest draft begins, with the request it is for.
Looks(e, b, a) == [e EXCEPT !.resolving = b, !.attempt = a]
LEMMA LooksIs ==
  ASSUME NEW n, NEW e \in EditorsTo(n), NEW b \in BOOLEAN, NEW a \in AttemptsTo(n) \cup {None}
  PROVE  LET f == Looks(e, b, a) IN
         /\ f \in EditorsTo(n) /\ Stays(e, f) /\ f.rev = e.rev /\ f.current = e.current
         /\ f.inputs = e.inputs /\ f.attempt = a /\ f.basis = e.basis /\ f.conflict = e.conflict
         /\ f.recovery = e.recovery /\ f.moved = e.moved /\ f.saved = e.saved /\ f.uncertain = e.uncertain
         /\ f.queued = e.queued /\ f.saveTimer = e.saveTimer /\ f.persistTimer = e.persistTimer
         /\ f.shown = e.shown
<1>1. Looks(e, b, a) \in EditorsTo(n)
  BY ZenonT(40) DEF EditorsTo, Looks
<1>2. Stays(e, Looks(e, b, a))
  BY DEF EditorsTo, Looks, Stays
<1>3. QED
  BY <1>1, <1>2 DEF EditorsTo, Looks

ConflictOf(e) == [text |-> e.attempt.text, base |-> e.attempt.base]
InConflict(e) == BlockedWith([e EXCEPT !.conflict = ConflictOf(e), !.recovery = None], e.current)
Resolves(d) == [AskLatest(d) EXCEPT !.attempt.stage = "resolving"]
LEMMA ConflictFits ==
  ASSUME NEW o, NEW e, Stored(o), Fits(o, e), e.attempt # None, e.attempt.stage = "conflict"
  PROVE  LET f == Handled(InConflict(e))
             g == Resolves(InConflict(e)) IN
         /\ Fits(o, f) /\ Stays(e, f) /\ f.attempt = None /\ f.current = e.current /\ f.inputs = e.inputs
         /\ f.rev = e.rev /\ f.recovery = None /\ f.uncertain = e.uncertain /\ f.persistTimer
         /\ Fits(o, g) /\ Stays(e, g) /\ g.attempt.stage = "resolving" /\ g.current = e.current
         /\ g.inputs = e.inputs /\ g.conflict # None
         /\ g.rev = e.rev /\ g.recovery = None /\ g.uncertain = e.uncertain /\ g.persistTimer
<1> DEFINE k == ConflictOf(e)
           c == Conflicts(e, k)
           d == BlockedWith(c, e.current)
           f == Handled(d)
           b == d.resolving \/ d.mounted
           a == [e.attempt EXCEPT !.stage = "resolving"]
           g == Looks(d, b, a)
<1>1. e \in EditorsTo(Len(o)) /\ e.current \in Texts /\ e.current # None /\ Len(o) \in Nat
  BY NoneIsApart DEF Fits, Frame, EditorsTo, Stored
<1>2. /\ e.attempt \in AttemptsTo(Len(o)) /\ e.usable /\ ~e.hydrating /\ ~e.moved /\ e.recovery = None
      /\ e.pending \notin {"start", "adopt"} /\ e.shown # "saved" /\ e.conflict = None
      /\ e.attempt.base = e.rev /\ e.attempt.base = e.attempt.basis
  BY AttemptMeans DEF Fits, AttemptFits
<1>3. k \in ConflictsTo(Len(o)) /\ k # None /\ k.base = e.rev /\ k.text = e.attempt.text
  <2>1. k \in ConflictsTo(Len(o)) /\ k.base = e.rev /\ k.text = e.attempt.text
    BY <1>2 DEF AttemptsTo, ConflictsTo, ConflictOf
  <2>2. k \in [text : Texts, base : Nat]
    BY <1>1, <2>1 DEF ConflictsTo
  <2>3. QED
    BY <2>1, <2>2, NoneIsApart
<1>4. /\ a \in AttemptsTo(Len(o)) /\ a # None /\ a.stage = "resolving" /\ a.text = e.attempt.text
      /\ a.base = a.basis
  <2>1. /\ a \in AttemptsTo(Len(o)) /\ a.stage = "resolving" /\ a.text = e.attempt.text /\ a.base = a.basis
    BY <1>2 DEF AttemptsTo, Stages
  <2> HIDE DEF a
  <2>2. QED
    BY <1>1, <2>1, AttemptsAreSome
<1>5. [e EXCEPT !.conflict = k, !.recovery = None] = c
  BY DEF Conflicts
<1> HIDE DEF k, a
<1>6. /\ c \in EditorsTo(Len(o)) /\ Stays(e, c) /\ c.rev = e.rev /\ c.current = e.current
      /\ c.inputs = e.inputs /\ c.attempt = e.attempt /\ c.basis = e.basis /\ c.conflict = k
      /\ c.recovery = None /\ c.moved = e.moved /\ c.saved = e.saved /\ c.uncertain = e.uncertain
  BY <1>1, <1>3, ConflictsIs
<1> HIDE DEF c
<1>7. /\ d \in EditorsTo(Len(o)) /\ Kin(c, d) /\ d.saved = c.saved /\ d.uncertain = c.uncertain
      /\ d.inputs = c.inputs /\ d.current = e.current /\ d.queued = e.current
      /\ d.persistTimer = ~c.moved /\ ~d.saveTimer /\ Told(d)
  BY <1>1, <1>6, BlockedWithIs
<1> HIDE DEF d
<1>8. /\ Stays(e, d) /\ d.rev = e.rev /\ d.current = e.current /\ d.queued = e.current /\ d.inputs = e.inputs
      /\ d.attempt = e.attempt /\ d.basis = e.basis /\ d.conflict = k /\ d.recovery = None /\ ~d.moved
      /\ d.saved = e.saved /\ d.uncertain = e.uncertain /\ d.persistTimer
  <2>1. Stays(e, d)
    BY <1>6, <1>7, KinStays, StaysOn
  <2>2. /\ d.rev = c.rev /\ d.attempt = c.attempt /\ d.basis = c.basis /\ d.conflict = c.conflict
        /\ d.recovery = c.recovery /\ d.moved = c.moved
    BY <1>7 DEF Kin
  <2>3. QED
    BY <1>2, <1>6, <1>7, <2>1, <2>2
<1>9. d.usable /\ ~d.hydrating /\ d.pending \notin {"start", "adopt"} /\ d.shown # "saved" /\ d.queued # None
  BY <1>1, <1>2, <1>7, <1>8 DEF Stays, Told, Clean
<1>10. Frame(o, d)
  BY <1>2, <1>3, <1>7, <1>8, <1>9 DEF Fits, Frame, Stays
<1>11. /\ Fits(o, f) /\ Stays(d, f) /\ f.attempt = None /\ f.current = d.current /\ f.queued = d.queued
       /\ f.inputs = d.inputs /\ f.rev = d.rev /\ f.recovery = d.recovery
       /\ f.uncertain = d.uncertain /\ f.persistTimer = d.persistTimer
  <2>1. ~d.moved
    BY <1>8
  <2>2. QED
    BY <1>9, <1>10, <2>1, HandledFits
<1>12. g = [AskLatest(d) EXCEPT !.attempt.stage = "resolving"]
  <2>1. d.resolving \in BOOLEAN /\ d.mounted \in BOOLEAN
    BY <1>7 DEF EditorsTo
  <2>2. QED
    BY <1>7, <1>8, <2>1 DEF AskLatest, Looks, EditorsTo, a
<1> HIDE DEF f
<1>13. /\ g \in EditorsTo(Len(o)) /\ Stays(d, g) /\ g.rev = d.rev /\ g.current = d.current
       /\ g.inputs = d.inputs /\ g.attempt = a /\ g.basis = d.basis /\ g.conflict = d.conflict
       /\ g.recovery = d.recovery /\ g.moved = d.moved /\ g.saved = d.saved /\ g.uncertain = d.uncertain
       /\ g.queued = d.queued /\ g.saveTimer = d.saveTimer /\ g.persistTimer = d.persistTimer
       /\ g.shown = d.shown
  <2>1. b \in BOOLEAN
    OBVIOUS
  <2> HIDE DEF b
  <2>2. QED
    BY <1>4, <1>7, <2>1, LooksIs
<1> HIDE DEF g, b
<1>14. Frame(o, g)
  BY <1>8, <1>10, <1>13 DEF Frame, Stays
<1>15. AttemptFits(o, g)
  BY <1>3, <1>4, <1>8, <1>9, <1>13 DEF AttemptFits, Stays
<1>16. Flags(g)
  BY <1>4, <1>7, <1>8, <1>9, <1>13 DEF Flags, Stays
<1>17. /\ Stays(e, f) /\ f.current = e.current /\ f.inputs = e.inputs /\ f.rev = e.rev
       /\ f.recovery = None /\ f.uncertain = e.uncertain /\ f.persistTimer
  BY <1>8, <1>11 DEF Stays
<1>18. /\ Fits(o, g) /\ Stays(e, g) /\ g.attempt.stage = "resolving" /\ g.current = e.current
       /\ g.inputs = e.inputs /\ g.conflict # None
       /\ g.rev = e.rev /\ g.recovery = None /\ g.uncertain = e.uncertain /\ g.persistTimer
  BY <1>3, <1>4, <1>8, <1>13, <1>14, <1>15, <1>16 DEF Fits, Stays
<1>19. d = InConflict(e)
  BY <1>5 DEF InConflict, d, k
<1>20. Handled(InConflict(e)) = f /\ Resolves(InConflict(e)) = g
  BY <1>12, <1>19 DEF f, Resolves
<1>21. QED
  BY <1>11, <1>17, <1>18, <1>20

\* A request that failed: the text on the screen is to be sent again.
Fails(e, u) == [e EXCEPT !.attempt = None, !.queued = e.current, !.uncertain = u]
LEMMA FailedFits ==
  ASSUME NEW o, NEW e, Stored(o), Fits(o, e), e.attempt # None, e.attempt.stage # "resolving",
         NEW u \in BOOLEAN
  PROVE  LET f == Fails(e, u) IN
         /\ Fits(o, f) /\ Stays(e, f) /\ f.attempt = None /\ f.current = e.current /\ f.inputs = e.inputs
         /\ f.rev = e.rev /\ f.conflict = None /\ f.recovery = None /\ f.uncertain = u
         /\ ~Settled(f) /\ f.persistTimer = e.persistTimer
<1> DEFINE f == Fails(e, u)
<1>1. e \in EditorsTo(Len(o)) /\ e.current \in Texts \cup {None} /\ e.current # None
  BY NoneIsApart DEF Fits, Frame, EditorsTo
<1>2. /\ e.usable /\ ~e.hydrating /\ ~e.moved /\ e.recovery = None
      /\ e.pending \notin {"start", "adopt"} /\ e.shown # "saved" /\ e.conflict = None
  BY AttemptMeans
<1>3. f \in EditorsTo(Len(o))
  BY <1>1, ZenonT(40) DEF EditorsTo, Fails
<1>4. Stays(e, f)
  BY <1>1 DEF EditorsTo, Fails, Stays
<1>5. /\ f.attempt = None /\ f.current = e.current /\ f.queued = e.current /\ f.inputs = e.inputs
      /\ f.rev = e.rev /\ f.conflict = e.conflict /\ f.recovery = e.recovery /\ f.uncertain = u
      /\ f.basis = e.basis /\ f.moved = e.moved /\ f.saved = e.saved /\ f.shown = e.shown
      /\ f.saveTimer = e.saveTimer /\ f.persistTimer = e.persistTimer
  BY <1>1 DEF EditorsTo, Fails
<1> HIDE DEF f
<1>6. Frame(o, f)
  BY <1>2, <1>3, <1>4, <1>5 DEF Fits, Frame, Stays
<1>7. AttemptFits(o, f)
  BY <1>5 DEF AttemptFits
<1>8. Flags(f)
  BY <1>1, <1>2, <1>4, <1>5 DEF Fits, Flags, Stays
<1>9. ~Settled(f)
  BY <1>1, <1>5 DEF Settled
<1>10. QED
  BY <1>2, <1>4, <1>5, <1>6, <1>7, <1>8, <1>9 DEF Fits, f

\* Whether the conflict is being looked at concerns nothing else.
Looking(e, b) == [e EXCEPT !.resolving = b]
LEMMA LookingFits ==
  ASSUME NEW o, NEW e, Fits(o, e), NEW b \in BOOLEAN
  PROVE  LET f == Looking(e, b) IN
         /\ Fits(o, f) /\ Stays(e, f) /\ f.attempt = e.attempt /\ f.current = e.current
         /\ f.inputs = e.inputs /\ f.queued = e.queued /\ f.moved = e.moved
         /\ f.rev = e.rev /\ f.conflict = e.conflict /\ f.recovery = e.recovery /\ f.uncertain = e.uncertain
         /\ f.persistTimer = e.persistTimer
<1> DEFINE f == Looking(e, b)
<1>1. e \in EditorsTo(Len(o))
  BY DEF Fits, Frame
<1>2. f \in EditorsTo(Len(o))
  BY <1>1 DEF EditorsTo, Looking
<1>3. Stays(e, f)
  BY <1>1 DEF EditorsTo, Looking, Stays
<1>4. /\ f.attempt = e.attempt /\ f.current = e.current /\ f.queued = e.queued /\ f.inputs = e.inputs
      /\ f.rev = e.rev /\ f.conflict = e.conflict /\ f.recovery = e.recovery /\ f.uncertain = e.uncertain
      /\ f.basis = e.basis /\ f.moved = e.moved /\ f.saved = e.saved /\ f.shown = e.shown
      /\ f.saveTimer = e.saveTimer /\ f.persistTimer = e.persistTimer
  BY <1>1 DEF EditorsTo, Looking
<1> HIDE DEF f
<1>5. Frame(o, f)
  BY <1>2, <1>3, <1>4 DEF Fits, Frame, Stays
<1>6. AttemptFits(o, f)
  BY <1>3, <1>4 DEF Fits, AttemptFits, Stays
<1>7. Flags(f)
  BY <1>3, <1>4 DEF Fits, Flags, Stays, Clean, Blocked
<1>8. QED
  BY <1>3, <1>4, <1>5, <1>6, <1>7 DEF Fits, f

\* A look that failed ends the request it was for.
LEMMA LookFailsFits ==
  ASSUME NEW o, NEW e, Stored(o), Fits(o, e), e.usable, e.conflict # None
  PROVE  LET f == AttemptOver([e EXCEPT !.resolving = FALSE]) IN
         /\ Fits(o, f) /\ Stays(e, f) /\ f.attempt = None /\ f.current = e.current /\ f.inputs = e.inputs
         /\ f.rev = e.rev /\ f.conflict = e.conflict /\ f.recovery = e.recovery
         /\ f.uncertain = e.uncertain /\ f.persistTimer = e.persistTimer
<1> DEFINE d == Looking(e, FALSE)
           f == AttemptOver(d)
<1>0. [e EXCEPT !.resolving = FALSE] = d
  BY DEF Looking
<1>1. /\ Fits(o, d) /\ Stays(e, d) /\ d.attempt = e.attempt /\ d.current = e.current
      /\ d.inputs = e.inputs /\ d.queued = e.queued /\ d.moved = e.moved
      /\ d.rev = e.rev /\ d.conflict = e.conflict /\ d.recovery = e.recovery /\ d.uncertain = e.uncertain
      /\ d.persistTimer = e.persistTimer
  BY LookingFits
<1> HIDE DEF d
<1>2. CASE e.attempt = None
  BY <1>0, <1>1, <1>2 DEF AttemptOver
<1>3. CASE e.attempt # None
  <2>1. f = Handled(d)
    BY <1>1, <1>3 DEF AttemptOver
  <2> HIDE DEF f
  <2>2. d.usable /\ d.pending \notin {"start", "adopt"} /\ d.queued # None /\ Frame(o, d) /\ ~d.moved
    BY <1>1, <1>3, AttemptMeans DEF Fits, Stays, Flags, Blocked
  <2>3. /\ Fits(o, f) /\ Stays(d, f) /\ f.attempt = None /\ f.current = d.current /\ f.queued = d.queued
        /\ f.inputs = d.inputs /\ f.rev = d.rev /\ f.conflict = d.conflict /\ f.recovery = d.recovery
        /\ f.uncertain = d.uncertain /\ f.persistTimer = d.persistTimer
    <3>1. /\ Blocked(d) => d.queued # None
          /\ d.moved => ~d.persistTimer
          /\ d.queued = None => Canon[d.current] = d.saved /\ ~d.uncertain
      BY <2>2
    <3> DEFINE h == Handled(d)
    <3>2. /\ Fits(o, h) /\ Stays(d, h) /\ h.attempt = None /\ h.current = d.current /\ h.queued = d.queued
          /\ h.inputs = d.inputs /\ h.rev = d.rev /\ h.conflict = d.conflict /\ h.recovery = d.recovery
          /\ h.uncertain = d.uncertain /\ h.persistTimer = d.persistTimer
      BY <2>2, <3>1, HandledFits
    <3>3. QED
      BY <2>1, <3>2
  <2>4. Stays(e, f)
    BY <1>1, <2>3, StaysOn
  <2>5. QED
    BY <1>0, <1>1, <2>3, <2>4 DEF f
<1>4. QED
  BY <1>2, <1>3

\* The queued text is sent against the revision that was seen.
Sends(e, a) == [e EXCEPT !.queued = None, !.attempt = a]
LEMMA SendsIs ==
  ASSUME NEW n, NEW e \in EditorsTo(n), NEW a \in AttemptsTo(n)
  PROVE  LET f == Sends(e, a) IN
         /\ f \in EditorsTo(n) /\ Stays(e, f) /\ f.rev = e.rev /\ f.current = e.current
         /\ f.inputs = e.inputs /\ f.attempt = a /\ f.basis = e.basis /\ f.conflict = e.conflict
         /\ f.recovery = e.recovery /\ f.moved = e.moved /\ f.saved = e.saved /\ f.uncertain = e.uncertain
         /\ f.queued = None /\ f.saveTimer = e.saveTimer /\ f.persistTimer = e.persistTimer
<1>1. Sends(e, a) \in EditorsTo(n)
  BY DEF EditorsTo, Sends
<1>2. Stays(e, Sends(e, a))
  BY DEF EditorsTo, Sends, Stays
<1>3. QED
  BY <1>1, <1>2 DEF EditorsTo, Sends

\* What a pumped editor is: it has sent what was queued, or nothing.
Pumping(e, f) ==
    /\ Stays(e, f) /\ f.current = e.current /\ f.inputs = e.inputs /\ f.rev = e.rev
    /\ f.conflict = e.conflict /\ f.recovery = e.recovery /\ f.uncertain = e.uncertain
    /\ f.persistTimer = e.persistTimer /\ f.moved = e.moved
    /\ (f.attempt = e.attempt /\ f.queued = e.queued)
       \/ (e.attempt = None /\ e.queued # None /\ f.attempt # None /\ f.attempt.stage = "sent"
           /\ f.attempt.base = f.attempt.basis)

LEMMA PumpedFits ==
  ASSUME NEW o, NEW e, Stored(o), Fits(o, e)
  PROVE  LET f == Pumped(e) IN Fits(o, f) /\ Pumping(e, f)
<1> DEFINE a == [text |-> e.queued, base |-> e.rev, basis |-> e.basis,
                 inputs |-> e.inputs, stage |-> "sent", rev |-> 0]
           d == Sends(e, a)
           f == Pumped(e)
<1>1. e \in EditorsTo(Len(o)) /\ Len(o) \in Nat
  BY DEF Fits, Frame, Stored
<1>2. CASE ~MaySend(e)
  BY <1>2 DEF Pumped, Pumping, Stays
<1>3. CASE MaySend(e) /\ ~Savable(e)
  <2>1. f = Refreshed(e)
    BY <1>3 DEF Pumped
  <2> HIDE DEF f
  <2>2. /\ f \in EditorsTo(Len(o)) /\ Alike(e, f) /\ f.queued = e.queued
        /\ f.saveTimer = e.saveTimer /\ f.persistTimer = e.persistTimer /\ Told(f)
    BY <1>1, <2>1, RefreshedIs
  <2>3. Fits(o, f) /\ Stays(e, f)
    BY <2>2, AgainFits
  <2>4. QED
    BY <2>2, <2>3 DEF Pumping, Alike, Kin, f
<1>4. CASE MaySend(e) /\ Savable(e)
  <2>1. f = Refreshed(d)
    BY <1>4 DEF Pumped, Sends
  <2>2. /\ e.usable /\ ~e.hydrating /\ ~e.moved /\ e.attempt = None /\ e.conflict = None
        /\ e.queued # None
    BY <1>4 DEF MaySend, Paused, Savable, Blocked
  <2>3. e.recovery = None /\ e.basis = e.rev
    BY <2>2 DEF Fits, Frame
  <2>4. e.pending \notin {"start", "adopt"}
    BY <2>2 DEF Fits, Flags, Clean
  <2>5. e.queued \in Texts /\ e.rev \in 1..Len(o) /\ e.inputs \in Nat
    BY <1>1, <2>2 DEF EditorsTo
  <2>6. a \in AttemptsTo(Len(o)) /\ a.stage = "sent" /\ a.base = e.rev /\ a.base = a.basis
    BY <1>1, <2>3, <2>5 DEF AttemptsTo, Stages
  <2> HIDE DEF a
  <2>7. a # None
    BY <1>1, <2>6, AttemptsAreSome
  <2>8. /\ d \in EditorsTo(Len(o)) /\ Stays(e, d) /\ d.rev = e.rev /\ d.current = e.current
        /\ d.inputs = e.inputs /\ d.attempt = a /\ d.basis = e.basis /\ d.conflict = e.conflict
        /\ d.recovery = e.recovery /\ d.moved = e.moved /\ d.saved = e.saved /\ d.uncertain = e.uncertain
        /\ d.queued = None /\ d.saveTimer = e.saveTimer /\ d.persistTimer = e.persistTimer
    BY <1>1, <2>6, SendsIs
  <2> HIDE DEF d, f
  <2>9. /\ f \in EditorsTo(Len(o)) /\ Alike(d, f) /\ f.queued = d.queued
        /\ f.saveTimer = d.saveTimer /\ f.persistTimer = d.persistTimer /\ Told(f)
    BY <2>1, <2>8, RefreshedIs
  <2>10. /\ Stays(e, f) /\ f.current = e.current /\ f.inputs = e.inputs /\ f.rev = e.rev
         /\ f.conflict = None /\ f.recovery = None /\ f.uncertain = e.uncertain /\ f.basis = e.basis
         /\ f.saved = e.saved /\ f.moved = e.moved /\ f.attempt = a /\ f.queued = None
         /\ f.saveTimer = e.saveTimer /\ f.persistTimer = e.persistTimer
    BY <2>2, <2>3, <2>8, <2>9 DEF Alike, Kin, Stays
  <2>11. Frame(o, f)
    BY <2>2, <2>3, <2>9, <2>10 DEF Fits, Frame, Stays
  <2>12. AttemptFits(o, f)
    BY <2>2, <2>6, <2>7, <2>10 DEF AttemptFits, Stays
  <2>13. Flags(f)
    BY <2>2, <2>4, <2>7, <2>9, <2>10 DEF Flags, Told, Stays, Blocked
  <2>14. Pumping(e, f)
    BY <2>2, <2>3, <2>6, <2>7, <2>10 DEF Pumping
  <2>15. QED
    BY <2>11, <2>12, <2>13, <2>14 DEF Fits, f
<1>5. QED
  BY <1>2, <1>3, <1>4

\* A timer that is over.
LEMMA TimersFit ==
  ASSUME NEW o, NEW e, Fits(o, e)
  PROVE  LET f == [e EXCEPT !.saveTimer = FALSE]
             g == [e EXCEPT !.persistTimer = FALSE] IN
         /\ Fits(o, f) /\ Stays(e, f) /\ Alike(e, f) /\ f.queued = e.queued /\ f.persistTimer = e.persistTimer
         /\ Fits(o, g) /\ Stays(e, g) /\ Alike(e, g) /\ g.queued = e.queued
<1> DEFINE f == [e EXCEPT !.saveTimer = FALSE]
           g == [e EXCEPT !.persistTimer = FALSE]
<1>1. e \in EditorsTo(Len(o))
  BY DEF Fits, Frame
<1>2. f \in EditorsTo(Len(o))
  BY <1>1, ZenonT(40) DEF EditorsTo
<1>0. g \in EditorsTo(Len(o))
  BY <1>1, ZenonT(40) DEF EditorsTo
<1>3. Alike(e, f) /\ Alike(e, g)
  BY <1>1 DEF EditorsTo, Alike, Kin
<1>4. /\ f.queued = e.queued /\ f.persistTimer = e.persistTimer /\ ~f.saveTimer /\ f.shown = e.shown
      /\ g.queued = e.queued /\ ~g.persistTimer /\ g.saveTimer = e.saveTimer /\ g.shown = e.shown
  BY <1>1 DEF EditorsTo
<1> HIDE DEF f, g
<1>5. Fits(o, f) /\ Stays(e, f)
  BY <1>2, <1>3, <1>4, AgainFits
<1>6. Fits(o, g) /\ Stays(e, g)
  BY <1>0, <1>3, <1>4, AgainFits
<1>7. QED
  BY <1>3, <1>4, <1>5, <1>6 DEF f, g

\* The editor is left: it sends once more what is queued.
Leaves(e, s) == [e EXCEPT !.mounted = FALSE, !.persistTimer = FALSE, !.saveTimer = s]
LEMMA LeavesFits ==
  ASSUME NEW o, NEW e, Fits(o, e), NEW s \in BOOLEAN, s => e.saveTimer
  PROVE  LET f == Leaves(e, s) IN
         /\ Fits(o, f) /\ ~f.mounted /\ f.usable = e.usable /\ f.mount = e.mount /\ f.pending = e.pending
         /\ f.hydrating = e.hydrating /\ f.warned = e.warned /\ f.current = e.current /\ f.inputs = e.inputs
         /\ f.rev = e.rev /\ f.conflict = e.conflict /\ f.recovery = e.recovery /\ f.uncertain = e.uncertain
         /\ f.moved = e.moved /\ f.attempt = e.attempt /\ f.queued = e.queued
<1> DEFINE f == Leaves(e, s)
<1>1. e \in EditorsTo(Len(o))
  BY DEF Fits, Frame
<1>2. f \in EditorsTo(Len(o))
  <2> DEFINE m == [e EXCEPT !.mounted = FALSE]
             p == [m EXCEPT !.persistTimer = FALSE]
  <2>1. m \in EditorsTo(Len(o))
    BY <1>1, ZenonT(40) DEF EditorsTo
  <2>2. p \in EditorsTo(Len(o))
    BY <2>1, ZenonT(40) DEF EditorsTo
  <2> HIDE DEF m, p
  <2>3. [p EXCEPT !.saveTimer = s] \in EditorsTo(Len(o))
    BY <2>2 DEF EditorsTo
  <2>4. f = [p EXCEPT !.saveTimer = s]
    BY DEF Leaves, m, p
  <2>5. QED
    BY <2>3, <2>4
<1>3. /\ ~f.mounted /\ f.usable = e.usable /\ f.mount = e.mount /\ f.pending = e.pending
      /\ f.hydrating = e.hydrating /\ f.warned = e.warned /\ f.current = e.current /\ f.inputs = e.inputs
      /\ f.rev = e.rev /\ f.conflict = e.conflict /\ f.recovery = e.recovery /\ f.uncertain = e.uncertain
      /\ f.moved = e.moved /\ f.attempt = e.attempt /\ f.queued = e.queued
      /\ f.basis = e.basis /\ f.saved = e.saved /\ f.shown = e.shown /\ f.saveTimer = s /\ ~f.persistTimer
  BY <1>1 DEF EditorsTo, Leaves
<1> HIDE DEF f
<1>4. Frame(o, f)
  BY <1>2, <1>3 DEF Fits, Frame
<1>5. AttemptFits(o, f)
  BY <1>3 DEF Fits, AttemptFits
<1>6. Flags(f)
  BY <1>3 DEF Fits, Flags, Clean, Blocked
<1>7. QED
  BY <1>3, <1>4, <1>5, <1>6 DEF Fits, f

\* What an editor that was left is: what was mounted has sent what was queued.
LEMMA DetachedFits ==
  ASSUME NEW o, NEW e, Stored(o), Fits(o, e)
  PROVE  LET f == Detached(e) IN
         /\ Fits(o, f) /\ ~f.mounted /\ f.usable = e.usable /\ f.mount = e.mount /\ f.pending = e.pending
         /\ f.hydrating = e.hydrating /\ f.warned = e.warned /\ f.current = e.current /\ f.inputs = e.inputs
         /\ f.rev = e.rev /\ f.conflict = e.conflict /\ f.recovery = e.recovery /\ f.uncertain = e.uncertain
         /\ f.moved = e.moved
         /\ (f.attempt = e.attempt /\ f.queued = e.queued)
            \/ (e.attempt = None /\ e.queued # None /\ f.attempt # None /\ f.attempt.stage = "sent")
<1> DEFINE s == e.waiting /\ e.saveTimer
           d == Leaves(e, s)
           f == Detached(e)
<1>1. s \in BOOLEAN /\ (s => e.saveTimer)
  OBVIOUS
<1>2. f = IF e.waiting THEN d ELSE Pumped(d)
  BY DEF Detached, Leaves, Fits, Frame, EditorsTo
<1> HIDE DEF s
<1>3. /\ Fits(o, d) /\ ~d.mounted /\ d.usable = e.usable /\ d.mount = e.mount /\ d.pending = e.pending
      /\ d.hydrating = e.hydrating /\ d.warned = e.warned /\ d.current = e.current /\ d.inputs = e.inputs
      /\ d.rev = e.rev /\ d.conflict = e.conflict /\ d.recovery = e.recovery /\ d.uncertain = e.uncertain
      /\ d.moved = e.moved /\ d.attempt = e.attempt /\ d.queued = e.queued
  BY <1>1, LeavesFits
<1> HIDE DEF d, f
<1>4. CASE e.waiting
  BY <1>2, <1>3, <1>4 DEF f
<1>5. CASE ~e.waiting
  <2>1. Fits(o, f) /\ Pumping(d, f)
    BY <1>2, <1>3, <1>5, PumpedFits
  <2>2. QED
    BY <1>3, <2>1 DEF Pumping, Stays, f
<1>6. QED
  BY <1>4, <1>5

\* A scope that is closed.
LEMMA QuiescedFits ==
  ASSUME NEW o, NEW e, Fits(o, e)
  PROVE  LET f == Quiesced(e) IN
         /\ Fits(o, f) /\ ~f.mounted /\ ~f.usable /\ f.mount = e.mount /\ f.pending = e.pending
         /\ f.hydrating = e.hydrating /\ f.warned = e.warned /\ f.rev = e.rev /\ f.current = e.current
<1> DEFINE f == Quiesced(e)
<1>1. e \in EditorsTo(Len(o))
  BY DEF Fits, Frame
<1>2. f \in EditorsTo(Len(o))
  BY <1>1, ZenonT(40) DEF EditorsTo, Quiesced
<1>3. /\ ~f.mounted /\ ~f.usable /\ f.mount = e.mount /\ f.pending = e.pending
      /\ f.hydrating = e.hydrating /\ f.warned = e.warned /\ f.current = e.current
      /\ f.rev = e.rev /\ f.conflict = e.conflict /\ f.recovery = e.recovery /\ f.uncertain = e.uncertain
      /\ f.moved = e.moved /\ f.attempt = None /\ f.queued = e.queued
      /\ f.basis = e.basis /\ f.saved = e.saved /\ f.shown = e.shown /\ ~f.saveTimer /\ ~f.persistTimer
  BY <1>1 DEF EditorsTo, Quiesced
<1> HIDE DEF f
<1>4. Frame(o, f)
  BY <1>2, <1>3 DEF Fits, Frame
<1>5. AttemptFits(o, f)
  BY <1>3 DEF AttemptFits
<1>6. Flags(f)
  BY <1>3 DEF Fits, Flags, Clean, Blocked
<1>7. QED
  BY <1>3, <1>4, <1>5, <1>6 DEF Fits, f

-----------------------------------------------------------------------------
(***************************************************************************)
(* The kept text comes back                                                *)
(***************************************************************************)

\* f is e with its opening over.
Opened(e, f) ==
    /\ ~f.hydrating /\ f.mounted = e.mounted /\ f.usable = e.usable /\ f.mount = e.mount
    /\ f.pending = e.pending /\ f.warned = e.warned /\ f.saved = e.saved /\ f.current = e.current
    /\ f.uncertain = e.uncertain /\ f.inputs = e.inputs /\ f.attempt = e.attempt /\ f.rev = e.rev
    /\ f.basis = e.basis /\ f.conflict = e.conflict /\ f.recovery = e.recovery /\ f.moved = e.moved
    /\ f.queued = e.queued /\ f.persistTimer = e.persistTimer

LEMMA FinishedIs ==
  ASSUME NEW n, NEW e \in EditorsTo(n)
  PROVE  LET f == FinishHydration(e) IN
         /\ f \in EditorsTo(n) /\ Opened(e, f) /\ Told(f)
         /\ f.saveTimer => e.saveTimer \/ e.usable
<1> DEFINE d == [e EXCEPT !.hydrating = FALSE]
           f == Scheduled(Refreshed(d))
<1>1. d \in EditorsTo(n)
  BY ZenonT(40) DEF EditorsTo
<1>2. Opened(e, d) /\ d.saveTimer = e.saveTimer
  BY DEF EditorsTo, Opened
<1>3. FinishHydration(e) = f
  BY DEF FinishHydration
<1> HIDE DEF d
<1>4. /\ f \in EditorsTo(n) /\ Alike(d, f) /\ f.queued = d.queued
      /\ f.persistTimer = d.persistTimer
      /\ f.saveTimer => d.saveTimer \/ d.usable
      /\ Told(f)
  BY <1>1, AgainIs
<1> HIDE DEF f
<1>5. QED
  BY <1>2, <1>3, <1>4 DEF Opened, Alike, Kin

LEMMA FinishedFits ==
  ASSUME NEW o, NEW e, Fits(o, e), e.hydrating \/ e.pending \notin {"start", "adopt"}
  PROVE  LET f == FinishHydration(e) IN Fits(o, f) /\ Opened(e, f)
<1> DEFINE f == FinishHydration(e)
<1>1. e \in EditorsTo(Len(o))
  BY DEF Fits, Frame
<1>2. /\ f \in EditorsTo(Len(o)) /\ Opened(e, f) /\ Told(f)
      /\ f.saveTimer => e.saveTimer \/ e.usable
  BY <1>1, FinishedIs
<1> HIDE DEF f
<1>3. Frame(o, f)
  BY <1>2 DEF Fits, Frame, Opened
<1>4. AttemptFits(o, f)
  BY <1>2 DEF Fits, AttemptFits, Opened
<1>5. Flags(f)
  BY <1>2 DEF Fits, Flags, Clean, Blocked, Told, Opened
<1>6. QED
  BY <1>2, <1>3, <1>4, <1>5 DEF Fits, f

\* The kept text is remembered; its author saw the revision the editor shows.
Recalls(e, d, b) == [e EXCEPT !.lastCached = d, !.basis = b]
IsRecalled(o, e, f) ==
    /\ Fits(o, f) /\ Stays(e, f) /\ f.rev = e.rev /\ f.current = e.current
    /\ f.inputs = e.inputs /\ f.attempt = e.attempt /\ f.conflict = e.conflict
    /\ f.recovery = e.recovery /\ f.moved = e.moved /\ f.saved = e.saved
    /\ f.uncertain = e.uncertain /\ f.queued = e.queued /\ f.persistTimer = e.persistTimer
LEMMA RecallsFits ==
  ASSUME NEW o, NEW e, Fits(o, e), NEW d \in DraftsTo(Len(o)) \cup {None}
  PROVE  IsRecalled(o, e, [e EXCEPT !.lastCached = d])
<1> DEFINE f == Recalls(e, d, e.basis)
<1>1. e \in EditorsTo(Len(o)) /\ e.basis \in 1..Len(o)
  BY DEF Fits, Frame, EditorsTo
<1>2. f \in EditorsTo(Len(o))
  BY <1>1, ZenonT(40) DEF EditorsTo, Recalls
<1>3. Stays(e, f)
  BY <1>1 DEF EditorsTo, Recalls, Stays
<1>4. /\ f.attempt = e.attempt /\ f.current = e.current /\ f.queued = e.queued /\ f.inputs = e.inputs
      /\ f.rev = e.rev /\ f.conflict = e.conflict /\ f.recovery = e.recovery /\ f.uncertain = e.uncertain
      /\ f.basis = e.basis /\ f.moved = e.moved /\ f.saved = e.saved /\ f.shown = e.shown
      /\ f.saveTimer = e.saveTimer /\ f.persistTimer = e.persistTimer
  BY <1>1 DEF EditorsTo, Recalls
<1>5. f = [e EXCEPT !.lastCached = d]
  BY <1>1 DEF EditorsTo, Recalls
<1> HIDE DEF f
<1>6. Frame(o, f)
  BY <1>2, <1>3, <1>4 DEF Fits, Frame, Stays
<1>7. AttemptFits(o, f)
  BY <1>3, <1>4 DEF Fits, AttemptFits, Stays
<1>8. Flags(f)
  BY <1>3, <1>4 DEF Fits, Flags, Stays, Clean, Blocked
<1>9. IsRecalled(o, e, f)
  BY <1>3, <1>4, <1>6, <1>7, <1>8 DEF Fits, IsRecalled
<1>10. QED
  BY <1>5, <1>9

\* The server moved on: the kept text and its base are shown beside.
Recovers(e, d, k) == [e EXCEPT !.lastCached = d, !.recovery = d, !.basis = d.basis, !.conflict = k]
LEMMA RecoversIs ==
  ASSUME NEW n, NEW e \in EditorsTo(n), NEW d \in DraftsTo(n), NEW k \in ConflictsTo(n)
  PROVE  LET f == Recovers(e, d, k) IN
         /\ f \in EditorsTo(n) /\ Stays(e, f) /\ f.rev = e.rev /\ f.attempt = e.attempt
         /\ f.basis = d.basis /\ f.conflict = k /\ f.recovery = d /\ f.moved = e.moved
         /\ f.saved = e.saved /\ f.uncertain = e.uncertain
<1>0. d.basis \in 1..n
  BY DEF DraftsTo
<1>1. Recovers(e, d, k) \in EditorsTo(n)
  BY <1>0, ZenonT(40) DEF EditorsTo, Recovers
<1>2. Stays(e, Recovers(e, d, k))
  BY DEF EditorsTo, Recovers, Stays
<1>3. QED
  BY <1>1, <1>2 DEF EditorsTo, Recovers

\* An editor that opened with the kept text d.
IsRecovered(o, e, d, f) ==
    /\ Fits(o, f) /\ ~f.hydrating /\ f.mounted = e.mounted /\ f.usable = e.usable
    /\ f.mount = e.mount /\ f.pending = e.pending /\ f.warned = e.warned
    /\ f.uncertain = e.uncertain /\ f.attempt = None /\ f.rev = e.rev
    /\ f.persistTimer \/ (/\ d.base = e.rev /\ d.text = e.saved
                          /\ f.current = e.current /\ f.queued = e.queued /\ f.conflict = e.conflict
                          /\ f.moved = e.moved)
LEMMA RecoveredFits ==
  ASSUME NEW o, NEW e, Stored(o), Fits(o, e), e.usable, e.hydrating, ~e.moved,
         NEW d \in DraftsTo(Len(o)), Sound(d)
  PROVE  IsRecovered(o, e, d, FinishHydration(Recovered(e, d)))
<1> DEFINE f == FinishHydration(Recovered(e, d))
<1>1. /\ e \in EditorsTo(Len(o)) /\ Len(o) \in Nat /\ d # None /\ d.base = d.basis /\ d.text \in Texts
      /\ d.base \in 1..Len(o)
  BY DraftsAreSome DEF Fits, Frame, Stored, Sound, DraftsTo
<1>2. /\ e.attempt = None /\ e.conflict = None /\ e.recovery = None /\ e.basis = e.rev
      /\ e.pending \notin {"start", "adopt"} /\ ~Blocked(e)
  BY DEF Fits, Frame, AttemptFits, Flags, Clean, Blocked
<1>3. CASE d.base # e.rev
  <2> DEFINE k == [text |-> d.text, base |-> d.base]
             c == Recovers(e, d, k)
             b == BlockedWith(c, d.text)
  <2>1. k \in ConflictsTo(Len(o)) /\ k.base = d.basis
    BY <1>1 DEF ConflictsTo
  <2>2. k # None
    <3>1. k \in [text : Texts, base : Nat]
      BY <1>1
    <3>2. QED
      BY <3>1, NoneIsApart
  <2>3. Recovered(e, d) = b
    BY <1>3 DEF Recovered, Recovers
  <2> HIDE DEF k
  <2>4. /\ c \in EditorsTo(Len(o)) /\ Stays(e, c) /\ c.rev = e.rev /\ c.attempt = e.attempt
        /\ c.basis = d.basis /\ c.conflict = k /\ c.recovery = d /\ c.moved = e.moved
        /\ c.saved = e.saved /\ c.uncertain = e.uncertain
    BY <1>1, <2>1, RecoversIs
  <2> HIDE DEF c
  <2>5. /\ b \in EditorsTo(Len(o)) /\ Kin(c, b) /\ b.saved = c.saved /\ b.uncertain = c.uncertain
        /\ b.current = d.text /\ b.queued = d.text
        /\ b.persistTimer = ~c.moved /\ ~b.saveTimer
    BY <1>1, <2>4, BlockedWithIs
  <2> HIDE DEF b
  <2>6. f \in EditorsTo(Len(o)) /\ Opened(b, f) /\ Told(f) /\ (f.saveTimer => b.saveTimer \/ b.usable)
    BY <2>3, <2>5, FinishedIs
  <2> HIDE DEF f
  <2>7. /\ ~f.hydrating /\ f.mounted = e.mounted /\ f.usable = e.usable /\ f.mount = e.mount
        /\ f.pending = e.pending /\ f.warned = e.warned /\ f.uncertain = e.uncertain /\ f.attempt = None
        /\ f.rev = e.rev /\ f.saved = e.saved /\ f.current = d.text /\ f.queued = d.text
        /\ f.basis = d.basis /\ f.conflict = k /\ f.recovery = d /\ ~f.moved /\ f.persistTimer
    <3>1. /\ c.mounted = e.mounted /\ c.usable = e.usable /\ c.mount = e.mount
          /\ c.pending = e.pending /\ c.warned = e.warned
      BY <2>4 DEF Stays
    <3>2. ~e.moved
      BY <1>1
    <3>3. /\ b.mounted = e.mounted /\ b.usable = e.usable /\ b.mount = e.mount
          /\ b.pending = e.pending /\ b.warned = e.warned
      BY <2>5, <3>1 DEF Kin
    <3>4. /\ b.uncertain = e.uncertain /\ b.attempt = None /\ b.rev = e.rev /\ b.saved = e.saved
          /\ b.basis = d.basis /\ b.conflict = k /\ b.recovery = d /\ ~b.moved /\ b.persistTimer
      BY <1>2, <2>4, <2>5, <3>2 DEF Kin
    <3>5. QED
      BY <2>5, <2>6, <3>3, <3>4 DEF Opened
  <2>8. Frame(o, f)
    BY <1>1, <2>1, <2>2, <2>6, <2>7 DEF Fits, Frame
  <2>9. AttemptFits(o, f)
    BY <2>7 DEF AttemptFits
  <2>10. d.text # None
    BY <1>1, NoneIsApart
  <2>11. Flags(f)
    BY <1>2, <2>6, <2>7, <2>10 DEF Flags, Told
  <2>12. QED
    BY <2>7, <2>8, <2>9, <2>11 DEF Fits, f, IsRecovered
<1>4. CASE d.base = e.rev
  <2> DEFINE c == [e EXCEPT !.lastCached = d]
  <2>0. IsRecalled(o, e, c)
    BY RecallsFits, Zenon
  <2>1. /\ Fits(o, c) /\ Stays(e, c) /\ c.rev = e.rev /\ c.current = e.current
        /\ c.inputs = e.inputs /\ c.attempt = e.attempt /\ c.conflict = e.conflict
        /\ c.recovery = e.recovery /\ c.moved = e.moved /\ c.saved = e.saved
        /\ c.uncertain = e.uncertain /\ c.queued = e.queued /\ c.persistTimer = e.persistTimer
    BY <2>0 DEF IsRecalled
  <2>2. e.basis = d.basis
    BY <1>1, <1>2, <1>4
  <2>a. [e EXCEPT !.lastCached = d, !.basis = d.basis] = c
    BY <1>1, <2>2 DEF EditorsTo
  <2>3. Recovered(e, d) = IF d.text = e.saved THEN c ELSE Edited(c, d.text)
    BY <1>4, <2>a DEF Recovered
  <2> HIDE DEF c
  <2>4. CASE d.text = e.saved
    <3>1. f = FinishHydration(c)
      BY <2>1, <2>3, <2>4
    <3> HIDE DEF f
    <3>2. Fits(o, f) /\ Opened(c, f)
      BY <1>2, <2>1, <3>1, FinishedFits DEF Stays
    <3>3. QED
      BY <1>2, <1>4, <2>1, <2>4, <3>2 DEF Opened, Stays, f, IsRecovered
  <2>5. CASE d.text # e.saved
    <3> DEFINE b == Edited(c, d.text)
    <3>1. f = FinishHydration(b)
      BY <2>3, <2>5
    <3>2. c.usable /\ ~Blocked(c) /\ c.pending \notin {"start", "adopt"}
      BY <1>2, <2>1 DEF Stays, Blocked
    <3>0. Fits(o, c) /\ d.text \in Texts
      BY <1>1, <2>1
    <3>3. /\ Fits(o, b) /\ Stays(c, b) /\ b.current = d.text /\ b.persistTimer
          /\ b.rev = c.rev /\ b.attempt = c.attempt /\ b.uncertain = c.uncertain
      BY <3>0, <3>2, EditedFits
    <3> HIDE DEF b, f
    <3>4. Fits(o, f) /\ Opened(b, f)
      BY <3>1, <3>2, <3>3, FinishedFits DEF Stays
    <3>5. QED
      BY <1>2, <2>1, <3>3, <3>4 DEF Opened, Stays, f, IsRecovered
  <2>6. QED
    BY <2>4, <2>5
<1>5. QED
  BY <1>3, <1>4

-----------------------------------------------------------------------------
(***************************************************************************)
(* The ends of browser operations, choices and commands                    *)
(***************************************************************************)

\* f is e as far as the text and its requests are concerned.
SameText(e, f) ==
    /\ f.mounted = e.mounted /\ f.usable = e.usable /\ f.mount = e.mount
    /\ f.hydrating = e.hydrating /\ f.current = e.current /\ f.inputs = e.inputs
    /\ f.attempt = e.attempt /\ f.rev = e.rev /\ f.conflict = e.conflict /\ f.recovery = e.recovery
    /\ f.moved = e.moved /\ f.uncertain = e.uncertain /\ f.queued = e.queued
    /\ f.persistTimer = e.persistTimer

LEMMA WarnedFits ==
  ASSUME NEW o, NEW e, Fits(o, e), NEW b \in BOOLEAN
  PROVE  LET f == Warned(e, b) IN
         /\ Fits(o, f) /\ SameText(e, f) /\ f.pending = e.pending
         /\ f.warned = IF e.mounted /\ e.usable THEN b ELSE e.warned
<1> DEFINE w == IF e.mounted /\ e.usable THEN b ELSE e.warned
           f == [e EXCEPT !.warned = w]
<1>1. e \in EditorsTo(Len(o))
  BY DEF Fits, Frame
<1>2. w \in BOOLEAN
  BY <1>1 DEF EditorsTo
<1>3. Warned(e, b) = f
  BY DEF Warned
<1> HIDE DEF w
<1>4. f \in EditorsTo(Len(o))
  BY <1>1, <1>2 DEF EditorsTo
<1>5. SameText(e, f) /\ f.pending = e.pending
  BY <1>1 DEF EditorsTo, SameText
<1>6. /\ f.warned = w /\ f.basis = e.basis /\ f.saved = e.saved /\ f.shown = e.shown
      /\ f.saveTimer = e.saveTimer
  BY <1>1 DEF EditorsTo
<1> HIDE DEF f
<1>7. Frame(o, f)
  BY <1>4, <1>5, <1>6 DEF Fits, Frame, SameText
<1>8. AttemptFits(o, f)
  BY <1>5 DEF Fits, AttemptFits, SameText
<1>9. Flags(f)
  BY <1>5, <1>6 DEF Fits, Flags, SameText, Clean, Blocked
<1>10. QED
  BY <1>3, <1>5, <1>6, <1>7, <1>8, <1>9 DEF Fits, w

\* f differs from e in its badge, its timer and its retries.
AtRest(o, e, f) == Fits(o, f) /\ SameText(e, f) /\ f.pending = e.pending /\ f.warned = e.warned

\* What the retries may become.
Retries(e, n, b, h) == [e EXCEPT !.retries = n, !.waiting = b, !.halted = h]
LEMMA RetriesFit ==
  ASSUME NEW o, NEW e, Fits(o, e), NEW n \in 0..MaxRetries, NEW b \in BOOLEAN,
         NEW h \in {None, "retryable", "final"}
  PROVE  /\ AtRest(o, e, Scheduled(Refreshed(Retries(e, n, b, h))))
         /\ AtRest(o, e, Refreshed(Retries(e, n, b, h)))
<1> DEFINE d == Retries(e, n, b, h)
           f == Scheduled(Refreshed(d))
           g == Refreshed(d)
<1>1. e \in EditorsTo(Len(o))
  BY DEF Fits, Frame
<1>2. d \in EditorsTo(Len(o))
  BY <1>1, ZenonT(40) DEF EditorsTo, Retries
<1>3. Alike(e, d)
  BY <1>1 DEF EditorsTo, Alike, Kin, Retries
<1>4. d.queued = e.queued /\ d.saveTimer = e.saveTimer /\ d.persistTimer = e.persistTimer
  BY <1>1 DEF EditorsTo, Retries
<1> HIDE DEF d
<1>5. /\ f \in EditorsTo(Len(o)) /\ Alike(d, f) /\ f.queued = d.queued /\ f.persistTimer = d.persistTimer
      /\ (f.saveTimer => d.saveTimer \/ d.usable) /\ Told(f)
  BY <1>2, AgainIs
<1>6. /\ g \in EditorsTo(Len(o)) /\ Alike(d, g) /\ g.queued = d.queued /\ g.persistTimer = d.persistTimer
      /\ g.saveTimer = d.saveTimer /\ Told(g)
  BY <1>2, RefreshedIs
<1> HIDE DEF f, g
<1>7. Alike(e, f) /\ Alike(e, g) /\ d.usable = e.usable
  BY <1>3, <1>5, <1>6, AlikeTwice DEF Alike, Kin
<1>8. Fits(o, f) /\ SameText(e, f) /\ f.pending = e.pending /\ f.warned = e.warned
  BY <1>4, <1>5, <1>7, AgainFits DEF SameText, Alike, Kin
<1>9. Fits(o, g) /\ SameText(e, g) /\ g.pending = e.pending /\ g.warned = e.warned
  BY <1>4, <1>6, <1>7, AgainFits DEF SameText, Alike, Kin
<1>10. QED
  BY <1>8, <1>9 DEF AtRest, d, f, g

LEMMA AfterPersistFits ==
  ASSUME NEW o, NEW e, Fits(o, e), NEW then \in Tails
  PROVE  LET f == AfterPersist(e, then) IN Fits(o, f) /\ SameText(e, f) /\ f.pending = e.pending /\ f.warned = e.warned
<1> DEFINE f == AfterPersist(e, then)
<1>1. /\ e \in EditorsTo(Len(o)) /\ e.retries \in 0..MaxRetries /\ e.waiting \in BOOLEAN
      /\ e.halted \in {None, "retryable", "final"} /\ 0 \in 0..MaxRetries
  BY RetriesAreCounted DEF Fits, Frame, EditorsTo
<1>2. CASE then.kind = "none"
  BY <1>2 DEF AfterPersist, SameText
<1>6. AtRest(o, e, f) => Fits(o, f) /\ SameText(e, f) /\ f.pending = e.pending /\ f.warned = e.warned
  BY DEF AtRest
<1>3. CASE then.kind = "saved"
  <2>1. e = Retries(e, e.retries, e.waiting, e.halted)
    BY <1>1 DEF EditorsTo, Retries
  <2>2. f = Scheduled(Refreshed(e))
    BY <1>3 DEF AfterPersist
  <2>3. QED
    BY RetriesFit, <1>1, <1>6, <2>1, <2>2, Zenon
<1>4. CASE then.kind = "failed"
  <2>1. [e EXCEPT !.retries = 0, !.waiting = FALSE] = Retries(e, 0, FALSE, e.halted)
    BY <1>1 DEF EditorsTo, Retries
  <2>2. [e EXCEPT !.retries = @ + 1, !.waiting = TRUE] = Retries(e, e.retries + 1, TRUE, e.halted)
    BY <1>1 DEF EditorsTo, Retries
  <2>3. \A h : [e EXCEPT !.waiting = FALSE, !.halted = h] = Retries(e, e.retries, FALSE, h)
    BY <1>1 DEF EditorsTo, Retries
  <2>4. f = IF e.inputs # then.inputs THEN Scheduled(Refreshed(Retries(e, 0, FALSE, e.halted)))
            ELSE IF then.retryable /\ e.retries < MaxRetries
            THEN Scheduled(Refreshed(Retries(e, e.retries + 1, TRUE, e.halted)))
            ELSE Refreshed(Retries(e, e.retries, FALSE, IF then.retryable THEN "retryable" ELSE "final"))
    BY <1>4, <2>1, <2>2, <2>3 DEF AfterPersist
  <2>5. e.retries < MaxRetries => e.retries + 1 \in 0..MaxRetries
    BY <1>1, RetriesAreCounted
  <2> HIDE DEF f
  <2>6. CASE e.inputs # then.inputs
    BY RetriesFit, <1>1, <1>6, <2>4, <2>6, Zenon DEF f
  <2>7. CASE e.inputs = then.inputs /\ then.retryable /\ e.retries < MaxRetries
    BY RetriesFit, <1>1, <1>6, <2>4, <2>5, <2>7, Zenon DEF f
  <2>8. CASE e.inputs = then.inputs /\ ~(then.retryable /\ e.retries < MaxRetries)
    <3> DEFINE h == IF then.retryable THEN "retryable" ELSE "final"
    <3>1. h \in {None, "retryable", "final"}
      OBVIOUS
    <3>2. f = Refreshed(Retries(e, e.retries, FALSE, h))
      BY <2>4, <2>8
    <3> HIDE DEF h
    <3>3. QED
      BY RetriesFit, <1>1, <1>6, <3>1, <3>2, Zenon DEF f
  <2>9. QED
    BY <2>6, <2>7, <2>8
<1>5. QED
  BY <1>2, <1>3, <1>4 DEF Tails

\* A command is waited for, or no more.
Pends(e, k, s, n, b) == [e EXCEPT !.pending = k, !.saveTimer = s, !.retries = n, !.waiting = b]
IsPending(m, e, k, s, f) ==
    /\ f \in EditorsTo(m) /\ SameText(e, f) /\ f.pending = k /\ f.warned = e.warned
    /\ f.saveTimer = s /\ f.basis = e.basis /\ f.saved = e.saved /\ f.shown = e.shown
LEMMA PendsIs ==
  ASSUME NEW m, NEW e \in EditorsTo(m), NEW k \in Pendings, NEW s \in BOOLEAN,
         NEW n \in 0..MaxRetries, NEW b \in BOOLEAN
  PROVE  IsPending(m, e, k, s, Pends(e, k, s, n, b))
<1>1. Pends(e, k, s, n, b) \in EditorsTo(m)
  BY ZenonT(40) DEF EditorsTo, Pends
<1>2. SameText(e, Pends(e, k, s, n, b))
  BY DEF EditorsTo, Pends, SameText
<1>3. QED
  BY <1>1, <1>2 DEF EditorsTo, Pends, IsPending

\* f is e, waiting for k.
LEMMA PendsFits ==
  ASSUME NEW o, NEW e, NEW f \in EditorsTo(Len(o)), Fits(o, e), SameText(e, f),
         f.basis = e.basis, f.saved = e.saved, f.saveTimer => f.usable,
         f.pending \in {"start", "adopt"} => Clean(e),
         Told(f) \/ f.shown = e.shown
  PROVE  Fits(o, f)
<1>1. Frame(o, f)
  BY DEF Fits, Frame, SameText
<1>2. AttemptFits(o, f)
  BY DEF Fits, AttemptFits, SameText
<1>3. Flags(f)
  BY DEF Fits, Flags, SameText, Clean, Blocked, Told
<1>4. QED
  BY <1>1, <1>2, <1>3 DEF Fits

Invoked(e, k) == Refreshed([e EXCEPT !.pending = k, !.saveTimer = @ /\ k = "adopt"])
IsInvoked(o, e, k, f) == Fits(o, f) /\ SameText(e, f) /\ f.pending = k /\ f.warned = e.warned
LEMMA InvokedFits ==
  ASSUME NEW o, NEW e, Fits(o, e), NEW k \in {"start", "discard", "adopt"},
         k \in {"start", "adopt"} => Clean(e)
  PROVE  IsInvoked(o, e, k, Invoked(e, k))
<1> DEFINE s == e.saveTimer /\ k = "adopt"
           d == Pends(e, k, s, e.retries, e.waiting)
           f == Refreshed(d)
<1>1. e \in EditorsTo(Len(o))
  BY DEF Fits, Frame
<1>2. /\ s \in BOOLEAN /\ e.retries \in 0..MaxRetries /\ e.waiting \in BOOLEAN /\ (s => e.saveTimer)
      /\ k \in Pendings
  BY <1>1 DEF EditorsTo, Pendings
<1>3. [e EXCEPT !.pending = k, !.saveTimer = @ /\ k = "adopt"] = d
  BY <1>1 DEF EditorsTo, Pends
<1> HIDE DEF s
<1>4. /\ d \in EditorsTo(Len(o)) /\ SameText(e, d) /\ d.pending = k /\ d.warned = e.warned
      /\ d.saveTimer = s /\ d.basis = e.basis /\ d.saved = e.saved
  <2>1. IsPending(Len(o), e, k, s, d)
    BY <1>1, <1>2, PendsIs, Zenon
  <2>2. QED
    BY <2>1 DEF IsPending
<1> HIDE DEF d
<1>5. /\ f \in EditorsTo(Len(o)) /\ Alike(d, f) /\ f.queued = d.queued
      /\ f.saveTimer = d.saveTimer /\ f.persistTimer = d.persistTimer /\ Told(f)
  BY <1>4, RefreshedIs
<1> HIDE DEF f
<1>6. /\ SameText(e, f) /\ f.pending = k /\ f.warned = e.warned /\ f.basis = e.basis /\ f.saved = e.saved
      /\ (f.saveTimer => e.saveTimer)
  BY <1>2, <1>4, <1>5 DEF SameText, Alike, Kin
<1>7. f.saveTimer => f.usable
  BY <1>6 DEF Fits, Flags, SameText
<1>8. Fits(o, f)
  BY <1>5, <1>6, <1>7, PendsFits
<1>9. Invoked(e, k) = f
  BY <1>3 DEF Invoked, f
<1>10. QED
  BY <1>6, <1>8, <1>9 DEF IsInvoked

LEMMA ResumedFits ==
  ASSUME NEW o, NEW e, Fits(o, e)
  PROVE  LET f == Resumed(e)
             g == [e EXCEPT !.pending = "none"] IN
         /\ Fits(o, f) /\ SameText(e, f) /\ f.pending = "none" /\ f.warned = e.warned
         /\ Fits(o, g) /\ SameText(e, g) /\ g.pending = "none" /\ g.warned = e.warned
<1> DEFINE d == Pends(e, "none", e.saveTimer, 0, FALSE)
           f == Scheduled(Refreshed(d))
           g == Pends(e, "none", e.saveTimer, e.retries, e.waiting)
<1>1. /\ e \in EditorsTo(Len(o)) /\ e.saveTimer \in BOOLEAN /\ 0 \in 0..MaxRetries
      /\ e.retries \in 0..MaxRetries /\ e.waiting \in BOOLEAN
  BY RetriesAreCounted DEF Fits, Frame, EditorsTo
<1>2. [e EXCEPT !.pending = "none", !.retries = 0, !.waiting = FALSE] = d
  BY <1>1 DEF EditorsTo, Pends
<1>3. [e EXCEPT !.pending = "none"] = g
  BY <1>1 DEF EditorsTo, Pends
<1>4. "none" \in Pendings /\ FALSE \in BOOLEAN
  BY DEF Pendings
<1>5. /\ d \in EditorsTo(Len(o)) /\ SameText(e, d) /\ d.pending = "none" /\ d.warned = e.warned
      /\ d.saveTimer = e.saveTimer /\ d.basis = e.basis /\ d.saved = e.saved
  <2>1. IsPending(Len(o), e, "none", e.saveTimer, d)
    BY <1>1, <1>4, PendsIs, Zenon
  <2>2. QED
    BY <2>1 DEF IsPending
<1>6. /\ g \in EditorsTo(Len(o)) /\ SameText(e, g) /\ g.pending = "none" /\ g.warned = e.warned
      /\ g.saveTimer = e.saveTimer /\ g.basis = e.basis /\ g.saved = e.saved /\ g.shown = e.shown
  <2>1. IsPending(Len(o), e, "none", e.saveTimer, g)
    BY <1>1, <1>4, PendsIs, Zenon
  <2>2. QED
    BY <2>1 DEF IsPending
<1>7. Resumed(e) = f
  BY <1>2 DEF Resumed
<1> HIDE DEF d, g
<1>8. e.saveTimer => e.usable
  BY DEF Fits, Flags
<1>9. Fits(o, g)
  BY <1>6, <1>8, PendsFits DEF SameText
<1>10. /\ f \in EditorsTo(Len(o)) /\ Alike(d, f) /\ f.queued = d.queued
       /\ f.persistTimer = d.persistTimer /\ (f.saveTimer => d.saveTimer \/ d.usable) /\ Told(f)
  BY <1>5, AgainIs
<1> HIDE DEF f
<1>11. /\ SameText(e, f) /\ f.pending = "none" /\ f.warned = e.warned /\ f.basis = e.basis
       /\ f.saved = e.saved /\ (f.saveTimer => f.usable)
  BY <1>5, <1>8, <1>10 DEF SameText, Alike, Kin
<1>12. Fits(o, f)
  BY <1>10, <1>11, PendsFits
<1>13. QED
  BY <1>3, <1>6, <1>7, <1>9, <1>11, <1>12

\* The user has chosen between the two texts.
Chosen(e) == [e EXCEPT !.conflict = None, !.recovery = None, !.resolving = FALSE, !.basis = e.rev]
LEMMA ChosenIs ==
  ASSUME NEW n, NEW e \in EditorsTo(n)
  PROVE  LET f == Chosen(e) IN
         /\ f \in EditorsTo(n) /\ Stays(e, f) /\ f.rev = e.rev /\ f.current = e.current
         /\ f.inputs = e.inputs /\ f.attempt = e.attempt /\ f.basis = e.rev /\ f.conflict = None
         /\ f.recovery = None /\ f.moved = e.moved /\ f.saved = e.saved /\ f.uncertain = e.uncertain
         /\ f.saveTimer = e.saveTimer
<1>0. e.rev \in 1..n
  BY DEF EditorsTo
<1>1. Chosen(e) \in EditorsTo(n)
  BY <1>0, ZenonT(40) DEF EditorsTo, Chosen
<1>2. Stays(e, Chosen(e))
  BY DEF EditorsTo, Chosen, Stays
<1>3. QED
  BY <1>1, <1>2 DEF EditorsTo, Chosen

LEMMA ChoiceFits ==
  ASSUME NEW o, NEW e, Stored(o), Fits(o, e), e.usable, e.recovery # None
  PROVE  LET f == Unblocked([e EXCEPT !.conflict = None, !.recovery = None, !.resolving = FALSE,
                                      !.basis = e.rev])
             g == Synchronized([e EXCEPT !.conflict = None, !.recovery = None, !.resolving = FALSE,
                                         !.basis = e.rev], e.saved) IN
         /\ Fits(o, f) /\ Stays(e, f) /\ f.attempt = None /\ f.current = e.current /\ f.rev = e.rev
         /\ f.recovery = None /\ f.uncertain = e.uncertain /\ f.persistTimer
         /\ Fits(o, g) /\ Stays(e, g) /\ Settled(g) /\ g.rev = e.rev /\ g.recovery = None
<1> DEFINE c == Chosen(e)
           t == e.saved
           f == Unblocked(c)
           g == Synchronized(c, t)
<1>1. /\ e \in EditorsTo(Len(o)) /\ e.attempt = None /\ ~e.moved /\ e.pending \notin {"start", "adopt"}
      /\ t \in Texts /\ Canon[t] = t /\ ~e.hydrating
  BY SavedIsStored DEF Fits, Frame, AttemptFits, Flags, Clean, Blocked
<1>2. /\ c \in EditorsTo(Len(o)) /\ Stays(e, c) /\ c.rev = e.rev /\ c.current = e.current
      /\ c.inputs = e.inputs /\ c.attempt = e.attempt /\ c.basis = e.rev /\ c.conflict = None
      /\ c.recovery = None /\ c.moved = e.moved /\ c.saved = t /\ c.uncertain = e.uncertain
      /\ c.saveTimer = e.saveTimer
  BY <1>1, ChosenIs
<1>3. c = [e EXCEPT !.conflict = None, !.recovery = None, !.resolving = FALSE, !.basis = e.rev]
  BY DEF Chosen
<1> HIDE DEF c
<1>4. /\ f \in EditorsTo(Len(o)) /\ Alike(c, f) /\ f.persistTimer = ~c.moved
      /\ (f.saveTimer => c.saveTimer \/ c.usable) /\ Told(f) /\ Even(f)
  BY <1>2, UnblockedIs
<1>5. /\ g \in EditorsTo(Len(o)) /\ Kin(c, g) /\ g.saved = t /\ ~g.uncertain
      /\ g.current = t /\ g.queued = None /\ g.persistTimer = ~c.moved /\ ~g.saveTimer /\ Told(g)
  BY <1>1, <1>2, SynchronizedIs
<1> HIDE DEF f, g, t
<1>6. /\ Stays(e, f) /\ f.rev = e.rev /\ f.current = e.current /\ f.attempt = None /\ f.basis = e.rev
      /\ f.conflict = None /\ f.recovery = None /\ ~f.moved /\ f.saved = t /\ f.uncertain = e.uncertain
      /\ f.persistTimer
  <2>1. Kin(c, f) /\ f.saved = c.saved /\ f.current = c.current /\ f.uncertain = c.uncertain
    BY <1>4 DEF Alike
  <2>2. Stays(e, f)
    BY <1>2, <2>1, KinStays, StaysOn
  <2>3. /\ f.attempt = c.attempt /\ f.rev = c.rev /\ f.basis = c.basis /\ f.conflict = c.conflict
        /\ f.recovery = c.recovery /\ f.moved = c.moved
    BY <2>1 DEF Kin
  <2>4. QED
    BY <1>1, <1>2, <1>4, <2>1, <2>2, <2>3
<1>7. /\ Stays(e, g) /\ g.rev = e.rev /\ g.attempt = None /\ g.basis = e.rev /\ g.conflict = None
      /\ g.recovery = None /\ ~g.moved /\ g.persistTimer
  <2>1. Stays(e, g)
    BY <1>2, <1>5, KinStays, StaysOn
  <2>2. QED
    BY <1>1, <1>2, <1>5, <2>1 DEF Kin
<1>8. Fits(o, f)
  <2>1. Frame(o, f)
    BY <1>1, <1>4, <1>6 DEF Fits, Frame, Stays, t
  <2>2. AttemptFits(o, f)
    BY <1>6 DEF AttemptFits
  <2>3. f.usable /\ ~Blocked(f) /\ f.pending \notin {"start", "adopt"}
    BY <1>1, <1>6 DEF Blocked, Stays
  <2>4. Flags(f)
    BY <1>1, <1>4, <1>6, <2>3, FreeFlags
  <2>5. QED
    BY <2>1, <2>2, <2>4 DEF Fits
<1>9. Fits(o, g) /\ Settled(g)
  <2>1. Frame(o, g)
    BY <1>1, <1>5, <1>7 DEF Fits, Frame, Stays, t
  <2>2. AttemptFits(o, g)
    BY <1>7 DEF AttemptFits
  <2>3. g.usable /\ ~Blocked(g) /\ g.pending \notin {"start", "adopt"}
    BY <1>1, <1>7 DEF Blocked, Stays
  <2>4. Even(g)
    BY <1>5, <1>7 DEF Even
  <2>5. Flags(g)
    BY <1>1, <1>5, <1>7, <2>3, <2>4, FreeFlags
  <2>6. QED
    BY <1>5, <1>7, <2>1, <2>2, <2>3, <2>5 DEF Fits, Settled
<1>10. QED
  BY <1>3, <1>6, <1>7, <1>8, <1>9 DEF f, g, t

\* The suggestion was taken over at revision r.
Adopts(e, r) == [e EXCEPT !.pending = "none", !.offered = FALSE, !.rev = r, !.basis = r,
                          !.conflict = None, !.recovery = None, !.resolving = FALSE]
LEMMA AdoptsIs ==
  ASSUME NEW n, NEW e \in EditorsTo(n), NEW r \in 1..n
  PROVE  LET f == Adopts(e, r) IN
         /\ f \in EditorsTo(n) /\ f.mounted = e.mounted /\ f.usable = e.usable /\ f.mount = e.mount
         /\ f.hydrating = e.hydrating /\ f.warned = e.warned /\ f.pending = "none" /\ f.rev = r
         /\ f.basis = r /\ f.conflict = None /\ f.recovery = None /\ f.attempt = e.attempt /\ f.moved = e.moved
<1>1. Adopts(e, r) \in EditorsTo(n)
  <2>1. "none" \in Pendings
    BY DEF Pendings
  <2>2. QED
    BY <2>1, ZenonT(40) DEF EditorsTo, Adopts
<1>2. QED
  BY <1>1 DEF EditorsTo, Adopts

LEMMA AdoptedFits ==
  ASSUME NEW o, NEW e, Stored(o), Fits(o, e), e.usable, Clean(e), NEW r \in 1..Len(o), o[r] = Suggestion
  PROVE  LET f == Synchronized([e EXCEPT !.pending = "none", !.offered = FALSE, !.rev = r,
                                         !.basis = r, !.conflict = None, !.recovery = None,
                                         !.resolving = FALSE], Suggestion) IN
         /\ Fits(o, f) /\ f.mounted = e.mounted /\ f.usable = e.usable /\ f.mount = e.mount
         /\ f.hydrating = e.hydrating /\ f.warned = e.warned /\ f.rev = r /\ Settled(f)
<1> DEFINE c == Adopts(e, r)
           f == Synchronized(c, Suggestion)
<1>1. e \in EditorsTo(Len(o)) /\ ~e.hydrating /\ ~e.moved /\ e.attempt = None
  BY DEF Fits, Frame, Clean, Blocked
<1>2. Suggestion \in Texts /\ Canon[Suggestion] = Suggestion
  BY Canonical
<1>3. /\ c \in EditorsTo(Len(o)) /\ c.mounted = e.mounted /\ c.usable = e.usable /\ c.mount = e.mount
      /\ c.hydrating = e.hydrating /\ c.warned = e.warned /\ c.pending = "none" /\ c.rev = r
      /\ c.basis = r /\ c.conflict = None /\ c.recovery = None /\ c.attempt = e.attempt /\ c.moved = e.moved
  BY <1>1, AdoptsIs
<1>4. c = [e EXCEPT !.pending = "none", !.offered = FALSE, !.rev = r, !.basis = r,
                    !.conflict = None, !.recovery = None, !.resolving = FALSE]
  BY DEF Adopts
<1> HIDE DEF c
<1>5. /\ f \in EditorsTo(Len(o)) /\ Kin(c, f) /\ f.saved = Suggestion /\ ~f.uncertain
      /\ f.current = Suggestion /\ f.queued = None /\ f.persistTimer = ~c.moved /\ ~f.saveTimer /\ Told(f)
  BY <1>2, <1>3, SynchronizedIs
<1> HIDE DEF f
<1>6. /\ f.mounted = e.mounted /\ f.usable = e.usable /\ f.mount = e.mount
      /\ f.hydrating = e.hydrating /\ f.warned = e.warned /\ f.pending = "none" /\ f.rev = r
      /\ f.basis = r /\ f.conflict = None /\ f.recovery = None /\ f.attempt = None /\ ~f.moved
  BY <1>1, <1>3, <1>5 DEF Kin
<1>7. Frame(o, f)
  BY <1>1, <1>5, <1>6 DEF Fits, Frame
<1>8. AttemptFits(o, f)
  BY <1>6 DEF AttemptFits
<1>9. ~Blocked(f) /\ Even(f)
  BY <1>5, <1>6 DEF Blocked, Even
<1>10. Flags(f)
  BY <1>2, <1>5, <1>6, <1>9, FreeFlags
<1>11. QED
  BY <1>4, <1>5, <1>6, <1>7, <1>8, <1>9, <1>10 DEF Fits, Settled, f

LEMMA NewEditorFits ==
  ASSUME Stored(log), NEW r \in 1..Len(log), NEW n \in Nat
  PROVE  LET f == NewEditor(r, n) IN
         /\ Fits(log, f) /\ Settled(f) /\ f.usable /\ f.hydrating /\ f.mount = n /\ ~f.warned
         /\ f.pending = "none" /\ f.rev = r /\ f.recovery = None /\ f.attempt = None
<1> DEFINE f == NewEditor(r, n)
           t == log[r]
<1>1. t \in Texts /\ Canon[t] = t /\ 0 \in 0..MaxRetries /\ "none" \in Pendings
  BY RetriesAreCounted DEF Stored, Pendings
<1>2. f = [mounted |-> TRUE, usable |-> TRUE, mount |-> n, pending |-> "none",
           saved |-> t, current |-> t, queued |-> None, uncertain |-> FALSE,
           hydrating |-> TRUE, halted |-> None, waiting |-> FALSE, retries |-> 0,
           inputs |-> 0, saveTimer |-> FALSE, persistTimer |-> FALSE,
           attempt |-> None, shown |-> "saving", rev |-> r, basis |-> r,
           conflict |-> None, recovery |-> None, resolving |-> FALSE,
           lastCached |-> None, moved |-> FALSE, warned |-> FALSE, offered |-> TRUE]
  BY DEF NewEditor
<1> HIDE DEF f, t
<1>3. f \in EditorsTo(Len(log))
  BY <1>1, <1>2 DEF EditorsTo
<1>4. /\ f.mounted /\ f.usable /\ f.mount = n /\ f.pending = "none" /\ f.saved = t /\ f.current = t
      /\ f.queued = None /\ ~f.uncertain /\ f.hydrating /\ ~f.saveTimer /\ ~f.persistTimer
      /\ f.attempt = None /\ f.shown = "saving" /\ f.rev = r /\ f.basis = r /\ f.conflict = None
      /\ f.recovery = None /\ ~f.moved /\ ~f.warned
  BY <1>2
<1>5. Frame(log, f)
  BY <1>3, <1>4 DEF Frame, t
<1>6. AttemptFits(log, f)
  BY <1>4 DEF AttemptFits
<1>7. Flags(f) /\ Settled(f)
  BY <1>1, <1>4 DEF Flags, Blocked, Settled
<1>8. QED
  BY <1>4, <1>5, <1>6, <1>7 DEF Fits, f

-----------------------------------------------------------------------------
(***************************************************************************)
(* A draft that grows on the server                                        *)
(***************************************************************************)
Longer(o, p) ==
    /\ Stored(p) /\ Len(o) \in Nat /\ Len(p) \in Nat /\ Len(p) >= Len(o)
    /\ \A i \in 1..Len(o) : p[i] = o[i]

LEMMA LongerSame ==
  ASSUME NEW o, Stored(o)
  PROVE  Longer(o, o)
BY DEF Longer, Stored

LEMMA LongerByOne ==
  ASSUME NEW o, Stored(o), NEW t \in Texts
  PROVE  LET p == Append(o, Canon[t]) IN
         Longer(o, p) /\ Len(p) = Len(o) + 1 /\ p[Len(p)] = Canon[t]
<1> DEFINE c == Canon[t]
           p == Append(o, c)
<1>1. c \in Texts /\ Canon[c] = c
  BY Canonical
<1> HIDE DEF c
<1>2. o \in Seq(Texts) /\ Len(o) \in Nat /\ DOMAIN o = 1..Len(o)
  BY DEF Stored
<1>3. /\ p \in Seq(Texts) /\ Len(p) = Len(o) + 1 /\ DOMAIN p = 1..(Len(o) + 1) /\ p[Len(o) + 1] = c
      /\ \A i \in 1..Len(o) : p[i] = o[i]
  BY <1>1, <1>2
<1> HIDE DEF p
<1>4. \A i \in DOMAIN p : Canon[p[i]] = p[i]
  <2> SUFFICES ASSUME NEW i \in DOMAIN p PROVE Canon[p[i]] = p[i]
    OBVIOUS
  <2>1. CASE i = Len(o) + 1
    BY <2>1, <1>1, <1>3
  <2>2. CASE i # Len(o) + 1
    <3>1. i \in DOMAIN o /\ p[i] = o[i]
      BY <2>2, <1>2, <1>3
    <3>2. QED
      BY <3>1 DEF Stored
  <2>3. QED
    BY <2>1, <2>2
<1>5. QED
  BY <1>2, <1>3, <1>4 DEF Longer, Stored, c, p

LEMMA WiderTypes ==
  ASSUME NEW n \in Nat, NEW m \in Nat, m >= n
  PROVE  /\ 1..n \subseteq 1..m /\ 0..n \subseteq 0..m
         /\ DraftsTo(n) \subseteq DraftsTo(m) /\ ConflictsTo(n) \subseteq ConflictsTo(m)
         /\ AttemptsTo(n) \subseteq AttemptsTo(m) /\ EditorsTo(n) \subseteq EditorsTo(m)
<1>1. 1..n \subseteq 1..m /\ 0..n \subseteq 0..m
  OBVIOUS
<1>2. DraftsTo(n) \subseteq DraftsTo(m)
  BY <1>1 DEF DraftsTo
<1>3. ConflictsTo(n) \subseteq ConflictsTo(m)
  BY <1>1 DEF ConflictsTo
<1>4. AttemptsTo(n) \subseteq AttemptsTo(m)
  BY <1>1 DEF AttemptsTo
<1> DEFINE a(k) == AttemptsTo(k) \cup {None}
           c(k) == ConflictsTo(k) \cup {None}
           d(k) == DraftsTo(k) \cup {None}
<1>5. a(n) \subseteq a(m) /\ c(n) \subseteq c(m) /\ d(n) \subseteq d(m)
  BY <1>2, <1>3, <1>4
<1>6. EditorsTo(n) \subseteq EditorsTo(m)
  <2> SUFFICES ASSUME NEW e \in EditorsTo(n) PROVE e \in EditorsTo(m)
    OBVIOUS
  <2> DEFINE r(k) == 1..k
  <2>1. r(n) \subseteq r(m)
    BY <1>1
  <2> HIDE DEF a, c, d, r
  <2>2. e \in EditorsTo(n) => e \in EditorsTo(m)
    <3> USE <1>5, <2>1
    <3>1. \A k : EditorsTo(k) =
    [mounted : BOOLEAN, usable : BOOLEAN, mount : Nat,
     pending : Pendings,
     saved : Texts, current : Texts, queued : Texts \cup {None}, uncertain : BOOLEAN,
     hydrating : BOOLEAN, halted : {None, "retryable", "final"}, waiting : BOOLEAN,
     retries : 0..MaxRetries, inputs : Nat, saveTimer : BOOLEAN, persistTimer : BOOLEAN,
     attempt : a(k), shown : {"saving", "failed", "dirty", "saved"},
     rev : r(k), basis : r(k), conflict : c(k),
     recovery : d(k), resolving : BOOLEAN,
     lastCached : d(k), moved : BOOLEAN, warned : BOOLEAN, offered : BOOLEAN]
      BY DEF EditorsTo, a, c, d, r
    <3>2. QED
      BY <3>1, ZenonT(40)
  <2>3. QED
    BY <2>2
<1>7. QED
  BY <1>1, <1>2, <1>3, <1>4, <1>6

LEMMA LongerFits ==
  ASSUME NEW o, NEW p, NEW e, Longer(o, p), Fits(o, e)
  PROVE  Fits(p, e)
<1>1. e \in EditorsTo(Len(o)) /\ Len(o) \in Nat /\ Len(p) \in Nat /\ Len(p) >= Len(o)
  BY DEF Fits, Frame, Longer
<1>2. e \in EditorsTo(Len(p))
  BY <1>1, WiderTypes
<1>3. e.rev \in 1..Len(o) /\ e.attempt \in AttemptsTo(Len(o)) \cup {None}
  BY <1>1 DEF EditorsTo
<1>4. Frame(p, e)
  BY <1>2, <1>3 DEF Fits, Frame, Longer
<1>5. AttemptFits(p, e)
  <2> SUFFICES ASSUME e.attempt # None, e.attempt.stage = "ok"
               PROVE  e.attempt.rev >= e.rev /\ p[e.attempt.rev] = Canon[e.attempt.text]
    BY DEF Fits, AttemptFits
  <2>1. e.attempt.rev >= e.rev /\ o[e.attempt.rev] = Canon[e.attempt.text]
    BY DEF Fits, AttemptFits
  <2>2. e.attempt.rev \in 0..Len(o)
    BY <1>3 DEF AttemptsTo
  <2>3. e.attempt.rev \in 1..Len(o)
    BY <1>1, <1>3, <2>1, <2>2
  <2>4. QED
    BY <2>1, <2>3 DEF Longer
<1>6. QED
  BY <1>4, <1>5 DEF Fits

LEMMA LongerRequests ==
  ASSUME NEW o, NEW p, NEW e, NEW l, NEW c, NEW ad, NEW ad2 \in Nat, NEW qs, NEW m, Longer(o, p),
         ad # 0 => ad2 # 0
  PROVE  /\ LoadFits(o, e, l) => LoadFits(p, e, l)
         /\ CmdFits(o, e, c, ad) => CmdFits(p, e, c, ad2)
         /\ OrphansFit(o, e, qs, m) => OrphansFit(p, e, qs, m)
<1>1. 1..Len(o) \subseteq 1..Len(p) /\ 0..Len(o) \subseteq 0..Len(p)
  BY WiderTypes DEF Longer
<1>2. LoadFits(o, e, l) => LoadFits(p, e, l)
  BY <1>1 DEF LoadFits
<1>3. CmdFits(o, e, c, ad) => CmdFits(p, e, c, ad2)
  <2> SUFFICES ASSUME CmdFits(o, e, c, ad), c # None PROVE CmdFits(p, e, c, ad2)
    BY DEF CmdFits
  <2>1. c \in [kind : {"start", "discard", "adopt"}, base : 1..Len(o), mount : Nat,
               stage : {"sent", "ok", "refused"}]
    BY DEF CmdFits
  <2>2. c \in [kind : {"start", "discard", "adopt"}, base : 1..Len(p), mount : Nat,
               stage : {"sent", "ok", "refused"}]
    BY <1>1, <2>1
  <2>3. c.base \in 1..Len(o)
    BY <2>1
  <2>4. p[c.base] = o[c.base]
    BY <2>3 DEF Longer
  <2>5. QED
    BY <2>2, <2>4 DEF CmdFits
<1>4. OrphansFit(o, e, qs, m) => OrphansFit(p, e, qs, m)
  <2> SUFFICES ASSUME NEW q, OrphanFits(o, e, q, m) PROVE OrphanFits(p, e, q, m)
    BY DEF OrphansFit
  <2>1. QED
    BY <1>1 DEF OrphanFits
<1>5. QED
  BY <1>2, <1>3, <1>4

LEMMA LongerBrowser ==
  ASSUME NEW o, NEW p, NEW e, NEW c, NEW q, NEW cl, NEW faults, Longer(o, p),
         BrowserFits(o, e, c, q, cl, faults)
  PROVE  BrowserFits(p, e, c, q, cl, faults)
<1>1. DraftsTo(Len(o)) \subseteq DraftsTo(Len(p))
  BY WiderTypes DEF Longer
<1>2. OpsFit(p, e, q)
  BY <1>1 DEF BrowserFits, OpsFit, OpFits
<1>3. QED
  BY <1>1, <1>2 DEF BrowserFits

(***************************************************************************)
(* Requests and the browser's copy, when the editor changes                *)
(***************************************************************************)
LEMMA RequestsKept ==
  ASSUME NEW o, NEW e, NEW l, NEW c, NEW ad, NEW qs, NEW en, NEW m, NEW f, NEW k,
         RequestsFit(o, e, l, c, ad, qs, en, m), LoadFits(o, f, k),
         e \in EditorsTo(Len(o)), f \in EditorsTo(Len(o)), f.mount = e.mount, f.pending = e.pending,
         f.rev >= e.rev, f.rev = e.rev \/ e.pending \notin {"start", "adopt"}
  PROVE  RequestsFit(o, f, k, c, ad, qs, en, m)
<1>1. e.rev \in Int /\ f.rev \in Int
  BY DEF EditorsTo
<1>2. CmdFits(o, f, c, ad)
  <2> SUFFICES ASSUME c # None PROVE CmdFits(o, f, c, ad)
    BY DEF CmdFits
  <2>1. CmdFits(o, e, c, ad)
    BY DEF RequestsFit
  <2>2. c.kind \in {"start", "discard", "adopt"} /\ c.base \in Int /\ c.kind = e.pending
    BY <2>1 DEF CmdFits
  <2>3. c.kind = "start" /\ c.stage = "sent" => c.base <= f.rev
    BY <1>1, <2>1, <2>2 DEF CmdFits
  <2>4. c.kind = "adopt" => f.rev = e.rev
    BY <2>2
  <2>5. QED
    BY <2>1, <2>3, <2>4 DEF CmdFits
<1>3. OrphansFit(o, f, qs, m)
  <2> SUFFICES ASSUME NEW q \in qs PROVE OrphanFits(o, f, q, m)
    BY DEF OrphansFit
  <2>1. OrphanFits(o, e, q, m)
    BY DEF RequestsFit, OrphansFit
  <2>2. QED
    BY <1>1, <2>1 DEF OrphanFits
<1>4. EndingFits(o, f, en, m)
  <2> SUFFICES ASSUME en # None PROVE EndingFits(o, f, en, m)
    BY DEF EndingFits
  <2>1. EndingFits(o, e, en, m)
    BY DEF RequestsFit
  <2>2. en.base \in Int
    BY <2>1 DEF EndingFits
  <2>3. QED
    BY <1>1, <2>1, <2>2 DEF EndingFits
<1>5. QED
  BY <1>2, <1>3, <1>4 DEF RequestsFit

LEMMA LoadKept ==
  ASSUME NEW o, NEW e, NEW l, NEW f, LoadFits(o, e, l),
         e.usable => f.usable, f.rev = e.rev, e.conflict # None => f.conflict # None,
         e.recovery = None => f.recovery = None
  PROVE  LoadFits(o, f, l)
BY DEF LoadFits

LEMMA NoLoad ==
  ASSUME NEW o, NEW e, NEW l, NEW f, LoadFits(o, e, l),
         ~e.usable \/ e.conflict = None \/ e.recovery # None
  PROVE  l = None /\ LoadFits(o, f, l)
BY DEF LoadFits

\* The answer of the save is here.
IsOk(e) == e.attempt # None /\ e.attempt.stage = "ok"

LEMMA NewestKept ==
  ASSUME NEW o, NEW e, NEW l, NEW f, NEW k, NewestFits(o, e, l), f.usable => e.usable,
         f.rev = e.rev, f.uncertain = e.uncertain, IsOk(f) \/ IsOk(e) => f.attempt = e.attempt,
         f.recovery # None => e.recovery # None, k = None \/ k = l
  PROVE  NewestFits(o, f, k)
BY DEF NewestFits, IsOk

LEMMA KeptSame ==
  ASSUME NEW e, NEW q, NEW c, NEW faults, NEW f, KeptFits(e, q, c, faults),
         f.usable => e.usable, ~Settled(f) => ~Settled(e), f.mounted = e.mounted,
         f.current = e.current, f.persistTimer = e.persistTimer, f.warned = e.warned
  PROVE  KeptFits(f, q, c, faults)
BY DEF KeptFits, OnDisk

LEMMA BrowserKept ==
  ASSUME NEW o, NEW e, NEW c, NEW q, NEW cl, NEW faults, NEW f, BrowserFits(o, e, c, q, cl, faults),
         f.usable = e.usable, f.hydrating = e.hydrating, f.warned = e.warned,
         KeptFits(f, q, c, faults)
  PROVE  BrowserFits(o, f, c, q, cl, faults)
BY DEF BrowserFits, OpsFit

\* An operation that leaves the text of the editor on disk, if it is not saved.
Keeps(n, op, e) ==
    /\ op \in BrowserOps /\ OpFits(n, op) /\ op.kind # "get"
    /\ ~Settled(e) => op.kind = "put" /\ op.draft.text = e.current

LEMMA PersistOpKeeps ==
  ASSUME NEW o, NEW e, Stored(o), Frame(o, e), NEW then \in Tails
  PROVE  Keeps(Len(o), PersistOp(e, then), e)
<1> DEFINE d == DraftOf(e)
<1>1. d \in DraftsTo(Len(o)) /\ d # None /\ d.text = e.current /\ d.base = d.basis
  BY DraftOfFits
<1>2. PersistOp(e, then) = IF Settled(e) THEN Op("clear", None, then) ELSE Op("put", d, then)
  BY DEF PersistOp
<1> HIDE DEF d
<1>3. d \in [text : Texts, base : Nat, basis : Nat]
  <2>1. \A i \in 1..Len(o) : i \in Nat
    BY DEF Stored
  <2>2. QED
    BY <1>1, <2>1 DEF DraftsTo
<1>4. CASE Settled(e)
  BY <1>2, <1>4 DEF Keeps, BrowserOps, OpFits, Op, Sound
<1>5. CASE ~Settled(e)
  BY <1>1, <1>2, <1>3, <1>5 DEF Keeps, BrowserOps, OpFits, Op, Sound
<1>6. QED
  BY <1>4, <1>5

LEMMA WipeKeeps ==
  ASSUME NEW n, NEW e, Settled(e)
  PROVE  Keeps(n, Op("wipe", None, NoTail), e)
BY DEF Keeps, BrowserOps, OpFits, Op, Sound, NoTail, Tails

LEMMA SavedIsTail == [kind |-> "saved"] \in Tails /\ NoTail \in Tails
BY DEF Tails, NoTail

LEMMA FailedIsTail ==
  ASSUME NEW n \in Nat, NEW b \in BOOLEAN
  PROVE  [kind |-> "failed", inputs |-> n, retryable |-> b] \in Tails
BY DEF Tails

\* The last operation decides what is on disk in the end.
LEMMA AppendFits ==
  ASSUME NEW o, NEW e, NEW c, NEW q, NEW cl, NEW faults, NEW f, NEW op,
         BrowserFits(o, e, c, q, cl, faults), e.usable,
         f.hydrating = e.hydrating, f.warned = e.warned, Keeps(Len(o), op, f)
  PROVE  BrowserFits(o, f, c, Append(q, op), cl, faults)
<1> DEFINE r == Append(q, op)
<1>1. q \in Seq(BrowserOps) /\ op \in BrowserOps /\ Len(q) \in Nat /\ DOMAIN q = 1..Len(q)
  BY DEF BrowserFits, OpsFit, Keeps
<1>2. /\ r \in Seq(BrowserOps) /\ Len(r) = Len(q) + 1 /\ DOMAIN r = 1..(Len(q) + 1)
      /\ r[Len(q) + 1] = op /\ \A i \in 1..Len(q) : r[i] = q[i]
  BY <1>1
<1> HIDE DEF r
<1>3. \A i \in DOMAIN r : r[i] = op \/ (i \in DOMAIN q /\ r[i] = q[i])
  <2> SUFFICES ASSUME NEW i \in DOMAIN r, i # Len(q) + 1 PROVE i \in DOMAIN q /\ r[i] = q[i]
    BY <1>2
  <2>1. i \in 1..Len(q)
    BY <1>1, <1>2
  <2>2. QED
    BY <1>1, <1>2, <2>1
<1>4. OpsFit(o, f, r)
  BY <1>2, <1>3 DEF OpsFit, BrowserFits, Keeps
<1>5. r # <<>> /\ r[Len(r)] = op
  <2>1. Len(r) # 0
    BY <1>1, <1>2
  <2>2. QED
    BY <1>2, <2>1
<1>6. KeptFits(f, r, c, faults)
  BY <1>5 DEF KeptFits, OnDisk, Keeps
<1>7. cl \notin {"quiesced", "done"}
  BY DEF BrowserFits
<1>8. QED
  BY <1>4, <1>6, <1>7 DEF BrowserFits, r

\* The same, for an operation that keeps the text of the editor before the step.
LEMMA KeepsToo ==
  ASSUME NEW n, NEW op, NEW e, NEW f, Keeps(n, op, e), ~Settled(f) => ~Settled(e),
         f.current = e.current
  PROVE  Keeps(n, op, f)
BY DEF Keeps

LEMMA OneMore ==
  ASSUME NEW o, NEW e, NEW q, NEW op, OpsFit(o, e, q)
  PROVE  q \o <<op>> = Append(q, op)
<1>1. q \in Seq(BrowserOps)
  BY DEF OpsFit
<1>2. QED
  BY <1>1

LEMMA NoMore ==
  ASSUME NEW o, NEW e, NEW q, OpsFit(o, e, q)
  PROVE  q \o <<>> = q
<1>1. q \in Seq(BrowserOps)
  BY DEF OpsFit
<1>2. QED
  BY <1>1

-----------------------------------------------------------------------------
(***************************************************************************)
(* Init and the steps                                                      *)
(***************************************************************************)
LEMMA SaveTimerStep ==
  ASSUME IInv, SaveTimerFires
  PROVE  IInv'
<1> DEFINE s == [ed EXCEPT !.saveTimer = FALSE]
           f == Pumped(s)
<1>1. /\ ed' = f /\ UNCHANGED <<log, ending, adopted, orphans, load, cmd, cleanup, home, cache, ops, used>>
  BY DEF SaveTimerFires, server
<1>2. Stored(log) /\ Fits(log, ed)
  BY DEF IInv, StoreFits
<1>3. /\ Fits(log, s) /\ Stays(ed, s) /\ Alike(ed, s) /\ s.queued = ed.queued
      /\ s.persistTimer = ed.persistTimer
  BY <1>2, TimersFit
<1> HIDE DEF s
<1>4. Fits(log, f) /\ Pumping(s, f)
  BY <1>2, <1>3, PumpedFits
<1> HIDE DEF f
<1>5. ed \in EditorsTo(Len(log)) /\ f \in EditorsTo(Len(log))
  BY <1>2, <1>4 DEF Fits, Frame
<1>6. /\ Stays(ed, f) /\ f.current = ed.current /\ f.rev = ed.rev /\ f.conflict = ed.conflict
      /\ f.recovery = ed.recovery /\ f.uncertain = ed.uncertain /\ f.persistTimer = ed.persistTimer
      /\ f.moved = ed.moved
  BY <1>3, <1>4 DEF Stays, Alike, Kin, Pumping
<1>7. (f.attempt = ed.attempt /\ f.queued = ed.queued)
      \/ (ed.attempt = None /\ ed.queued # None /\ f.attempt.stage = "sent")
  BY <1>3, <1>4 DEF Alike, Kin, Pumping
<1>8. RequestsFit(log, f, load, cmd, adopted, orphans, ending, used.mounts)
  <2>1. RequestsFit(log, ed, load, cmd, adopted, orphans, ending, used.mounts)
    BY DEF IInv
  <2>2. LoadFits(log, f, load)
    BY <2>1, <1>6, LoadKept DEF RequestsFit, Stays
  <2>3. ed.rev \in Int
    BY <1>5 DEF EditorsTo
  <2>4. f.mount = ed.mount /\ f.pending = ed.pending /\ f.rev >= ed.rev /\ f.rev = ed.rev
    BY <1>6, <2>3 DEF Stays
  <2>5. QED
    BY <1>5, <2>1, <2>2, <2>4, RequestsKept
<1>9. BrowserFits(log, f, cache, ops, cleanup, used.faults)
  <2>1. BrowserFits(log, ed, cache, ops, cleanup, used.faults)
    BY DEF IInv
  <2>2. ~Settled(f) => ~Settled(ed)
    BY <1>6, <1>7 DEF Settled, Blocked
  <2>3. f.usable = ed.usable /\ f.mounted = ed.mounted /\ f.warned = ed.warned /\ f.hydrating = ed.hydrating
    BY <1>6 DEF Stays
  <2>4. KeptFits(f, ops, cache, used.faults)
    BY <1>6, <2>1, <2>2, <2>3, KeptSame DEF BrowserFits
  <2>5. QED
    BY <2>1, <2>3, <2>4, BrowserKept
<1>10. Quiet(used, adopted) => NewestFits(log, f, load)
  <2>1. IsOk(f) \/ IsOk(ed) => f.attempt = ed.attempt
    BY <1>7 DEF IsOk
  <2>2. Quiet(used, adopted) => NewestFits(log, ed, load)
    BY DEF IInv
  <2>3. f.usable = ed.usable
    BY <1>6 DEF Stays
  <2>4. QED
    BY <1>6, <2>1, <2>2, <2>3, NewestKept
<1>11. StoreFits(log, adopted, home, cleanup, used)
  BY DEF IInv
<1>12. QED
  BY <1>1, <1>4, <1>8, <1>9, <1>10, <1>11 DEF IInv

\* What the editor waits for goes on unchanged: its text, its revision, its conflict.
Persists(e, f) ==
    /\ Stays(e, f) /\ f.current = e.current /\ f.rev = e.rev /\ f.conflict = e.conflict
    /\ f.recovery = e.recovery /\ f.uncertain = e.uncertain /\ f.moved = e.moved
    /\ f.attempt = e.attempt /\ f.queued = e.queued

LEMMA AlikePersists ==
  ASSUME NEW e, NEW f, Stays(e, f), Alike(e, f), f.queued = e.queued
  PROVE  Persists(e, f)
BY DEF Persists, Alike, Kin

LEMMA PersistsMeans ==
  ASSUME NEW e, NEW f, Persists(e, f)
  PROVE  /\ f.usable = e.usable /\ f.mounted = e.mounted /\ f.hydrating = e.hydrating
         /\ f.warned = e.warned /\ f.mount = e.mount /\ f.pending = e.pending
         /\ f.current = e.current /\ f.rev = e.rev /\ f.conflict = e.conflict
         /\ f.recovery = e.recovery /\ f.uncertain = e.uncertain /\ f.moved = e.moved
         /\ f.attempt = e.attempt /\ f.queued = e.queued
         /\ Settled(f) = Settled(e) /\ Blocked(f) = Blocked(e)
BY DEF Persists, Stays, Settled, Blocked

\* What the steps need to know of a state, and what they have to show of the next.
LEMMA Before ==
  ASSUME IInv
  PROVE  /\ StoreFits(log, adopted, home, cleanup, used)
         /\ Stored(log) /\ Len(log) \in Nat
         /\ Fits(log, ed) /\ ed \in EditorsTo(Len(log)) /\ Frame(log, ed)
         /\ RequestsFit(log, ed, load, cmd, adopted, orphans, ending, used.mounts)
         /\ LoadFits(log, ed, load) /\ CmdFits(log, ed, cmd, adopted)
         /\ BrowserFits(log, ed, cache, ops, cleanup, used.faults)
         /\ OpsFit(log, ed, ops) /\ KeptFits(ed, ops, cache, used.faults)
         /\ Quiet(used, adopted) => NewestFits(log, ed, load)
BY DEF IInv, StoreFits, Stored, Fits, Frame, RequestsFit, BrowserFits

LEMMA PersistingFits ==
  ASSUME IInv, NEW f, Fits(log, f), Persists(ed, f)
  PROVE  /\ RequestsFit(log, f, load, cmd, adopted, orphans, ending, used.mounts)
         /\ Quiet(used, adopted) => NewestFits(log, f, load)
<1>1. f \in EditorsTo(Len(log))
  BY DEF Fits, Frame
<1>2. LoadFits(log, f, load)
  BY Before, PersistsMeans, LoadKept
<1>3. ed.rev \in Int
  BY Before DEF EditorsTo
<1>4. f.mount = ed.mount /\ f.pending = ed.pending /\ f.rev >= ed.rev /\ f.rev = ed.rev
  BY <1>3, PersistsMeans
<1>5. RequestsFit(log, f, load, cmd, adopted, orphans, ending, used.mounts)
  BY <1>1, <1>2, <1>4, Before, RequestsKept
<1>6. Quiet(used, adopted) => NewestFits(log, f, load)
  BY Before, PersistsMeans, NewestKept
<1>7. QED
  BY <1>5, <1>6

\* The text is put on the queue; the rest of the editor stays.
LEMMA PersistingStep ==
  ASSUME IInv, Fits(log, ed'), Persists(ed, ed'), ed.usable,
         ops' = Append(ops, PersistOp(ed, NoTail)),
         UNCHANGED <<log, ending, adopted, orphans, load, cmd, cleanup, home, cache, used>>
  PROVE  IInv'
<1> DEFINE f == ed'
           op == PersistOp(ed, NoTail)
<1>1. Keeps(Len(log), op, ed)
  BY Before, PersistOpKeeps, SavedIsTail
<1>2. f.hydrating = ed.hydrating /\ f.warned = ed.warned /\ f.current = ed.current /\ Settled(f) = Settled(ed)
  BY PersistsMeans
<1>3. Keeps(Len(log), op, f)
  BY <1>1, <1>2, KeepsToo
<1>4. BrowserFits(log, f, cache, Append(ops, op), cleanup, used.faults)
  BY <1>2, <1>3, Before, AppendFits
<1>5. /\ RequestsFit(log, f, load, cmd, adopted, orphans, ending, used.mounts)
      /\ Quiet(used, adopted) => NewestFits(log, f, load)
  BY PersistingFits
<1>6. QED
  BY <1>4, <1>5, Before DEF IInv

LEMMA PersistTimerStep ==
  ASSUME IInv, PersistTimerFires \/ PageHidden
  PROVE  IInv'
<1> DEFINE g == [ed EXCEPT !.persistTimer = FALSE]
<1>1. Fits(log, g) /\ Persists(ed, g)
  BY Before, TimersFit, AlikePersists
<1> HIDE DEF g
<1>2. ed' = g /\ ops' = Append(ops, PersistOp(ed, NoTail))
      /\ UNCHANGED <<log, ending, adopted, orphans, load, cmd, cleanup, home, cache, used>>
  BY DEF PersistTimerFires, PageHidden, server, g
<1>3. ed.usable
  BY Before DEF PersistTimerFires, PageHidden, Fits, Flags
<1>4. QED
  BY <1>1, <1>2, <1>3, PersistingStep

LEMMA SelfPersists ==
  ASSUME NEW e
  PROVE  Persists(e, e)
BY DEF Persists, Stays

LEMMA BlurStep ==
  ASSUME IInv, Blur
  PROVE  IInv'
<1> DEFINE f == Scheduled(ed)
<1>1. /\ f \in EditorsTo(Len(log)) /\ Alike(ed, f) /\ f.queued = ed.queued
      /\ f.persistTimer = ed.persistTimer /\ f.shown = ed.shown
      /\ f.saveTimer => ed.saveTimer \/ ed.usable
  BY Before, ScheduledIs
<1>2. Fits(log, f) /\ Stays(ed, f)
  BY <1>1, Before, AgainFits
<1>3. Fits(log, f) /\ Persists(ed, f)
  BY <1>1, <1>2, AlikePersists
<1> HIDE DEF f
<1>4. (ed' = ed \/ ed' = f) /\ ops' = Append(ops, PersistOp(ed, NoTail)) /\ ed.usable
      /\ UNCHANGED <<log, ending, adopted, orphans, load, cmd, cleanup, home, cache, used>>
  BY DEF Blur, server, f
<1>5. Fits(log, ed') /\ Persists(ed, ed')
  BY <1>3, <1>4, Before, SelfPersists
<1>6. QED
  BY <1>4, <1>5, PersistingStep

\* The route is left: the text is put on the queue, and sent if it can be.
LEMMA DetachStep ==
  ASSUME IInv, ed.mounted, ed' = Detached(ed), ops' = ops \o DetachOps(ed),
         home' \in 0..Len(log),
         UNCHANGED <<log, ending, adopted, orphans, load, cmd, cleanup, cache, used>>
  PROVE  IInv'
<1> DEFINE f == Detached(ed)
           op == PersistOp(ed, NoTail)
<1>1. /\ Fits(log, f) /\ ~f.mounted /\ f.usable = ed.usable /\ f.mount = ed.mount /\ f.pending = ed.pending
      /\ f.hydrating = ed.hydrating /\ f.warned = ed.warned /\ f.current = ed.current
      /\ f.rev = ed.rev /\ f.conflict = ed.conflict /\ f.recovery = ed.recovery
      /\ f.uncertain = ed.uncertain /\ f.moved = ed.moved
  <2>1. Stored(log) /\ Fits(log, ed)
    BY Before
  <2>2. QED
    BY <2>1, DetachedFits
<1>2. (f.attempt = ed.attempt /\ f.queued = ed.queued)
      \/ (ed.attempt = None /\ ed.queued # None /\ f.attempt # None /\ f.attempt.stage = "sent")
  BY Before, DetachedFits
<1> HIDE DEF f
<1>3. ed.usable
  BY Before DEF Frame
<1>4. f \in EditorsTo(Len(log)) /\ ed.rev \in Int
  BY <1>1, Before DEF Fits, Frame, EditorsTo
<1>5. LoadFits(log, f, load)
  BY <1>1, Before, LoadKept
<1>6. f.rev >= ed.rev
  BY <1>1, <1>4
<1>7. RequestsFit(log, f, load, cmd, adopted, orphans, ending, used.mounts)
  BY <1>1, <1>4, <1>5, <1>6, Before, RequestsKept
<1>8. IsOk(f) \/ IsOk(ed) => f.attempt = ed.attempt
  BY <1>2 DEF IsOk
<1>9. Quiet(used, adopted) => NewestFits(log, f, load)
  BY <1>1, <1>8, Before, NewestKept
<1>10. ~Settled(f) => ~Settled(ed)
  BY <1>1, <1>2 DEF Settled, Blocked
<1>11. BrowserFits(log, f, cache, ops', cleanup, used.faults)
  <2>1. CASE ed.moved
    <3>1. ops' = ops
      BY <2>1, Before, NoMore DEF DetachOps
    <3>2. KeptFits(f, ops, cache, used.faults)
      <4> SUFFICES ASSUME used.faults = 0, ~Settled(f) PROVE OnDisk(f, ops, cache)
        BY <1>1 DEF KeptFits
      <4>1. ~ed.persistTimer
        BY <2>1, Before DEF Fits, Flags
      <4>2. ~ed.warned
        BY Before DEF BrowserFits
      <4>3. OnDisk(ed, ops, cache)
        BY <1>3, <1>10, <4>1, <4>2, Before DEF KeptFits
      <4>4. QED
        BY <1>1, <4>3 DEF OnDisk
    <3>3. QED
      BY <1>1, <3>1, <3>2, Before, BrowserKept
  <2>2. CASE ~ed.moved
    <3>1. ops' = Append(ops, op)
      BY <1>3, <2>2, Before, OneMore DEF DetachOps
    <3>2. Keeps(Len(log), op, ed)
      BY Before, PersistOpKeeps, SavedIsTail
    <3>3. Keeps(Len(log), op, f)
      BY <1>1, <1>10, <3>2, KeepsToo
    <3>4. QED
      BY <1>1, <1>3, <3>1, <3>3, Before, AppendFits
  <2>3. QED
    BY <2>1, <2>2
<1>12. StoreFits(log, adopted, home', cleanup, used)
  BY Before DEF StoreFits
<1>13. QED
  BY <1>1, <1>7, <1>9, <1>11, <1>12 DEF IInv, f

LEMMA LeaveStep ==
  ASSUME IInv, Leave
  PROVE  IInv'
<1>1. home \in 0..Len(log)
  BY Before DEF StoreFits
<1>2. QED
  BY <1>1, DetachStep DEF Leave, server

LEMMA HomeRefetchedStep ==
  ASSUME IInv, HomeRefetched
  PROVE  IInv'
<1>1. home' = Latest /\ Latest \in 0..Len(log)
  BY Before DEF HomeRefetched, Latest
<1>2. CASE Latest = 0 /\ ed.mounted
  BY <1>1, <1>2, DetachStep DEF HomeRefetched, server
<1>3. CASE ~(Latest = 0 /\ ed.mounted)
  <2>1. UNCHANGED <<log, ending, adopted, ed, ops, orphans, load, cmd, cleanup, cache, used>>
    BY <1>3 DEF HomeRefetched, server
  <2>2. StoreFits(log, adopted, home', cleanup, used)
    BY <1>1, Before DEF StoreFits
  <2>3. QED
    BY <2>1, <2>2 DEF IInv
<1>4. QED
  BY <1>2, <1>3

\* Requests whose sender stops waiting are well formed.
LEMMA LeftBehindFits ==
  ASSUME IInv
  PROVE  OrphansFit(log, ed, LeftBehind, used.mounts)
<1> SUFFICES ASSUME NEW q \in LeftBehind PROVE OrphanFits(log, ed, q, used.mounts)
  BY DEF OrphansFit
<1>1. ed.attempt # None => OrphanFits(log, ed, SaveRequest(ed.attempt), used.mounts)
  <2> SUFFICES ASSUME ed.attempt # None PROVE OrphanFits(log, ed, SaveRequest(ed.attempt), used.mounts)
    OBVIOUS
  <2>1. ed.attempt \in AttemptsTo(Len(log))
    BY Before DEF EditorsTo
  <2>2. ed.attempt.text \in Texts /\ ed.attempt.base \in 1..Len(log)
    BY <2>1 DEF AttemptsTo
  <2>3. QED
    BY <2>2 DEF OrphanFits, SaveRequest
<1>2. cmd # None /\ cmd.stage = "sent" => OrphanFits(log, ed, CommandRequest(cmd), used.mounts)
  <2> SUFFICES ASSUME cmd # None, cmd.stage = "sent"
               PROVE  OrphanFits(log, ed, CommandRequest(cmd), used.mounts)
    OBVIOUS
  <2>1. /\ cmd.kind \in {"start", "discard", "adopt"} /\ cmd.base \in 1..Len(log) /\ cmd.mount = ed.mount
        /\ cmd.kind = "start" => cmd.base <= ed.rev
    BY Before DEF CmdFits
  <2>2. ed.mount \in 0..used.mounts
    <3>1. ed.mount \in Nat /\ used.mounts \in Nat /\ ed.mount <= used.mounts
      BY Before DEF EditorsTo, StoreFits, Counts, RequestsFit
    <3>2. QED
      BY <3>1
  <2>3. QED
    BY <2>1, <2>2 DEF OrphanFits, CommandRequest
<1>3. QED
  BY <1>1, <1>2 DEF LeftBehind

LEMMA QuiesceStep ==
  ASSUME IInv, Quiesce, cleanup' = cleanup \/ cleanup' = "quiesced", cleanup \notin {"quiesced", "done"},
         UNCHANGED <<log, ending, adopted, cmd, home, cache, used>>
  PROVE  IInv'
<1> DEFINE f == Quiesced(ed)
           op == PersistOp(ed, NoTail)
<1>1. ed' = f /\ ops' = ops \o QuiesceOps /\ load' = None /\ orphans' \subseteq orphans \cup LeftBehind
  BY DEF Quiesce
<1>2. /\ Fits(log, f) /\ ~f.mounted /\ ~f.usable /\ f.mount = ed.mount /\ f.pending = ed.pending
      /\ f.hydrating = ed.hydrating /\ f.warned = ed.warned /\ f.rev = ed.rev /\ f.current = ed.current
  BY Before, QuiescedFits
<1> HIDE DEF f
<1>3. f \in EditorsTo(Len(log)) /\ ed.rev \in Int
  BY <1>2, Before DEF Fits, Frame, EditorsTo
<1>4. f.rev >= ed.rev /\ LoadFits(log, f, None)
  BY <1>2, <1>3 DEF LoadFits
<1>5. RequestsFit(log, f, None, cmd, adopted, orphans, ending, used.mounts)
  BY <1>2, <1>3, <1>4, Before, RequestsKept
<1>6. RequestsFit(log, f, None, cmd, adopted, orphans', ending, used.mounts)
  <2>1. OrphansFit(log, f, LeftBehind, used.mounts)
    BY <1>2, LeftBehindFits DEF OrphansFit, OrphanFits
  <2>2. QED
    BY <1>1, <1>5, <2>1 DEF RequestsFit, OrphansFit
<1>7. BrowserFits(log, f, cache, ops', cleanup, used.faults)
  <2>0. KeptFits(f, ops, cache, used.faults)
    BY <1>2 DEF KeptFits
  <2>1. CASE ed.mounted /\ ~ed.moved
    <3>1. ops' = Append(ops, op) /\ ed.usable
      BY <1>1, <2>1, Before, OneMore DEF QuiesceOps, Frame
    <3>2. Keeps(Len(log), op, ed)
      BY Before, PersistOpKeeps, SavedIsTail
    <3>3. BrowserFits(log, ed, cache, Append(ops, op), cleanup, used.faults)
      BY <3>1, <3>2, Before, AppendFits
    <3>4. QED
      BY <1>2, <3>1, <3>3 DEF BrowserFits, OpsFit, KeptFits
  <2>2. CASE ~(ed.mounted /\ ~ed.moved)
    <3>1. ops' = ops
      BY <1>1, <2>2, Before, NoMore DEF QuiesceOps
    <3>2. QED
      BY <1>2, <2>0, <3>1, Before DEF BrowserFits, OpsFit
  <2>3. QED
    BY <2>1, <2>2
<1>8. BrowserFits(log, f, cache, ops', cleanup', used.faults)
  BY <1>2, <1>7 DEF BrowserFits
<1>9. StoreFits(log, adopted, home, cleanup', used)
  BY Before DEF StoreFits
<1>10. NewestFits(log, f, None)
  BY <1>2 DEF NewestFits
<1>11. QED
  BY <1>1, <1>2, <1>6, <1>8, <1>9, <1>10 DEF IInv

LEMMA CleanupStep ==
  ASSUME IInv, CleanupQuiesces \/ CleanupDeletes \/ SessionChanges
  PROVE  IInv'
<1>1. CASE CleanupQuiesces
  BY <1>1, QuiesceStep DEF CleanupQuiesces, server
<1>2. CASE SessionChanges
  BY <1>2, QuiesceStep DEF SessionChanges, server
<1>3. CASE CleanupDeletes
  <2>1. /\ cleanup = "quiesced" /\ cleanup' = "done" /\ cache' = None /\ ops = <<>>
        /\ UNCHANGED <<log, ending, adopted, orphans, ed, load, cmd, home, ops, used>>
    BY <1>3 DEF CleanupDeletes, server
  <2>2. BrowserFits(log, ed, None, ops, "done", used.faults)
    BY <2>1, Before DEF BrowserFits, KeptFits, Sound
  <2>3. StoreFits(log, adopted, home, "done", used)
    BY Before DEF StoreFits
  <2>4. QED
    BY <2>1, <2>2, <2>3 DEF IInv
<1>4. QED
  BY <1>1, <1>2, <1>3

LEMMA SpendIs ==
  ASSUME IInv, NEW w \in {"edits", "others", "faults", "mounts", "late"}, Spend(w)
  PROVE  /\ used' \in Counts /\ used'[w] = used[w] + 1
         /\ \A v \in {"edits", "others", "faults", "mounts", "late"} \ {w} : used'[v] = used[v]
<1>1. used \in Counts
  BY Before DEF StoreFits
<1>2. used' = [used EXCEPT ![w] = used[w] + 1]
  BY DEF Spend
<1>3. DOMAIN used = {"edits", "others", "faults", "mounts", "late"}
  BY <1>1 DEF Counts
<1>4. used'[w] = used[w] + 1
      /\ \A v \in {"edits", "others", "faults", "mounts", "late"} \ {w} : used'[v] = used[v]
  BY <1>2, <1>3
<1>5. used' \in Counts
  BY <1>1, <1>2 DEF Counts
<1>6. QED
  BY <1>4, <1>5

\* An event of the bounded kinds other than the opening of an editor.
LEMMA SpendFits ==
  ASSUME IInv, NEW w \in {"edits", "others", "faults", "late"}, Spend(w)
  PROVE  /\ StoreFits(log, adopted, home, cleanup, used') /\ used'.mounts = used.mounts
         /\ w # "faults" => used'.faults = used.faults
         /\ w = "faults" => used'.faults = used.faults + 1
         /\ Quiet(used', adopted) => Quiet(used, adopted)
         /\ w \in {"others", "late"} => ~Quiet(used', adopted)
<1>1. /\ used' \in Counts /\ used'[w] = used[w] + 1
      /\ \A v \in {"edits", "others", "faults", "mounts", "late"} \ {w} : used'[v] = used[v]
  BY SpendIs
<1>2. used \in Counts /\ used.mounts > 0
  BY Before DEF StoreFits
<1>3. /\ used.edits \in Nat /\ used.others \in Nat /\ used.faults \in Nat /\ used.mounts \in Nat
      /\ used.late \in Nat
  BY <1>2 DEF Counts
<1>4. /\ used'.mounts = used.mounts
      /\ w # "faults" => used'.faults = used.faults
      /\ w = "faults" => used'.faults = used.faults + 1
      /\ w # "others" => used'.others = used.others
      /\ w = "others" => used'.others = used.others + 1
      /\ w # "late" => used'.late = used.late
      /\ w = "late" => used'.late = used.late + 1
  BY <1>1
<1>5. Quiet(used', adopted) => Quiet(used, adopted)
  BY <1>3, <1>4 DEF Quiet
<1>6. w \in {"others", "late"} => ~Quiet(used', adopted)
  BY <1>3, <1>4 DEF Quiet
<1>7. StoreFits(log, adopted, home, cleanup, used')
  BY <1>1, <1>2, <1>4, Before DEF StoreFits
<1>8. QED
  BY <1>4, <1>5, <1>6, <1>7

LEMMA MoreFaults ==
  ASSUME NEW o, NEW e, NEW c, NEW q, NEW cl, NEW n \in Nat, BrowserFits(o, e, c, q, cl, n)
  PROVE  BrowserFits(o, e, c, q, cl, n + 1)
<1>1. n + 1 # 0
  OBVIOUS
<1>2. KeptFits(e, q, c, n + 1)
  BY <1>1 DEF BrowserFits, KeptFits
<1>3. QED
  BY <1>1, <1>2 DEF BrowserFits

\* The text goes on the queue soon: it does already if the editor was left.
LEMMA KeptSoon ==
  ASSUME NEW e, NEW q, NEW c, NEW faults, NEW f, KeptFits(e, q, c, faults),
         f.usable = e.usable, f.mounted = e.mounted, f.persistTimer,
         f.mounted \/ (f.current = e.current /\ ~Settled(e))
  PROVE  KeptFits(f, q, c, faults)
BY DEF KeptFits, OnDisk

LEMMA TypeStep ==
  ASSUME IInv, NEW t \in Texts, Type(t)
  PROVE  IInv'
<1> DEFINE f == Edited(ed, t)
<1>1. /\ ed' = f /\ Spend("edits") /\ ed.mounted /\ ed.usable /\ ~Blocked(ed) /\ ed.pending = "none"
      /\ UNCHANGED <<log, ending, adopted, orphans, load, cmd, cleanup, home, cache, ops>>
  BY DEF Type, Writable, server
<1>2. /\ Fits(log, f) /\ Stays(ed, f) /\ f.persistTimer /\ f.rev = ed.rev
      /\ f.conflict = None /\ f.recovery = ed.recovery /\ f.attempt = ed.attempt /\ f.uncertain = ed.uncertain
  BY <1>1, Before, EditedFits
<1> HIDE DEF f
<1>3. /\ f.mounted = ed.mounted /\ f.usable = ed.usable /\ f.mount = ed.mount /\ f.pending = ed.pending
      /\ f.hydrating = ed.hydrating /\ f.warned = ed.warned
  BY <1>2 DEF Stays
<1>4. ed.rev \in Int /\ f \in EditorsTo(Len(log))
  BY <1>2, Before DEF Fits, Frame, EditorsTo
<1>5. ed.conflict = None
  BY <1>1 DEF Blocked
<1>6. LoadFits(log, f, load)
  BY <1>5, Before, NoLoad
<1>7. f.rev >= ed.rev
  BY <1>2, <1>4
<1>8. RequestsFit(log, f, load, cmd, adopted, orphans, ending, used.mounts)
  BY <1>2, <1>3, <1>4, <1>6, <1>7, Before, RequestsKept
<1>9. KeptFits(f, ops, cache, used.faults)
  BY <1>1, <1>2, <1>3, Before, KeptSoon
<1>10. BrowserFits(log, f, cache, ops, cleanup, used.faults)
  BY <1>3, <1>9, Before, BrowserKept
<1>11. Quiet(used, adopted) => NewestFits(log, f, load)
  BY <1>2, <1>3, Before, NewestKept
<1>12. /\ StoreFits(log, adopted, home, cleanup, used') /\ used'.mounts = used.mounts
       /\ used'.faults = used.faults /\ (Quiet(used', adopted) => Quiet(used, adopted))
  BY <1>1, SpendFits
<1>13. QED
  BY <1>1, <1>2, <1>8, <1>10, <1>11, <1>12 DEF IInv

LEMMA SaveSucceedsStep ==
  ASSUME IInv, SaveSucceeds
  PROVE  IInv'
<1> DEFINE r == ed.attempt.rev
           f == Acknowledged(ed, r)
           op == PersistOp(f, [kind |-> "saved"])
<1>1. /\ ed' = f /\ ops' = Append(ops, op) /\ home' = (IF home \in 1..r THEN r ELSE home)
      /\ ed.attempt # None /\ ed.attempt.stage = "ok"
      /\ UNCHANGED <<log, ending, adopted, orphans, load, cmd, cleanup, cache, used>>
  BY DEF SaveSucceeds, Waits, server
<1>2. /\ Fits(log, f) /\ Stays(ed, f) /\ f.attempt = None /\ f.rev = r
      /\ r \in 1..Len(log) /\ r >= ed.rev
      /\ f.conflict = None /\ f.recovery = None /\ ~f.uncertain
  BY <1>1, Before, AcknowledgedFits
<1>3. ed.usable /\ ed.pending \notin {"start", "adopt"} /\ ed.conflict = None
  BY <1>1, Before, AttemptMeans
<1>4. Stored(log) /\ Frame(log, f)
  BY <1>2, Before DEF Fits
<1>5. Keeps(Len(log), op, f)
  BY <1>4, PersistOpKeeps, SavedIsTail
<1> HIDE DEF f, op
<1>6. /\ f.mounted = ed.mounted /\ f.usable = ed.usable /\ f.mount = ed.mount /\ f.pending = ed.pending
      /\ f.hydrating = ed.hydrating /\ f.warned = ed.warned
  BY <1>2 DEF Stays
<1>7. f \in EditorsTo(Len(log))
  BY <1>4 DEF Frame
<1>8. load = None /\ LoadFits(log, f, load)
  BY <1>3, Before, NoLoad
<1>9. RequestsFit(log, f, load, cmd, adopted, orphans, ending, used.mounts)
  BY <1>2, <1>3, <1>6, <1>7, <1>8, Before, RequestsKept
<1>10. BrowserFits(log, f, cache, ops', cleanup, used.faults)
  BY <1>1, <1>3, <1>5, <1>6, Before, AppendFits
<1>11. Quiet(used, adopted) => NewestFits(log, f, load)
  <2>1. Quiet(used, adopted) => r = Len(log)
    BY <1>1, <1>3, Before DEF NewestFits
  <2>2. QED
    BY <1>2, <1>8, <2>1 DEF NewestFits
<1>12. StoreFits(log, adopted, home', cleanup, used)
  <2>1. r \in 0..Len(log)
    BY <1>2
  <2>2. QED
    BY <1>1, <2>1, Before DEF StoreFits
<1>13. QED
  BY <1>1, <1>2, <1>9, <1>10, <1>11, <1>12 DEF IInv

\* The latest draft is asked for; nothing is known of it yet.
LEMMA AskedFits ==
  ASSUME NEW o, NEW e, e.usable, e.conflict # None, e.recovery = None, Len(o) \in Nat
  PROVE  LET l == [stage |-> "asked", rev |-> 0] IN
         LoadFits(o, e, l) /\ (NewestFits(o, e, None) => NewestFits(o, e, l))
BY DEF LoadFits, NewestFits

LEMMA SaveConflictsStep ==
  ASSUME IInv, SaveConflicts
  PROVE  IInv'
<1> DEFINE f == Handled(InConflict(ed))
           g == Resolves(InConflict(ed))
           asked == [stage |-> "asked", rev |-> 0]
<1>1. /\ ed.attempt # None /\ ed.attempt.stage = "conflict"
      /\ (ed' = f /\ load' = load) \/ (ed' = g /\ load' = asked)
      /\ UNCHANGED <<log, ending, adopted, orphans, cmd, cleanup, home, cache, ops, used>>
  BY DEF SaveConflicts, Waits, server, InConflict, ConflictOf, Resolves
<1>2. /\ Fits(log, f) /\ Stays(ed, f) /\ f.attempt = None /\ f.current = ed.current
      /\ f.rev = ed.rev /\ f.recovery = None /\ f.uncertain = ed.uncertain /\ f.persistTimer
      /\ Fits(log, g) /\ Stays(ed, g) /\ g.attempt.stage = "resolving" /\ g.current = ed.current
      /\ g.conflict # None
      /\ g.rev = ed.rev /\ g.recovery = None /\ g.uncertain = ed.uncertain /\ g.persistTimer
  <2>1. Stored(log) /\ Fits(log, ed)
    BY Before
  <2>2. QED
    BY <1>1, <2>1, ConflictFits
<1>3. ed.usable /\ ed.conflict = None /\ ~Settled(ed) /\ Len(log) \in Nat
  BY <1>1, Before, AttemptMeans
<1> HIDE DEF f, g
<1>4. load = None /\ LoadFits(log, f, load)
  BY <1>3, Before, NoLoad
<1>5. g.usable
  BY <1>2, <1>3 DEF Stays
<1>6. LoadFits(log, g, asked) /\ (NewestFits(log, g, None) => NewestFits(log, g, asked))
  BY <1>2, <1>3, <1>5, AskedFits
<1> HIDE DEF asked
<1>7. /\ Fits(log, ed') /\ Stays(ed, ed') /\ ed'.current = ed.current /\ ed'.rev = ed.rev
      /\ ed'.recovery = None /\ ed'.uncertain = ed.uncertain /\ ed'.persistTimer /\ ~IsOk(ed')
      /\ LoadFits(log, ed', load') /\ (NewestFits(log, ed', None) => NewestFits(log, ed', load'))
  BY <1>1, <1>2, <1>4, <1>6 DEF IsOk
<1>8. /\ ed'.mounted = ed.mounted /\ ed'.usable = ed.usable /\ ed'.mount = ed.mount
      /\ ed'.pending = ed.pending /\ ed'.hydrating = ed.hydrating /\ ed'.warned = ed.warned
  BY <1>7 DEF Stays
<1>9. ed' \in EditorsTo(Len(log)) /\ ed.rev \in Int
  BY <1>7, Before DEF Fits, Frame, EditorsTo
<1>10. ed'.rev >= ed.rev
  BY <1>7, <1>9
<1>11. RequestsFit(log, ed', load', cmd, adopted, orphans, ending, used.mounts)
  BY <1>7, <1>8, <1>9, <1>10, Before, RequestsKept
<1>12. KeptFits(ed', ops, cache, used.faults)
  BY <1>3, <1>7, <1>8, Before, KeptSoon
<1>13. BrowserFits(log, ed', cache, ops, cleanup, used.faults)
  BY <1>8, <1>12, Before, BrowserKept
<1>14. Quiet(used, adopted) => NewestFits(log, ed', load')
  <2>1. ~IsOk(ed)
    BY <1>1 DEF IsOk
  <2>2. Quiet(used, adopted) => NewestFits(log, ed', None)
    BY <1>7, <1>8, <2>1, Before, NewestKept
  <2>3. QED
    BY <1>7, <2>2
<1>15. QED
  BY <1>1, <1>7, <1>11, <1>13, <1>14, Before DEF IInv

\* The draft is gone: the text stays in the editor and is put on the queue.
LEMMA MovedStep ==
  ASSUME IInv, ed.attempt # None \/ ed.conflict # None, ed.recovery = None, ed.usable, ~ed.hydrating,
         ed' = AttemptOver(Moved(ed)), ops' = ops \o MovedOps(ed), load' = None,
         ~IsOk(ed),
         UNCHANGED <<log, ending, adopted, orphans, cmd, cleanup, home, cache, used>>
  PROVE  IInv'
<1> DEFINE f == AttemptOver(Moved(ed))
           op == Op("put", DraftOf(ed), NoTail)
<1>1. /\ Fits(log, f) /\ Stays(ed, f) /\ f.attempt = None /\ f.current = ed.current
      /\ f.rev = ed.rev /\ f.conflict = None /\ f.recovery = None /\ f.uncertain = ed.uncertain
  BY Before, MovedFits
<1> HIDE DEF f
<1>2. /\ f.mounted = ed.mounted /\ f.usable = ed.usable /\ f.mount = ed.mount
      /\ f.pending = ed.pending /\ f.hydrating = ed.hydrating /\ f.warned = ed.warned
  BY <1>1 DEF Stays
<1>3. Keeps(Len(log), op, f)
  <2>1. Keeps(Len(log), PersistOp(ed, NoTail), ed) /\ ~Settled(ed)
    BY Before, PersistOpKeeps, SavedIsTail DEF Settled, Blocked
  <2>2. PersistOp(ed, NoTail) = op
    BY <2>1 DEF PersistOp
  <2>3. QED
    BY <1>1, <2>1, <2>2, KeepsToo
<1>4. ops' = Append(ops, op)
  BY Before, OneMore DEF MovedOps
<1> HIDE DEF op
<1>5. BrowserFits(log, f, cache, ops', cleanup, used.faults)
  BY <1>2, <1>3, <1>4, Before, AppendFits
<1>6. f \in EditorsTo(Len(log)) /\ ed.rev \in Int
  BY <1>1, Before DEF Fits, Frame, EditorsTo
<1>7. f.rev >= ed.rev /\ LoadFits(log, f, None)
  BY <1>1, <1>6 DEF LoadFits
<1>8. RequestsFit(log, f, None, cmd, adopted, orphans, ending, used.mounts)
  BY <1>1, <1>2, <1>6, <1>7, Before, RequestsKept
<1>9. Quiet(used, adopted) => NewestFits(log, f, None)
  <2>1. ~IsOk(f)
    BY <1>1 DEF IsOk
  <2>2. QED
    BY <1>1, <1>2, <2>1, Before, NewestKept
<1>10. QED
  BY <1>1, <1>5, <1>8, <1>9, Before DEF IInv, f

LEMMA SaveFindsNoDraftStep ==
  ASSUME IInv, SaveFindsNoDraft
  PROVE  IInv'
<1>1. /\ ed.attempt # None /\ ed.attempt.stage = "gone"
      /\ ed' = Handled(Moved(ed)) /\ ops' = ops \o MovedOps(ed)
      /\ UNCHANGED <<log, ending, adopted, orphans, load, cmd, cleanup, home, cache, used>>
  BY DEF SaveFindsNoDraft, Waits, server
<1>2. ed.usable /\ ~ed.hydrating /\ ed.recovery = None /\ ed.conflict = None
  BY <1>1, Before, AttemptMeans
<1>3. ed' = AttemptOver(Moved(ed))
  BY <1>1, <1>2, Before, MovedFits
<1>4. load' = None
  BY <1>1, <1>2, Before, NoLoad
<1>5. ~IsOk(ed)
  BY <1>1 DEF IsOk
<1>6. QED
  BY <1>1, <1>2, <1>3, <1>4, <1>5, MovedStep

LEMMA SaveFailsStep ==
  ASSUME IInv, SaveFails
  PROVE  IInv'
<1>1. PICK refused \in BOOLEAN :
        /\ refused => Waits("sent")
        /\ orphans' = IF ~refused /\ Waits("sent")
                      THEN orphans \cup {SaveRequest(ed.attempt)} ELSE orphans
        /\ ed' = [ed EXCEPT !.attempt = None, !.queued = ed.current,
                            !.uncertain = ed.uncertain \/ ~refused]
        /\ ops' = Append(ops, PersistOp(ed',
              [kind |-> "failed", inputs |-> ed.attempt.inputs, retryable |-> ~refused]))
  BY DEF SaveFails
<1>2. /\ ed.attempt # None /\ ed.attempt.stage # "resolving" /\ Spend("faults")
      /\ UNCHANGED <<log, ending, adopted, load, cmd, cleanup, home, cache>>
  BY DEF SaveFails, server
<1> DEFINE u == ed.uncertain \/ ~refused
           f == Fails(ed, u)
           then == [kind |-> "failed", inputs |-> ed.attempt.inputs, retryable |-> ~refused]
           op == PersistOp(f, then)
<1>3. ed' = f /\ ops' = Append(ops, op)
  BY <1>1 DEF Fails
<1>4. u \in BOOLEAN /\ (u <=> ed.uncertain \/ ~refused)
  OBVIOUS
<1>5. refused => ~IsOk(ed)
  BY <1>1 DEF IsOk, Waits
<1> HIDE DEF u
<1>6. /\ Fits(log, f) /\ Stays(ed, f) /\ f.attempt = None /\ f.current = ed.current
      /\ f.rev = ed.rev /\ f.conflict = None /\ f.recovery = None /\ f.uncertain = u
  BY <1>2, <1>4, Before, FailedFits
<1> HIDE DEF f
<1>7. ed.usable /\ ed.conflict = None /\ ed.attempt \in AttemptsTo(Len(log))
  BY <1>2, Before, AttemptMeans
<1>8. Stored(log) /\ Frame(log, f) /\ then \in Tails
  <2>1. ed.attempt.inputs \in Nat
    BY <1>7 DEF AttemptsTo
  <2>2. then \in Tails
    BY <2>1 DEF Tails
  <2>3. QED
    BY <1>6, <2>2, Before DEF Fits
<1> HIDE DEF then
<1>9. Keeps(Len(log), op, f)
  BY <1>8, PersistOpKeeps
<1> HIDE DEF op
<1>10. /\ f.mounted = ed.mounted /\ f.usable = ed.usable /\ f.mount = ed.mount
       /\ f.pending = ed.pending /\ f.hydrating = ed.hydrating /\ f.warned = ed.warned
  BY <1>6 DEF Stays
<1>11. /\ StoreFits(log, adopted, home, cleanup, used') /\ used'.mounts = used.mounts
       /\ used'.faults = used.faults + 1 /\ (Quiet(used', adopted) => Quiet(used, adopted))
  BY <1>2, SpendFits
<1>12. used.faults \in Nat
  BY Before DEF StoreFits, Counts
<1>13. BrowserFits(log, f, cache, ops', cleanup, used.faults)
  BY <1>3, <1>7, <1>9, <1>10, Before, AppendFits
<1>14. BrowserFits(log, f, cache, ops', cleanup, used'.faults)
  BY <1>11, <1>12, <1>13, MoreFaults
<1>15. load = None /\ LoadFits(log, f, load)
  BY <1>7, Before, NoLoad
<1>16. f \in EditorsTo(Len(log)) /\ ed.rev \in Int
  BY <1>8, Before DEF Frame, EditorsTo
<1>17. f.rev >= ed.rev
  BY <1>6, <1>16
<1>18. RequestsFit(log, f, load, cmd, adopted, orphans, ending, used.mounts)
  BY <1>6, <1>10, <1>15, <1>16, <1>17, Before, RequestsKept
<1>19. RequestsFit(log, f, load, cmd, adopted, orphans', ending, used.mounts)
  <2>1. Waits("sent") => SaveRequest(ed.attempt) \in LeftBehind
    BY <1>2 DEF LeftBehind, Waits
  <2>2. orphans' \subseteq orphans \cup LeftBehind
    BY <1>1, <2>1
  <2>3. OrphansFit(log, f, LeftBehind, used.mounts)
    BY <1>6, <1>10, LeftBehindFits DEF OrphansFit, OrphanFits
  <2>4. QED
    BY <1>18, <2>2, <2>3 DEF RequestsFit, OrphansFit
<1>20. Quiet(used, adopted) => NewestFits(log, f, load)
  <2>1. Quiet(used, adopted) => ed.rev = Len(log) \/ ed.uncertain \/ IsOk(ed)
    BY <1>7, Before DEF NewestFits, IsOk
  <2>2. QED
    BY <1>4, <1>5, <1>6, <1>15, <2>1 DEF NewestFits
<1>21. QED
  BY <1>2, <1>3, <1>6, <1>11, <1>14, <1>19, <1>20 DEF IInv

LEMMA ServeLoadStep ==
  ASSUME IInv, ServeLoad
  PROVE  IInv'
<1> DEFINE l == [stage |-> "read", rev |-> Latest]
<1>1. /\ load # None /\ load' = l
      /\ UNCHANGED <<log, ending, adopted, orphans, ed, cmd, cleanup, home, cache, ops, used>>
  BY DEF ServeLoad, server
<1>2. Latest \in {0, Len(log)} /\ Len(log) \in Nat /\ ed.rev \in 1..Len(log)
  BY Before DEF Latest, EditorsTo
<1>3. LoadFits(log, ed, l)
  BY <1>1, <1>2, Before DEF LoadFits
<1>4. Quiet(used, adopted) => NewestFits(log, ed, l)
  BY <1>2, Before DEF NewestFits
<1>5. RequestsFit(log, ed, l, cmd, adopted, orphans, ending, used.mounts)
  BY <1>3, Before DEF RequestsFit
<1>6. QED
  BY <1>1, <1>4, <1>5 DEF IInv

\* What a request for the latest draft says of the editor.
LEMMA LoadMeans ==
  ASSUME IInv, load # None
  PROVE  /\ ed.usable /\ ed.conflict # None /\ ed.recovery = None /\ ~ed.hydrating
         /\ ed.pending \notin {"start", "adopt"} /\ ~Settled(ed) /\ ~IsOk(ed)
         /\ load.rev \in 0..Len(log)
         /\ load.stage = "read" /\ load.rev # 0 => load.rev >= ed.rev
<1>1. /\ ed.usable /\ ed.conflict # None /\ ed.recovery = None
      /\ load.rev \in 0..Len(log)
      /\ load.stage = "read" /\ load.rev # 0 => load.rev >= ed.rev
  BY Before DEF LoadFits
<1>2. ~ed.hydrating
  BY <1>1, Before DEF Frame
<1>3. ~Settled(ed) /\ ed.pending \notin {"start", "adopt"}
  BY <1>1, Before DEF Settled, Blocked, Fits, Flags, Clean
<1>4. ~IsOk(ed)
  BY <1>1, Before, AttemptMeans DEF IsOk
<1>5. QED
  BY <1>1, <1>2, <1>3, <1>4

LEMMA LoadArrivesStep ==
  ASSUME IInv, LoadArrives
  PROVE  IInv'
<1> DEFINE r == IF home > load.rev THEN home ELSE load.rev
           found == load.rev # 0 /\ home # 0
           f == AttemptOver(Resolved(ed, r))
<1>1. /\ load # None /\ load.stage = "read" /\ load' = None
      /\ UNCHANGED <<log, ending, adopted, orphans, cmd, cleanup, cache, used>>
  BY DEF LoadArrives, server
<1>2. /\ ed.usable /\ ed.conflict # None /\ ed.recovery = None /\ ~ed.hydrating
      /\ ed.pending \notin {"start", "adopt"} /\ ~Settled(ed) /\ ~IsOk(ed)
      /\ load.rev \in 0..Len(log) /\ (load.rev # 0 => load.rev >= ed.rev)
  BY <1>1, LoadMeans
<1>3. CASE ~found
  <2>1. ed' = AttemptOver(Moved(ed)) /\ ops' = ops \o MovedOps(ed) /\ home' = home
    BY <1>3 DEF LoadArrives
  <2>2. QED
    BY <1>1, <1>2, <2>1, MovedStep
<1>4. CASE found
  <2>1. ed' = f /\ home' = r /\ ops' = ops
    BY <1>4 DEF LoadArrives
  <2>2. home \in 0..Len(log) /\ Len(log) \in Nat /\ ed.rev \in 1..Len(log)
    BY Before DEF StoreFits, EditorsTo
  <2>3. r \in 1..Len(log) /\ r >= ed.rev /\ r >= load.rev
    BY <1>2, <1>4, <2>2
  <2> HIDE DEF r
  <2>4. /\ Fits(log, f) /\ Stays(ed, f) /\ f.attempt = None /\ f.current = ed.current
        /\ f.rev = r /\ f.persistTimer
    BY <1>2, <2>3, Before, ResolvedFits
  <2> HIDE DEF f
  <2>5. /\ f.mounted = ed.mounted /\ f.usable = ed.usable /\ f.mount = ed.mount
        /\ f.pending = ed.pending /\ f.hydrating = ed.hydrating /\ f.warned = ed.warned
    BY <2>4 DEF Stays
  <2>6. f \in EditorsTo(Len(log)) /\ LoadFits(log, f, None)
    BY <2>4 DEF Fits, Frame, LoadFits
  <2>7. RequestsFit(log, f, None, cmd, adopted, orphans, ending, used.mounts)
    BY <1>2, <2>3, <2>4, <2>5, <2>6, Before, RequestsKept
  <2>8. KeptFits(f, ops, cache, used.faults)
    BY <1>2, <2>4, <2>5, Before, KeptSoon
  <2>9. BrowserFits(log, f, cache, ops, cleanup, used.faults)
    BY <2>5, <2>8, Before, BrowserKept
  <2>10. Quiet(used, adopted) => NewestFits(log, f, None)
    <3>1. Quiet(used, adopted) => load.rev \in {0, Len(log)}
      BY <1>1, <1>2, Before DEF NewestFits
    <3>2. Quiet(used, adopted) => r = Len(log)
      BY <1>4, <2>2, <2>3, <3>1
    <3>3. QED
      BY <2>4, <3>2 DEF NewestFits
  <2>11. StoreFits(log, adopted, r, cleanup, used)
    BY <2>3, Before DEF StoreFits
  <2>12. QED
    BY <1>1, <2>1, <2>4, <2>7, <2>9, <2>10, <2>11 DEF IInv
<1>5. QED
  BY <1>3, <1>4

LEMMA LoadFailsStep ==
  ASSUME IInv, LoadFails
  PROVE  IInv'
<1> DEFINE f == AttemptOver([ed EXCEPT !.resolving = FALSE])
<1>1. /\ load # None /\ Spend("faults") /\ load' = None /\ ed' = f
      /\ UNCHANGED <<log, ending, adopted, orphans, cmd, cleanup, home, cache, ops>>
  BY DEF LoadFails, server
<1>2. ed.usable /\ ed.conflict # None /\ ed.recovery = None /\ ~Settled(ed) /\ ~IsOk(ed)
  BY <1>1, LoadMeans
<1>3. /\ Fits(log, f) /\ Stays(ed, f) /\ f.attempt = None /\ f.current = ed.current
      /\ f.rev = ed.rev /\ f.conflict = ed.conflict /\ f.recovery = ed.recovery
      /\ f.uncertain = ed.uncertain /\ f.persistTimer = ed.persistTimer
  BY <1>2, Before, LookFailsFits
<1> HIDE DEF f
<1>4. /\ f.mounted = ed.mounted /\ f.usable = ed.usable /\ f.mount = ed.mount
      /\ f.pending = ed.pending /\ f.hydrating = ed.hydrating /\ f.warned = ed.warned
  BY <1>3 DEF Stays
<1>5. f \in EditorsTo(Len(log)) /\ LoadFits(log, f, None) /\ ed.rev \in Int
  BY <1>3, Before DEF Fits, Frame, LoadFits, EditorsTo
<1>6. f.rev >= ed.rev
  BY <1>3, <1>5
<1>7. RequestsFit(log, f, None, cmd, adopted, orphans, ending, used.mounts)
  BY <1>3, <1>4, <1>5, <1>6, Before, RequestsKept
<1>8. KeptFits(f, ops, cache, used.faults)
  BY <1>2, <1>3, <1>4, Before, KeptSame
<1>9. BrowserFits(log, f, cache, ops, cleanup, used.faults)
  BY <1>4, <1>8, Before, BrowserKept
<1>10. Quiet(used, adopted) => NewestFits(log, f, None)
  <2>1. ~IsOk(f)
    BY <1>3 DEF IsOk
  <2>2. QED
    BY <1>2, <1>3, <1>4, <2>1, Before, NewestKept
<1>11. /\ StoreFits(log, adopted, home, cleanup, used') /\ used'.mounts = used.mounts
       /\ used'.faults = used.faults + 1 /\ (Quiet(used', adopted) => Quiet(used, adopted))
  BY <1>1, SpendFits
<1>12. used.faults \in Nat
  BY Before DEF StoreFits, Counts
<1>13. BrowserFits(log, f, cache, ops, cleanup, used'.faults)
  BY <1>9, <1>11, <1>12, MoreFaults
<1>14. QED
  BY <1>1, <1>3, <1>7, <1>10, <1>11, <1>13 DEF IInv

LEMMA PersistingOnStep ==
  ASSUME IInv, Fits(log, ed'), Persists(ed, ed'), ed'.persistTimer = ed.persistTimer,
         UNCHANGED <<log, ending, adopted, orphans, load, cmd, cleanup, home, cache, ops, used>>
  PROVE  IInv'
<1>1. /\ RequestsFit(log, ed', load, cmd, adopted, orphans, ending, used.mounts)
      /\ Quiet(used, adopted) => NewestFits(log, ed', load)
  BY PersistingFits
<1>2. KeptFits(ed', ops, cache, used.faults)
  BY Before, PersistsMeans, KeptSame
<1>3. BrowserFits(log, ed', cache, ops, cleanup, used.faults)
  BY <1>2, Before, PersistsMeans, BrowserKept
<1>4. QED
  BY <1>1, <1>3, Before DEF IInv

LEMMA SendAgainStep ==
  ASSUME IInv, SendAgain,
         UNCHANGED <<log, ending, adopted, orphans, cmd, cleanup, home, cache, ops, used>>
  PROVE  IInv'
<1> DEFINE f == Scheduled(Refreshed(Restarted(ed)))
<1>1. ed' = f /\ load' = load
  BY DEF SendAgain
<1>2. Fits(log, f) /\ Stays(ed, f) /\ Alike(ed, f) /\ f.queued = ed.queued /\ f.persistTimer = ed.persistTimer
  BY Before, SendAgainFits
<1> HIDE DEF f
<1>3. Persists(ed, f)
  BY <1>2, AlikePersists
<1>4. QED
  BY <1>1, <1>2, <1>3, PersistingOnStep

LEMMA LookAgainStep ==
  ASSUME IInv, LookAgain, ed.usable,
         UNCHANGED <<log, ending, adopted, orphans, cmd, cleanup, home, cache, ops, used>>
  PROVE  IInv'
<1> DEFINE b == ed.resolving \/ ed.mounted
           f == Looking(ed, b)
           asked == [stage |-> "asked", rev |-> 0]
<1>1. /\ ed' = f /\ load' = asked /\ load = None /\ ed.conflict # None /\ ed.recovery = None
  BY DEF LookAgain, AskLatest, Looking
<1>2. b \in BOOLEAN
  OBVIOUS
<1> HIDE DEF b
<1>3. /\ Fits(log, f) /\ Stays(ed, f) /\ f.attempt = ed.attempt /\ f.current = ed.current
      /\ f.queued = ed.queued /\ f.moved = ed.moved
      /\ f.rev = ed.rev /\ f.conflict = ed.conflict /\ f.recovery = ed.recovery
      /\ f.uncertain = ed.uncertain /\ f.persistTimer = ed.persistTimer
  BY <1>2, Before, LookingFits
<1> HIDE DEF f
<1>4. Persists(ed, f)
  BY <1>3 DEF Persists
<1>5. /\ RequestsFit(log, f, load, cmd, adopted, orphans, ending, used.mounts)
      /\ Quiet(used, adopted) => NewestFits(log, f, load)
  BY <1>3, <1>4, PersistingFits
<1>6. f.usable /\ Len(log) \in Nat
  BY <1>4, Before, PersistsMeans
<1>7. LoadFits(log, f, asked) /\ (NewestFits(log, f, None) => NewestFits(log, f, asked))
  BY <1>1, <1>3, <1>6, AskedFits
<1> HIDE DEF asked
<1>8. RequestsFit(log, f, asked, cmd, adopted, orphans, ending, used.mounts)
  BY <1>5, <1>7 DEF RequestsFit
<1>9. KeptFits(f, ops, cache, used.faults)
  BY <1>3, <1>4, Before, PersistsMeans, KeptSame
<1>10. BrowserFits(log, f, cache, ops, cleanup, used.faults)
  BY <1>4, <1>9, Before, PersistsMeans, BrowserKept
<1>11. QED
  BY <1>1, <1>3, <1>5, <1>7, <1>8, <1>10, Before DEF IInv

LEMMA RetryStep ==
  ASSUME IInv, Retry \/ Online
  PROVE  IInv'
<1>1. /\ ed.usable /\ (LookAgain \/ SendAgain)
      /\ UNCHANGED <<log, ending, adopted, orphans, cmd, cleanup, home, cache, ops, used>>
  BY DEF Retry, Online, server
<1>2. QED
  BY <1>1, LookAgainStep, SendAgainStep

\* The user chooses between the text of the conflict and the newer draft.
LEMMA ChoiceStep ==
  ASSUME IInv, RestoreRecovery \/ DiscardRecovery
  PROVE  IInv'
<1> DEFINE c == [ed EXCEPT !.conflict = None, !.recovery = None, !.resolving = FALSE, !.basis = ed.rev]
           f == Unblocked(c)
           g == Synchronized(c, ed.saved)
           op == Op("wipe", None, NoTail)
<1>1. /\ ed.mounted /\ ed.usable /\ ed.recovery # None
      /\ (ed' = f /\ ops' = ops) \/ (ed' = g /\ ops' = Append(ops, op))
      /\ UNCHANGED <<log, ending, adopted, orphans, load, cmd, cleanup, home, cache, used>>
  BY DEF RestoreRecovery, DiscardRecovery, ChoosingIn, server
<1>2. /\ Fits(log, f) /\ Stays(ed, f) /\ f.attempt = None /\ f.rev = ed.rev
      /\ f.recovery = None /\ f.persistTimer
      /\ Fits(log, g) /\ Stays(ed, g) /\ Settled(g) /\ g.rev = ed.rev /\ g.recovery = None
  BY <1>1, Before, ChoiceFits
<1> HIDE DEF f, g
<1>3. /\ Fits(log, ed') /\ Stays(ed, ed') /\ ed'.attempt = None /\ ed'.rev = ed.rev /\ ed'.recovery = None
  BY <1>1, <1>2 DEF Settled
<1>4. /\ ed'.mounted = ed.mounted /\ ed'.usable = ed.usable /\ ed'.mount = ed.mount
      /\ ed'.pending = ed.pending /\ ed'.hydrating = ed.hydrating /\ ed'.warned = ed.warned
  BY <1>3 DEF Stays
<1>5. ed' \in EditorsTo(Len(log)) /\ ed.rev \in Int
  BY <1>3, Before DEF Fits, Frame, EditorsTo
<1>6. load = None /\ LoadFits(log, ed', load)
  BY <1>1, Before, NoLoad
<1>7. ed'.rev >= ed.rev
  BY <1>3, <1>5
<1>8. RequestsFit(log, ed', load, cmd, adopted, orphans, ending, used.mounts)
  BY <1>3, <1>4, <1>5, <1>6, <1>7, Before, RequestsKept
<1>9. Quiet(used, adopted) => NewestFits(log, ed', load)
  BY <1>1, <1>3, <1>6, Before DEF NewestFits
<1>10. BrowserFits(log, ed', cache, ops', cleanup, used.faults)
  <2>1. CASE ed' = f /\ ops' = ops
    <3>1. KeptFits(ed', ops, cache, used.faults)
      BY <1>1, <1>2, <1>4, <2>1, Before, KeptSoon
    <3>2. QED
      BY <1>4, <2>1, <3>1, Before, BrowserKept
  <2>2. CASE ed' = g /\ ops' = Append(ops, op)
    <3>1. Keeps(Len(log), op, ed')
      BY <1>2, <2>2, WipeKeeps
    <3>2. QED
      BY <1>1, <1>4, <2>2, <3>1, Before, AppendFits
  <2>3. QED
    BY <1>1, <2>1, <2>2
<1>11. QED
  BY <1>1, <1>3, <1>8, <1>9, <1>10, Before DEF IInv

\* Requests when the command changes with the editor.
LEMMA RequestsWith ==
  ASSUME NEW o, NEW e, NEW l, NEW c, NEW ad, NEW qs, NEW en, NEW m, NEW f, NEW k, NEW d,
         RequestsFit(o, e, l, c, ad, qs, en, m), LoadFits(o, f, k), CmdFits(o, f, d, ad),
         e \in EditorsTo(Len(o)), f \in EditorsTo(Len(o)), f.mount = e.mount, f.rev >= e.rev
  PROVE  RequestsFit(o, f, k, d, ad, qs, en, m)
<1>1. e.rev \in Int /\ f.rev \in Int
  BY DEF EditorsTo
<1>2. OrphansFit(o, f, qs, m)
  <2> SUFFICES ASSUME NEW q \in qs PROVE OrphanFits(o, f, q, m)
    BY DEF OrphansFit
  <2>1. OrphanFits(o, e, q, m)
    BY DEF RequestsFit, OrphansFit
  <2>2. QED
    BY <1>1, <2>1 DEF OrphanFits
<1>3. EndingFits(o, f, en, m)
  <2> SUFFICES ASSUME en # None PROVE EndingFits(o, f, en, m)
    BY DEF EndingFits
  <2>1. EndingFits(o, e, en, m)
    BY DEF RequestsFit
  <2>2. en.base \in Int
    BY <2>1 DEF EndingFits
  <2>3. QED
    BY <1>1, <2>1, <2>2 DEF EndingFits
<1>4. QED
  BY <1>2, <1>3 DEF RequestsFit

LEMMA SameTextMeans ==
  ASSUME NEW e, NEW f, SameText(e, f)
  PROVE  /\ f.mounted = e.mounted /\ f.usable = e.usable /\ f.mount = e.mount
         /\ f.hydrating = e.hydrating /\ f.current = e.current
         /\ f.attempt = e.attempt /\ f.rev = e.rev /\ f.conflict = e.conflict /\ f.recovery = e.recovery
         /\ f.moved = e.moved /\ f.uncertain = e.uncertain /\ f.queued = e.queued
         /\ f.persistTimer = e.persistTimer /\ Settled(f) = Settled(e)
BY DEF SameText, Settled, Blocked

\* Only the command on the draft changes; the text and its requests stay.
LEMMA SameTextFits ==
  ASSUME IInv, NEW f, Fits(log, f), SameText(ed, f), f.warned = ed.warned,
         NEW d, CmdFits(log, f, d, adopted)
  PROVE  /\ RequestsFit(log, f, load, d, adopted, orphans, ending, used.mounts)
         /\ BrowserFits(log, f, cache, ops, cleanup, used.faults)
         /\ Quiet(used, adopted) => NewestFits(log, f, load)
<1>1. f \in EditorsTo(Len(log)) /\ ed.rev \in Int
  BY Before DEF Fits, Frame, EditorsTo
<1>2. f.rev >= ed.rev
  BY <1>1, SameTextMeans
<1>3. LoadFits(log, f, load)
  BY Before, SameTextMeans, LoadKept
<1>4. RequestsFit(log, f, load, d, adopted, orphans, ending, used.mounts)
  BY <1>1, <1>2, <1>3, Before, SameTextMeans, RequestsWith
<1>5. KeptFits(f, ops, cache, used.faults)
  BY Before, SameTextMeans, KeptSame
<1>6. BrowserFits(log, f, cache, ops, cleanup, used.faults)
  BY <1>5, Before, SameTextMeans, BrowserKept
<1>7. Quiet(used, adopted) => NewestFits(log, f, load)
  BY Before, SameTextMeans, NewestKept
<1>8. QED
  BY <1>4, <1>6, <1>7

LEMMA InvokeStep ==
  ASSUME IInv, NEW k \in {"start", "discard", "adopt"}, Invoke(k),
         k \in {"start", "adopt"} => ed.shown = "saved"
  PROVE  IInv'
<1> DEFINE f == Invoked(ed, k)
           c == [kind |-> k, base |-> ed.rev, mount |-> ed.mount, stage |-> "sent"]
<1>1. /\ ed' = f /\ cmd' = c
      /\ UNCHANGED <<log, ending, adopted, orphans, load, cleanup, home, cache, ops, used>>
  BY DEF Invoke, Invoked, server
<1>2. k \in {"start", "adopt"} => Clean(ed)
  BY Before DEF Fits, Flags
<1>3. Fits(log, f) /\ SameText(ed, f) /\ f.pending = k /\ f.warned = ed.warned
  BY <1>2, Before, InvokedFits DEF IsInvoked
<1> HIDE DEF f
<1>4. ed.rev \in 1..Len(log) /\ ed.mount \in Nat /\ Len(log) \in Nat
  BY Before DEF EditorsTo
<1>5. CmdFits(log, f, c, adopted)
  <2>1. c.base <= f.rev /\ c.mount = f.mount
    BY <1>3, <1>4, SameTextMeans
  <2>2. QED
    BY <1>3, <1>4, <2>1 DEF CmdFits
<1> HIDE DEF c
<1>6. /\ RequestsFit(log, f, load, c, adopted, orphans, ending, used.mounts)
      /\ BrowserFits(log, f, cache, ops, cleanup, used.faults)
      /\ Quiet(used, adopted) => NewestFits(log, f, load)
  BY <1>3, <1>5, SameTextFits
<1>7. QED
  BY <1>1, <1>3, <1>6, Before DEF IInv

LEMMA CommandsStep ==
  ASSUME IInv, Start \/ Discard \/ Adopt
  PROVE  IInv'
<1>1. CASE Start
  BY <1>1, InvokeStep DEF Start, Startable
<1>2. CASE Discard
  BY <1>2, InvokeStep DEF Discard
<1>3. CASE Adopt
  BY <1>3, InvokeStep DEF Adopt
<1>4. QED
  BY <1>1, <1>2, <1>3

\* The editor that waits for the command resumes.
LEMMA GiveUpFits ==
  ASSUME IInv, GiveUpCommand
  PROVE  /\ Fits(log, ed') /\ ed'.mount = ed.mount /\ ed'.rev = ed.rev
         /\ RequestsFit(log, ed', load, None, adopted, orphans, ending, used.mounts)
         /\ BrowserFits(log, ed', cache, ops, cleanup, used.faults)
         /\ Quiet(used, adopted) => NewestFits(log, ed', load)
<1> DEFINE f == Resumed(ed)
           g == [ed EXCEPT !.pending = "none"]
<1>1. ed' = ed \/ ed' = f \/ ed' = g
  BY DEF GiveUpCommand
<1>2. /\ Fits(log, f) /\ SameText(ed, f) /\ f.warned = ed.warned
      /\ Fits(log, g) /\ SameText(ed, g) /\ g.warned = ed.warned
  BY Before, ResumedFits
<1>3. Fits(log, ed) /\ SameText(ed, ed)
  BY Before DEF SameText
<1> HIDE DEF f, g
<1>4. Fits(log, ed') /\ SameText(ed, ed') /\ ed'.warned = ed.warned
  BY <1>1, <1>2, <1>3
<1>5. CmdFits(log, ed', None, adopted)
  BY DEF CmdFits
<1>6. /\ RequestsFit(log, ed', load, None, adopted, orphans, ending, used.mounts)
      /\ BrowserFits(log, ed', cache, ops, cleanup, used.faults)
      /\ Quiet(used, adopted) => NewestFits(log, ed', load)
  BY <1>4, <1>5, SameTextFits
<1>7. QED
  BY <1>4, <1>6, SameTextMeans

LEMMA CommandRefusedStep ==
  ASSUME IInv, CommandRefused
  PROVE  IInv'
<1>1. /\ GiveUpCommand /\ cmd' = None
      /\ UNCHANGED <<log, ending, adopted, orphans, load, cleanup, home, cache, ops, used>>
  BY DEF CommandRefused, GiveUpCommand, server
<1>2. QED
  BY <1>1, GiveUpFits, Before DEF IInv

LEMMA CommandLostStep ==
  ASSUME IInv, CommandLost
  PROVE  IInv'
<1>1. /\ GiveUpCommand /\ cmd' = None /\ Spend("faults") /\ cmd # None
      /\ orphans' = orphans \cup IF cmd.stage = "sent" THEN {CommandRequest(cmd)} ELSE {}
      /\ UNCHANGED <<log, ending, adopted, load, cleanup, home, cache, ops>>
  BY DEF CommandLost, GiveUpCommand, server
<1>2. /\ StoreFits(log, adopted, home, cleanup, used') /\ used'.mounts = used.mounts
      /\ used'.faults = used.faults + 1 /\ (Quiet(used', adopted) => Quiet(used, adopted))
  BY <1>1, SpendFits
<1>3. used.faults \in Nat
  BY Before DEF StoreFits, Counts
<1>4. /\ Fits(log, ed') /\ ed'.mount = ed.mount /\ ed'.rev = ed.rev
      /\ RequestsFit(log, ed', load, None, adopted, orphans, ending, used.mounts)
      /\ BrowserFits(log, ed', cache, ops, cleanup, used.faults)
      /\ Quiet(used, adopted) => NewestFits(log, ed', load)
  BY <1>1, GiveUpFits
<1>5. BrowserFits(log, ed', cache, ops, cleanup, used'.faults)
  BY <1>2, <1>3, <1>4, MoreFaults
<1>6. RequestsFit(log, ed', load, None, adopted, orphans', ending, used.mounts)
  <2>1. orphans' \subseteq orphans \cup LeftBehind
    BY <1>1 DEF LeftBehind
  <2>2. OrphansFit(log, ed', LeftBehind, used.mounts)
    BY <1>4, LeftBehindFits DEF OrphansFit, OrphanFits
  <2>3. QED
    BY <1>4, <2>1, <2>2 DEF RequestsFit, OrphansFit
<1>7. QED
  BY <1>1, <1>2, <1>4, <1>5, <1>6 DEF IInv

-----------------------------------------------------------------------------
(***************************************************************************)
(* The steps of the server                                                 *)
(***************************************************************************)
\* What a save or a command may do to the draft on the server.
Served(m) ==
    /\ Longer(log, log') /\ adopted' \in 0..Len(log') /\ (adopted' # 0 => log'[adopted'] = Suggestion)
    /\ adopted # 0 => adopted' # 0
    /\ EndingFits(log', ed, ending', m)

LEMMA ServerSavesFits ==
  ASSUME IInv, NEW t \in Texts, NEW base, NEW outcome, ServerSaves(t, base, outcome)
  PROVE  /\ Served(used.mounts) /\ adopted' = adopted
         /\ outcome = "ok" => log'[Len(log')] = Canon[t]
         /\ outcome # "ok" => log' = log
<1>1. Longer(log, log) /\ EndingFits(log, ed, ending, used.mounts)
  BY Before, LongerSame DEF RequestsFit
<1>2. adopted \in 0..Len(log) /\ (adopted # 0 => log[adopted] = Suggestion) /\ Len(log) \in Nat
  BY Before DEF StoreFits
<1>3. CASE log' = log
  BY <1>1, <1>2, <1>3 DEF ServerSaves, Served, server
<1>4. CASE log' = Append(log, Canon[t]) /\ outcome = "ok" /\ ending' = ending /\ adopted' = adopted /\ ending = None
  <2>1. Longer(log, log') /\ Len(log') = Len(log) + 1 /\ log'[Len(log')] = Canon[t]
    BY <1>4, Before, LongerByOne
  <2>2. adopted' \in 0..Len(log') /\ (adopted' # 0 => log'[adopted'] = Suggestion)
    <3>1. adopted # 0 => adopted \in 1..Len(log)
      BY <1>2
    <3>2. QED
      BY <1>2, <1>4, <2>1, <3>1 DEF Longer
  <2>3. EndingFits(log', ed, ending', used.mounts)
    BY <1>4 DEF EndingFits
  <2>4. QED
    BY <1>4, <2>1, <2>2, <2>3 DEF Served
<1>5. QED
  BY <1>3, <1>4 DEF ServerSaves, server

LEMMA ServerRunsFits ==
  ASSUME IInv, NEW q, NEW outcome, ServerRuns(q, outcome), q.base \in 1..Len(log),
         q.mount \in 0..used.mounts,
         q.kind = "start" /\ q.mount = ed.mount => q.base <= ed.rev
  PROVE  /\ Served(used.mounts)
         /\ log' = log \/ adopted' # 0
         /\ outcome = "ok" /\ q.kind = "adopt" => adopted' # 0 /\ log'[Len(log')] = Suggestion
<1>1. Longer(log, log) /\ EndingFits(log, ed, ending, used.mounts)
  BY Before, LongerSame DEF RequestsFit
<1>2. /\ adopted \in 0..Len(log) /\ (adopted # 0 => log[adopted] = Suggestion) /\ Len(log) \in Nat
      /\ Len(log) > 0
  BY Before DEF StoreFits, Stored
<1>3. CASE q.kind = "start" /\ ServerStarts(q.base, q.mount, outcome)
  <2> DEFINE s == [by |-> "start", base |-> q.base, mount |-> q.mount]
  <2>1. log' = log /\ adopted' = adopted /\ (ending' = ending \/ (ending' = s /\ q.base = Len(log)))
    BY <1>3 DEF ServerStarts, server
  <2>2. q.base = Len(log) => EndingFits(log, ed, s, used.mounts)
    BY <1>3 DEF EndingFits
  <2> HIDE DEF s
  <2>3. QED
    BY <1>1, <1>2, <1>3, <2>1, <2>2 DEF Served
<1>4. CASE q.kind = "discard" /\ ServerAbandons(q.base, q.mount, outcome)
  <2> DEFINE s == [by |-> "discard", base |-> q.base, mount |-> q.mount]
  <2>1. log' = log /\ adopted' = adopted /\ (ending' = ending \/ ending' = s)
    BY <1>4 DEF ServerAbandons, server
  <2>2. EndingFits(log, ed, s, used.mounts)
    BY DEF EndingFits
  <2> HIDE DEF s
  <2>3. QED
    BY <1>1, <1>2, <1>4, <2>1, <2>2 DEF Served
<1>5. CASE q.kind = "adopt" /\ ServerAdopts(q.base, outcome)
  <2>1. CASE UNCHANGED <<log, ending, adopted>> /\ (outcome = "ok" => adopted = Len(log))
    BY <1>1, <1>2, <1>5, <2>1 DEF Served
  <2>2. CASE /\ log' = Append(log, Suggestion) /\ adopted' = Len(log) + 1 /\ ending = None /\ ending' = ending
    <3>1. Suggestion \in Texts /\ Canon[Suggestion] = Suggestion
      BY Canonical
    <3>2. Longer(log, log') /\ Len(log') = Len(log) + 1 /\ log'[Len(log')] = Suggestion
      BY <2>2, <3>1, Before, LongerByOne
    <3>3. adopted' \in 0..Len(log') /\ adopted' # 0 /\ log'[adopted'] = Suggestion
      BY <1>2, <2>2, <3>2
    <3>4. EndingFits(log', ed, ending', used.mounts)
      BY <2>2 DEF EndingFits
    <3>5. QED
      BY <3>2, <3>3, <3>4 DEF Served
  <2>3. QED
    BY <1>5, <2>1, <2>2 DEF ServerAdopts, server
<1>6. QED
  BY <1>3, <1>4, <1>5 DEF ServerRuns

\* The draft moves on at the server; here nothing changes but the answer to come.
LEMMA ServedFits ==
  ASSUME IInv, Served(used.mounts)
  PROVE  /\ Stored(log') /\ Fits(log', ed)
         /\ LoadFits(log', ed, load) /\ CmdFits(log', ed, cmd, adopted')
         /\ OrphansFit(log', ed, orphans, used.mounts)
         /\ RequestsFit(log', ed, load, cmd, adopted', orphans, ending', used.mounts)
         /\ BrowserFits(log', ed, cache, ops, cleanup, used.faults)
         /\ StoreFits(log', adopted', home, cleanup, used)
         /\ Quiet(used, adopted') => Quiet(used, adopted)
<1>1. Longer(log, log') /\ Stored(log') /\ adopted' \in Nat /\ Len(log) \in Nat /\ Len(log') \in Nat
  BY DEF Served, Longer
<1>2. Fits(log', ed)
  BY <1>1, Before, LongerFits
<1>3. /\ LoadFits(log', ed, load) /\ CmdFits(log', ed, cmd, adopted')
      /\ OrphansFit(log', ed, orphans, used.mounts)
  <2>1. adopted # 0 => adopted' # 0
    BY DEF Served
  <2>2. LoadFits(log, ed, load) /\ CmdFits(log, ed, cmd, adopted) /\ OrphansFit(log, ed, orphans, used.mounts)
    BY Before DEF RequestsFit
  <2>3. QED
    BY <1>1, <2>1, <2>2, LongerRequests
<1>4. RequestsFit(log', ed, load, cmd, adopted', orphans, ending', used.mounts)
  BY <1>3, Before DEF RequestsFit, Served
<1>5. BrowserFits(log', ed, cache, ops, cleanup, used.faults)
  BY <1>1, Before, LongerBrowser
<1>6. StoreFits(log', adopted', home, cleanup, used)
  <2>1. home \in 0..Len(log')
    BY <1>1, Before DEF StoreFits, Longer
  <2>2. QED
    BY <1>1, <2>1, Before DEF StoreFits, Served
<1>7. Quiet(used, adopted') => Quiet(used, adopted)
  BY DEF Quiet, Served
<1>8. QED
  BY <1>1, <1>2, <1>3, <1>4, <1>5, <1>6, <1>7

LEMMA ServeCommandStep ==
  ASSUME IInv, ServeCommand
  PROVE  IInv'
<1>1. PICK outcome \in {"ok", "refused"} :
        /\ ServerRuns(cmd, outcome)
        /\ cmd' = [cmd EXCEPT !.stage = outcome, !.base = IF outcome = "ok" THEN Len(log') ELSE cmd.base]
  BY DEF ServeCommand
<1>2. /\ cmd # None /\ cmd.stage = "sent"
      /\ UNCHANGED <<orphans, ed, load, cleanup, home, cache, ops, used>>
  BY DEF ServeCommand
<1>3. /\ cmd \in [kind : {"start", "discard", "adopt"}, base : 1..Len(log), mount : Nat,
                  stage : {"sent", "ok", "refused"}]
      /\ cmd.kind = ed.pending /\ cmd.mount = ed.mount
      /\ cmd.kind = "start" => cmd.base <= ed.rev
  BY <1>2, Before DEF CmdFits
<1>4. cmd.mount \in 0..used.mounts
  <2>1. ed.mount \in Nat /\ used.mounts \in Nat /\ ed.mount <= used.mounts
    BY Before DEF EditorsTo, StoreFits, Counts, RequestsFit
  <2>2. QED
    BY <1>3, <2>1
<1>5. /\ Served(used.mounts) /\ (log' = log \/ adopted' # 0)
      /\ outcome = "ok" /\ cmd.kind = "adopt" => adopted' # 0 /\ log'[Len(log')] = Suggestion
  BY <1>1, <1>3, <1>4, ServerRunsFits
<1>6. /\ Fits(log', ed)
      /\ RequestsFit(log', ed, load, cmd, adopted', orphans, ending', used.mounts)
      /\ BrowserFits(log', ed, cache, ops, cleanup, used.faults)
      /\ StoreFits(log', adopted', home, cleanup, used)
      /\ Quiet(used, adopted') => Quiet(used, adopted)
  BY <1>5, ServedFits
<1>7. /\ Len(log) \in Nat /\ Len(log') \in Nat /\ Len(log') >= Len(log) /\ ed.rev \in 1..Len(log)
  BY <1>5, Before DEF Served, Longer, EditorsTo
<1> DEFINE b == IF outcome = "ok" THEN Len(log') ELSE cmd.base
<1>8. b \in 1..Len(log') /\ (outcome = "ok" => b = Len(log') /\ b >= ed.rev)
  BY <1>3, <1>7
<1>9. cmd' = [cmd EXCEPT !.stage = outcome, !.base = b]
  BY <1>1
<1> HIDE DEF b
<1>10. /\ cmd' \in [kind : {"start", "discard", "adopt"}, base : 1..Len(log'), mount : Nat,
                    stage : {"sent", "ok", "refused"}]
       /\ cmd'.kind = cmd.kind /\ cmd'.mount = cmd.mount /\ cmd'.stage = outcome /\ cmd'.base = b
  BY <1>3, <1>8, <1>9
<1>11. CmdFits(log', ed, cmd', adopted')
  BY <1>3, <1>5, <1>8, <1>10 DEF CmdFits
<1>12. RequestsFit(log', ed, load, cmd', adopted', orphans, ending', used.mounts)
  BY <1>6, <1>11 DEF RequestsFit
<1>13. Quiet(used, adopted') => NewestFits(log', ed, load)
  <2>1. Quiet(used, adopted') => log' = log
    BY <1>5 DEF Quiet
  <2>2. QED
    BY <1>6, <2>1, Before
<1>14. QED
  BY <1>2, <1>6, <1>12, <1>13 DEF IInv

LEMMA ServeOrphanStep ==
  ASSUME IInv, NEW q \in orphans, ServeOrphan(q)
  PROVE  IInv'
<1>1. PICK outcome :
        \/ q.kind = "save" /\ ServerSaves(q.text, q.base, outcome)
        \/ q.kind # "save" /\ ServerRuns(q, outcome)
  BY DEF ServeOrphan
<1>2. /\ orphans' = orphans \ {q}
      /\ IF log' = log THEN used' = used ELSE Spend("late")
      /\ UNCHANGED <<ed, load, cmd, cleanup, home, cache, ops>>
  BY DEF ServeOrphan
<1>3. OrphanFits(log, ed, q, used.mounts)
  BY Before DEF RequestsFit, OrphansFit
<1>4. Served(used.mounts) /\ (log' # log \/ adopted' = adopted \/ adopted' # 0)
  <2>1. CASE q.kind = "save" /\ ServerSaves(q.text, q.base, outcome)
    <3>1. q.text \in Texts
      BY <1>3, <2>1 DEF OrphanFits
    <3>2. QED
      BY <2>1, <3>1, ServerSavesFits
  <2>2. CASE q.kind # "save" /\ ServerRuns(q, outcome)
    <3>1. /\ q.base \in 1..Len(log) /\ q.mount \in 0..used.mounts
          /\ q.kind = "start" /\ q.mount = ed.mount => q.base <= ed.rev
      BY <1>3, <2>2 DEF OrphanFits
    <3>2. Served(used.mounts)
      BY <2>2, <3>1, ServerRunsFits
    <3>3. adopted' = adopted \/ adopted' # 0
      BY <2>2, Before DEF ServerRuns, ServerStarts, ServerAbandons, ServerAdopts, server
    <3>4. QED
      BY <3>2, <3>3
  <2>3. QED
    BY <1>1, <2>1, <2>2
<1>5. /\ Fits(log', ed)
      /\ RequestsFit(log', ed, load, cmd, adopted', orphans, ending', used.mounts)
      /\ BrowserFits(log', ed, cache, ops, cleanup, used.faults)
      /\ StoreFits(log', adopted', home, cleanup, used)
      /\ Quiet(used, adopted') => Quiet(used, adopted)
  BY <1>4, ServedFits
<1>6. RequestsFit(log', ed, load, cmd, adopted', orphans', ending', used.mounts)
  BY <1>2, <1>5 DEF RequestsFit, OrphansFit
<1>7. CASE log' = log
  <2>1. Quiet(used, adopted') => NewestFits(log, ed, load)
    BY <1>5, Before
  <2>2. QED
    BY <1>2, <1>5, <1>6, <1>7, <2>1 DEF IInv
<1>8. CASE log' # log
  <2>1. Spend("late")
    BY <1>2, <1>8
  <2>2. /\ used' \in Counts /\ used'.mounts = used.mounts /\ used'.faults = used.faults
        /\ used'.late = used.late + 1
    BY <2>1, SpendIs
  <2>3. ~Quiet(used', adopted')
    <3>1. used.late \in Nat
      BY Before DEF StoreFits, Counts
    <3>2. QED
      BY <2>2, <3>1 DEF Quiet
  <2>4. StoreFits(log', adopted', home, cleanup, used')
    BY <1>5, <2>2 DEF StoreFits
  <2>5. QED
    BY <1>2, <1>5, <1>6, <2>2, <2>3, <2>4 DEF IInv
<1>9. QED
  BY <1>7, <1>8

\* Another device changes or ends the draft.
LEMMA OthersStep ==
  ASSUME IInv, NEW t \in Texts, OtherSaves(t) \/ OtherEnds
  PROVE  IInv'
<1>1. Spend("others") /\ UNCHANGED <<adopted, orphans, ed, load, cmd, cleanup, home, cache, ops>>
  BY DEF OtherSaves, OtherEnds
<1>2. Served(used.mounts)
  <2>1. adopted \in 0..Len(log) /\ (adopted # 0 => log[adopted] = Suggestion) /\ Len(log) \in Nat /\ Len(log) > 0
    BY Before DEF StoreFits, Stored
  <2>2. CASE OtherSaves(t)
    <3>1. log' = Append(log, Canon[t]) /\ ending' = None /\ adopted' = adopted
      BY <2>2 DEF OtherSaves
    <3>2. Longer(log, log') /\ Len(log') = Len(log) + 1
      BY <3>1, Before, LongerByOne
    <3>3. adopted' \in 0..Len(log') /\ (adopted' # 0 => log'[adopted'] = Suggestion)
      <4>1. adopted # 0 => adopted \in 1..Len(log)
        BY <2>1
      <4>2. QED
        BY <2>1, <3>1, <3>2, <4>1 DEF Longer
    <3>4. QED
      BY <3>1, <3>2, <3>3 DEF Served, EndingFits
  <2>3. CASE OtherEnds
    <3>1. log' = log /\ adopted' = adopted /\ ending' = [by |-> "other", base |-> Len(log), mount |-> 0]
      BY <2>3 DEF OtherEnds
    <3>2. Longer(log, log)
      BY Before, LongerSame
    <3>3. used.mounts \in Nat
      BY Before DEF StoreFits, Counts
    <3>4. EndingFits(log, ed, ending', used.mounts)
      BY <2>1, <3>1, <3>3 DEF EndingFits
    <3>5. QED
      BY <2>1, <3>1, <3>2, <3>4 DEF Served
  <2>4. QED
    BY <2>2, <2>3
<1>3. /\ Fits(log', ed)
      /\ RequestsFit(log', ed, load, cmd, adopted', orphans, ending', used.mounts)
      /\ BrowserFits(log', ed, cache, ops, cleanup, used.faults)
      /\ StoreFits(log', adopted', home, cleanup, used)
  BY <1>2, ServedFits
<1>4. /\ StoreFits(log, adopted, home, cleanup, used') /\ used'.mounts = used.mounts
      /\ used'.faults = used.faults /\ ~Quiet(used', adopted)
  BY <1>1, SpendFits
<1>5. StoreFits(log', adopted', home, cleanup, used')
  BY <1>3, <1>4 DEF StoreFits
<1>6. QED
  BY <1>1, <1>3, <1>4, <1>5 DEF IInv

Answered(e, a) == [e EXCEPT !.attempt = a]
LEMMA AnsweredIs ==
  ASSUME NEW n, NEW e \in EditorsTo(n), NEW a \in AttemptsTo(n) \cup {None}
  PROVE  LET f == Answered(e, a) IN
         /\ f \in EditorsTo(n) /\ Stays(e, f) /\ f.rev = e.rev /\ f.current = e.current
         /\ f.attempt = a /\ f.basis = e.basis /\ f.conflict = e.conflict
         /\ f.recovery = e.recovery /\ f.moved = e.moved /\ f.saved = e.saved /\ f.uncertain = e.uncertain
         /\ f.queued = e.queued /\ f.saveTimer = e.saveTimer /\ f.persistTimer = e.persistTimer
         /\ f.shown = e.shown
<1>1. Answered(e, a) \in EditorsTo(n)
  BY DEF Answered, EditorsTo
<1>2. Stays(e, Answered(e, a))
  BY DEF Answered, Stays, EditorsTo
<1>3. QED
  BY <1>1, <1>2 DEF Answered, EditorsTo

\* The server answers a save: with the revision that has its text, if it took it.
LEMMA AnsweredFits ==
  ASSUME NEW o, NEW e, Stored(o), Fits(o, e), e.attempt # None, e.attempt.stage = "sent",
         NEW k \in {"ok", "conflict", "gone"}, NEW x \in 0..Len(o), NEW a \in AttemptsTo(Len(o)),
         a.text = e.attempt.text, a.base = e.attempt.base, a.basis = e.attempt.basis,
         a.stage = k, a.rev = x, k = "ok" => x = Len(o) /\ o[x] = Canon[e.attempt.text]
  PROVE  LET f == Answered(e, a) IN
         /\ Fits(o, f) /\ Stays(e, f) /\ f.rev = e.rev /\ f.current = e.current
         /\ f.attempt = a /\ f.conflict = None /\ f.recovery = None /\ f.moved = e.moved
         /\ f.uncertain = e.uncertain /\ f.queued = e.queued /\ f.persistTimer = e.persistTimer
<1> DEFINE f == Answered(e, a)
<1>1. /\ e \in EditorsTo(Len(o)) /\ Frame(o, e) /\ AttemptFits(o, e) /\ Flags(e) /\ Len(o) \in Nat
  BY DEF Fits, Frame, Stored
<1>2. /\ f \in EditorsTo(Len(o)) /\ Stays(e, f) /\ f.rev = e.rev /\ f.current = e.current
      /\ f.attempt = a /\ f.basis = e.basis /\ f.conflict = e.conflict
      /\ f.recovery = e.recovery /\ f.moved = e.moved /\ f.saved = e.saved /\ f.uncertain = e.uncertain
      /\ f.queued = e.queued /\ f.saveTimer = e.saveTimer /\ f.persistTimer = e.persistTimer
      /\ f.shown = e.shown
  BY <1>1, AnsweredIs
<1> HIDE DEF f
<1>3. a # None
  BY <1>1, AttemptsAreSome
<1>4. /\ e.usable /\ ~e.hydrating /\ ~e.moved /\ e.recovery = None /\ e.conflict = None
      /\ e.pending \notin {"start", "adopt"} /\ e.shown # "saved"
  BY AttemptMeans
<1>5. Frame(o, f)
  BY <1>1, <1>2 DEF Frame, Stays
<1>6. AttemptFits(o, f)
  <2>1. e.rev <= Len(o)
    BY <1>1 DEF EditorsTo
  <2>2. f.usable /\ ~f.hydrating /\ ~f.moved /\ f.recovery = None /\ f.conflict = None
    BY <1>2, <1>4 DEF Stays
  <2>3. a.base = a.basis /\ a.base = e.rev
    BY <1>1 DEF AttemptFits
  <2>4. a.stage = "ok" => a.rev >= f.rev /\ o[a.rev] = Canon[a.text]
    BY <1>1, <1>2, <2>1 DEF EditorsTo
  <2>5. QED
    BY <1>2, <2>2, <2>3, <2>4 DEF AttemptFits
<1>7. Flags(f)
  BY <1>1, <1>2, <1>3, <1>4 DEF Flags, Stays, Blocked
<1>8. QED
  BY <1>2, <1>4, <1>5, <1>6, <1>7 DEF Fits, f

LEMMA ServeSaveStep ==
  ASSUME IInv, ServeSave
  PROVE  IInv'
<1>1. PICK k \in {"ok", "conflict", "gone"} :
        /\ ServerSaves(ed.attempt.text, ed.attempt.base, k)
        /\ ed' = [ed EXCEPT !.attempt.stage = k,
                            !.attempt.rev = IF k = "ok" THEN Len(log') ELSE 0]
  BY DEF ServeSave
<1>2. /\ ed.attempt # None /\ ed.attempt.stage = "sent"
      /\ UNCHANGED <<orphans, load, cmd, cleanup, home, cache, ops, used>>
  BY DEF ServeSave, Waits
<1>3. /\ ed.attempt \in AttemptsTo(Len(log)) /\ ed.usable /\ ed.conflict = None /\ ~Settled(ed)
  BY <1>2, Before, AttemptMeans
<1>4. ed.attempt.text \in Texts
  BY <1>3 DEF AttemptsTo
<1>5. /\ Served(used.mounts) /\ adopted' = adopted
      /\ k = "ok" => log'[Len(log')] = Canon[ed.attempt.text]
      /\ k # "ok" => log' = log
  BY <1>1, <1>4, ServerSavesFits
<1>6. /\ Stored(log') /\ Fits(log', ed)
      /\ RequestsFit(log', ed, load, cmd, adopted', orphans, ending', used.mounts)
      /\ BrowserFits(log', ed, cache, ops, cleanup, used.faults)
      /\ StoreFits(log', adopted', home, cleanup, used)
      /\ Quiet(used, adopted') => Quiet(used, adopted)
  BY <1>5, ServedFits
<1> DEFINE x == IF k = "ok" THEN Len(log') ELSE 0
           a == [ed.attempt EXCEPT !.stage = k, !.rev = x]
           f == Answered(ed, a)
<1>7. ed \in EditorsTo(Len(log')) /\ Len(log') \in Nat /\ ed.attempt \in AttemptsTo(Len(log'))
  <2>1. ed \in EditorsTo(Len(log')) /\ Len(log') \in Nat
    BY <1>6 DEF Fits, Frame, Stored
  <2>2. QED
    BY <1>2, <2>1 DEF EditorsTo
<1>8. x \in 0..Len(log') /\ (k = "ok" => x = Len(log') /\ log'[x] = Canon[ed.attempt.text])
  BY <1>5, <1>7
<1>9. ed' = [ed EXCEPT !.attempt.stage = k, !.attempt.rev = x]
  BY <1>1
<1> HIDE DEF x
<1>10. ed' = f
  BY <1>7, <1>9 DEF Answered, EditorsTo
<1>11. /\ a \in AttemptsTo(Len(log')) /\ a.text = ed.attempt.text /\ a.base = ed.attempt.base
       /\ a.basis = ed.attempt.basis /\ a.stage = k /\ a.rev = x
  BY <1>7, <1>8 DEF AttemptsTo, Stages
<1> HIDE DEF a
<1>12. /\ Fits(log', f) /\ Stays(ed, f) /\ f.rev = ed.rev /\ f.current = ed.current
       /\ f.attempt = a /\ f.conflict = None /\ f.recovery = None /\ f.moved = ed.moved
       /\ f.uncertain = ed.uncertain /\ f.queued = ed.queued /\ f.persistTimer = ed.persistTimer
  BY <1>2, <1>6, <1>8, <1>11, AnsweredFits
<1> HIDE DEF f
<1>13. /\ f.mounted = ed.mounted /\ f.usable = ed.usable /\ f.mount = ed.mount /\ f.pending = ed.pending
       /\ f.hydrating = ed.hydrating /\ f.warned = ed.warned
  BY <1>12 DEF Stays
<1>14. load = None /\ LoadFits(log', f, load)
  <2>1. LoadFits(log', ed, load)
    BY <1>6 DEF RequestsFit
  <2>2. QED
    BY <1>3, <2>1, NoLoad
<1>15. f \in EditorsTo(Len(log')) /\ ed.rev \in Int
  BY <1>7, <1>12 DEF Fits, Frame, EditorsTo
<1>16. f.rev >= ed.rev
  BY <1>12, <1>15
<1>17. RequestsFit(log', f, load, cmd, adopted', orphans, ending', used.mounts)
  BY <1>6, <1>7, <1>12, <1>13, <1>14, <1>15, <1>16, RequestsKept
<1>18. KeptFits(f, ops, cache, used.faults)
  BY <1>3, <1>12, <1>13, Before, KeptSame
<1>19. BrowserFits(log', f, cache, ops, cleanup, used.faults)
  BY <1>6, <1>13, <1>18, BrowserKept
<1>20. Quiet(used, adopted') => NewestFits(log', f, load)
  <2>1. CASE k = "ok"
    <3>1. IsOk(f) /\ f.attempt.rev = Len(log')
      BY <1>7, <1>8, <1>11, <1>12, <2>1, AttemptsAreSome DEF IsOk
    <3>2. QED
      BY <1>12, <1>14, <3>1 DEF NewestFits, IsOk
  <2>2. CASE k # "ok"
    <3>1. log' = log /\ ~IsOk(f) /\ ~IsOk(ed)
      BY <1>2, <1>5, <1>11, <1>12, <2>2 DEF IsOk
    <3>2. Quiet(used, adopted') => NewestFits(log, ed, load)
      BY <1>6, Before
    <3>3. QED
      BY <1>12, <1>13, <3>1, <3>2, NewestKept
  <2>3. QED
    BY <2>1, <2>2
<1>21. QED
  BY <1>2, <1>6, <1>10, <1>12, <1>17, <1>19, <1>20 DEF IInv

LEMMA CommandSucceedsStep ==
  ASSUME IInv, CommandSucceeds
  PROVE  IInv'
<1>1. /\ cmd # None /\ cmd.stage = "ok" /\ cmd' = None
      /\ UNCHANGED <<log, ending, adopted, orphans, load, cache, used>>
  BY DEF CommandSucceeds, server
<1>2. /\ cmd.base \in 1..Len(log) /\ cmd.kind = ed.pending /\ cmd.mount = ed.mount
      /\ cmd.kind = "adopt" => cmd.base >= ed.rev /\ log[cmd.base] = Suggestion /\ adopted # 0
  BY <1>1, Before DEF CmdFits
<1>3. CmdFits(log, ed, None, adopted)
  BY DEF CmdFits
<1>4. RequestsFit(log, ed, load, None, adopted, orphans, ending, used.mounts)
  BY <1>3, Before DEF RequestsFit
<1>5. CASE UNCHANGED <<ed, ops, home>> /\ cleanup' \in {cleanup, "waiting", "skipped"}
  <2>1. StoreFits(log, adopted, home, cleanup', used)
    BY <1>5, Before DEF StoreFits
  <2>2. BrowserFits(log, ed, cache, ops, cleanup', used.faults)
    BY <1>5, Before DEF BrowserFits
  <2>3. QED
    BY <1>1, <1>4, <1>5, <2>1, <2>2, Before DEF IInv
<1>6. CASE cmd.kind = "adopt" /\ Heard /\ home # 0
  <2> DEFINE r == cmd.base
             f == Synchronized([ed EXCEPT !.pending = "none", !.offered = FALSE, !.rev = r,
                                          !.basis = r, !.conflict = None, !.recovery = None,
                                          !.resolving = FALSE], Suggestion)
             op == Op("wipe", None, NoTail)
  <2>1. ed' = f /\ ops' = Append(ops, op) /\ home' = r /\ cleanup' = cleanup
    BY <1>6 DEF CommandSucceeds
  <2>2. ed.usable
    BY <1>6 DEF Heard, ActiveScope
  <2>3. Clean(ed)
    BY <1>2, <1>6, Before DEF Fits, Flags
  <2>4. r \in 1..Len(log) /\ log[r] = Suggestion /\ r >= ed.rev /\ adopted # 0
    BY <1>2, <1>6
  <2> HIDE DEF r
  <2>5. /\ Fits(log, f) /\ f.mounted = ed.mounted /\ f.usable = ed.usable /\ f.mount = ed.mount
        /\ f.hydrating = ed.hydrating /\ f.warned = ed.warned /\ f.rev = r /\ Settled(f)
    BY <2>2, <2>3, <2>4, Before, AdoptedFits
  <2> HIDE DEF f
  <2>6. Keeps(Len(log), op, f)
    BY <2>5, WipeKeeps
  <2> HIDE DEF op
  <2>7. BrowserFits(log, f, cache, ops', cleanup, used.faults)
    BY <2>1, <2>2, <2>5, <2>6, Before, AppendFits
  <2>8. LoadFits(log, f, load) /\ CmdFits(log, f, None, adopted) /\ f \in EditorsTo(Len(log))
    <3>1. ed.conflict = None
      BY <2>3 DEF Clean, Blocked
    <3>2. LoadFits(log, f, load)
      BY <3>1, Before, NoLoad
    <3>3. QED
      BY <2>5, <3>2 DEF CmdFits, Fits, Frame
  <2>9. RequestsFit(log, f, load, None, adopted, orphans, ending, used.mounts)
    BY <2>4, <2>5, <2>8, Before, RequestsWith
  <2>10. ~Quiet(used, adopted)
    BY <2>4 DEF Quiet
  <2>11. StoreFits(log, adopted, r, cleanup, used)
    <3>1. r \in 0..Len(log)
      BY <2>4
    <3>2. QED
      BY <3>1, Before DEF StoreFits
  <2>12. QED
    BY <1>1, <2>1, <2>5, <2>7, <2>9, <2>10, <2>11 DEF IInv
<1>7. QED
  BY <1>5, <1>6 DEF CommandSucceeds

\* What stays of the requests when an editor opens, or the page goes away.
LEMMA NewMountFits ==
  ASSUME IInv, NEW f, f.mount = used.mounts + 1
  PROVE  /\ OrphansFit(log, f, orphans \cup LeftBehind, used.mounts + 1)
         /\ EndingFits(log, f, ending, used.mounts + 1)
<1> DEFINE m == used.mounts
<1>1. m \in Nat
  BY Before DEF StoreFits, Counts
<1> HIDE DEF m
<1>2. 0..m \subseteq 0..(m + 1) /\ m + 1 \notin 0..m
  BY <1>1
<1>3. OrphansFit(log, f, orphans \cup LeftBehind, m + 1)
  <2> SUFFICES ASSUME NEW q \in orphans \cup LeftBehind PROVE OrphanFits(log, f, q, m + 1)
    BY DEF OrphansFit
  <2>1. OrphanFits(log, ed, q, m)
    BY Before, LeftBehindFits DEF RequestsFit, OrphansFit, m
  <2>2. f.mount = m + 1
    BY DEF m
  <2>3. QED
    BY <1>2, <2>1, <2>2 DEF OrphanFits
<1>4. EndingFits(log, f, ending, m + 1)
  <2>1. EndingFits(log, ed, ending, m) /\ f.mount = m + 1
    BY Before DEF RequestsFit, m
  <2>2. QED
    BY <1>2, <2>1 DEF EndingFits
<1>5. QED
  BY <1>3, <1>4 DEF m

\* The queue of a new editor holds the read of the browser's record.
LEMMA FirstOpFits ==
  ASSUME NEW o, NEW e, e.hydrating
  PROVE  OpsFit(o, e, <<Op("get", None, NoTail)>>)
<1> DEFINE op == Op("get", None, NoTail)
           q == <<op>>
<1>1. op \in BrowserOps /\ OpFits(Len(o), op)
  BY SavedIsTail DEF BrowserOps, OpFits, Op, Sound
<1> HIDE DEF op
<1>2. q \in Seq(BrowserOps) /\ DOMAIN q = {1} /\ q[1] = op
  BY <1>1
<1> HIDE DEF q
<1>3. OpsFit(o, e, q)
  BY <1>1, <1>2 DEF OpsFit
<1>4. QED
  BY <1>3 DEF q, op

LEMMA MountStep ==
  ASSUME IInv, Mount
  PROVE  IInv'
<1> DEFINE f == NewEditor(home, used.mounts + 1)
           q == <<Op("get", None, NoTail)>>
<1>1. /\ ed' = f /\ ops' = q /\ orphans' = orphans \cup LeftBehind
      /\ load' = None /\ cmd' = None /\ cleanup' = "none" /\ home # 0 /\ Spend("mounts")
      /\ UNCHANGED <<log, ending, adopted, home, cache>>
  BY DEF Mount, server
<1>2. home \in 1..Len(log) /\ used.mounts \in Nat /\ used.mounts > 0
  BY <1>1, Before DEF StoreFits, Counts
<1>3. /\ Fits(log, f) /\ Settled(f) /\ f.hydrating /\ f.mount = used.mounts + 1 /\ ~f.warned
  BY <1>2, Before, NewEditorFits
<1> HIDE DEF f
<1>4. OpsFit(log, f, q)
  BY <1>3, FirstOpFits
<1> HIDE DEF q
<1>5. used' \in Counts /\ used'.mounts = used.mounts + 1
  BY <1>1, SpendIs
<1>6. /\ OrphansFit(log, f, orphans', used'.mounts)
      /\ EndingFits(log, f, ending, used'.mounts)
  BY <1>1, <1>3, <1>5, NewMountFits
<1>7. RequestsFit(log, f, None, None, adopted, orphans', ending, used'.mounts)
  BY <1>2, <1>3, <1>5, <1>6 DEF RequestsFit, LoadFits, CmdFits
<1>8. BrowserFits(log, f, cache, q, "none", used'.faults)
  BY <1>3, <1>4, Before DEF BrowserFits, KeptFits
<1>9. StoreFits(log, adopted, home, "none", used') /\ ~Quiet(used', adopted)
  BY <1>2, <1>5, Before DEF StoreFits, Quiet
<1>10. QED
  BY <1>1, <1>3, <1>7, <1>8, <1>9 DEF IInv

LEMMA ReloadStep ==
  ASSUME IInv, Reload
  PROVE  IInv'
<1> DEFINE f == Quiesced(ed)
<1>1. /\ ed' = f /\ ops' = <<>> /\ orphans' = orphans \cup LeftBehind
      /\ load' = None /\ cmd' = None /\ cleanup' = "none" /\ home' \in {home, Latest}
      /\ UNCHANGED <<log, ending, adopted, cache, used>>
  BY DEF Reload, server
<1>2. Fits(log, f) /\ ~f.usable /\ f.mount = ed.mount /\ f.rev = ed.rev /\ f.warned = ed.warned
  BY Before, QuiescedFits
<1> HIDE DEF f
<1>3. f \in EditorsTo(Len(log)) /\ ed.rev \in Int
  BY <1>2, Before DEF Fits, Frame, EditorsTo
<1>4. f.rev >= ed.rev /\ LoadFits(log, f, None) /\ CmdFits(log, f, None, adopted)
  BY <1>2, <1>3 DEF LoadFits, CmdFits
<1>5. RequestsFit(log, f, None, None, adopted, orphans, ending, used.mounts)
  BY <1>2, <1>3, <1>4, Before, RequestsWith
<1>6. RequestsFit(log, f, None, None, adopted, orphans', ending, used.mounts)
  <2>1. OrphansFit(log, f, LeftBehind, used.mounts)
    BY <1>2, LeftBehindFits DEF OrphansFit, OrphanFits
  <2>2. QED
    BY <1>1, <1>5, <2>1 DEF RequestsFit, OrphansFit
<1>7. BrowserFits(log, f, cache, <<>>, "none", used.faults)
  <2>1. OpsFit(log, f, <<>>)
    BY DEF OpsFit
  <2>2. QED
    BY <1>2, <2>1, Before DEF BrowserFits, KeptFits
<1>8. StoreFits(log, adopted, home', "none", used)
  BY <1>1, Before DEF StoreFits, Latest
<1>9. NewestFits(log, f, None)
  BY <1>2 DEF NewestFits
<1>10. QED
  BY <1>1, <1>2, <1>6, <1>7, <1>8, <1>9 DEF IInv

LEMMA InitFits ==
  ASSUME Init
  PROVE  IInv
<1> DEFINE f == NewEditor(1, 1)
           q == <<Op("get", None, NoTail)>>
<1>1. /\ log = <<Blank>> /\ ending = None /\ adopted = 0
      /\ orphans = {} /\ load = None /\ cmd = None /\ cleanup = "none"
      /\ home = 1 /\ ed = f /\ ops = q /\ cache = None
      /\ used = [edits |-> 0, others |-> 0, faults |-> 0, mounts |-> 1, late |-> 0]
  BY DEF Init
<1>2. Stored(log) /\ Len(log) = 1
  BY <1>1, Canonical DEF Stored
<1>3. /\ Fits(log, f) /\ Settled(f) /\ f.hydrating /\ f.mount = 1 /\ ~f.warned
      /\ f.rev = 1 /\ f.recovery = None /\ f.attempt = None
  BY <1>2, NewEditorFits
<1> HIDE DEF f
<1>4. OpsFit(log, f, q)
  BY <1>3, FirstOpFits
<1> HIDE DEF q
<1>5. StoreFits(log, adopted, home, cleanup, used)
  BY <1>1, <1>2 DEF StoreFits, Counts
<1>6. RequestsFit(log, f, load, cmd, adopted, orphans, ending, used.mounts)
  BY <1>1, <1>3 DEF RequestsFit, LoadFits, CmdFits, OrphansFit, EndingFits
<1>7. BrowserFits(log, f, cache, ops, cleanup, used.faults)
  BY <1>1, <1>3, <1>4 DEF BrowserFits, KeptFits, Sound
<1>8. NewestFits(log, f, load)
  BY <1>1, <1>2, <1>3 DEF NewestFits
<1>9. QED
  BY <1>1, <1>3, <1>5, <1>6, <1>7, <1>8 DEF IInv

-----------------------------------------------------------------------------
(***************************************************************************)
(* The queue of operations on the browser's record                         *)
(***************************************************************************)
LEMMA TailIs ==
  ASSUME NEW q \in Seq(BrowserOps), q # <<>>
  PROVE  LET t == Tail(q) IN
         /\ t \in Seq(BrowserOps) /\ Head(q) = q[1] /\ 1 \in DOMAIN q /\ DOMAIN t = 1..Len(t)
         /\ \A i \in DOMAIN t : i + 1 \in DOMAIN q /\ i + 1 # 1 /\ t[i] = q[i + 1]
         /\ t = <<>> => q[Len(q)] = q[1]
         /\ t # <<>> => t[Len(t)] = q[Len(q)]
<1> DEFINE t == Tail(q)
<1>1. Len(q) \in Nat /\ Len(q) # 0 /\ DOMAIN q = 1..Len(q) /\ Head(q) = q[1]
  BY EmptySeq
<1>2. t \in Seq(BrowserOps) /\ Len(t) = Len(q) - 1 /\ DOMAIN t = 1..(Len(q) - 1)
  BY <1>1
<1>3. \A i \in 1..(Len(q) - 1) : t[i] = q[i + 1]
  BY <1>1
<1> HIDE DEF t
<1>4. \A i \in DOMAIN t : i + 1 \in DOMAIN q /\ i + 1 # 1 /\ t[i] = q[i + 1]
  BY <1>1, <1>2, <1>3
<1>5. t = <<>> => q[Len(q)] = q[1]
  <2> SUFFICES ASSUME t = <<>> PROVE Len(q) = 1
    OBVIOUS
  <2> DEFINE n == Len(q)
  <2>1. n \in Nat /\ n - 1 = 0
    BY <1>1, <1>2
  <2> HIDE DEF n
  <2>2. n = 1
    BY <2>1
  <2>3. QED
    BY <2>2 DEF n
<1>6. t # <<>> => t[Len(t)] = q[Len(q)]
  <2> SUFFICES ASSUME t # <<>> PROVE t[Len(t)] = q[Len(q)]
    OBVIOUS
  <2> DEFINE n == Len(q)
             k == n - 1
  <2>1. Len(t) # 0 /\ Len(t) = k /\ n \in Nat
    BY <1>1, <1>2, EmptySeq
  <2>2. k # 0 /\ n # 0
    BY <1>1, <2>1
  <2> HIDE DEF n
  <2>3. k \in 1..(n - 1) /\ k + 1 = n
    BY <2>1, <2>2
  <2>4. t[k] = q[k + 1]
    BY <1>3, <2>3 DEF n
  <2>5. QED
    BY <2>1, <2>3, <2>4 DEF n
<1>7. QED
  BY <1>1, <1>2, <1>4, <1>5, <1>6 DEF t

\* Without the operation at its head, the queue of any editor is well formed.
LEMMA TailFits ==
  ASSUME NEW o, NEW e, NEW q, OpsFit(o, e, q), q # <<>>, NEW f
  PROVE  /\ OpsFit(o, f, Tail(q)) /\ Head(q) \in BrowserOps /\ OpFits(Len(o), Head(q))
         /\ Head(q).kind = "get" => e.hydrating
<1>1. q \in Seq(BrowserOps)
  BY DEF OpsFit
<1>2. /\ Tail(q) \in Seq(BrowserOps) /\ Head(q) = q[1] /\ 1 \in DOMAIN q
      /\ \A i \in DOMAIN Tail(q) : i + 1 \in DOMAIN q /\ i + 1 # 1 /\ Tail(q)[i] = q[i + 1]
  BY <1>1, TailIs
<1> DEFINE t == Tail(q)
<1> HIDE DEF t
<1>3. OpsFit(o, f, t)
  BY <1>2 DEF OpsFit, t
<1>4. q[1] \in BrowserOps
  BY <1>1, <1>2
<1>5. QED
  BY <1>2, <1>3, <1>4 DEF OpsFit, t

\* An operation is done: what it leaves on disk is the text, or a later one keeps it.
LEMMA TailKept ==
  ASSUME NEW o, NEW e, NEW q, NEW c, NEW d, NEW faults, NEW f,
         OpsFit(o, e, q), q # <<>>, KeptFits(e, q, c, faults),
         Head(q).kind = "put" => d # None /\ d.text = Head(q).draft.text,
         f.usable = e.usable, f.mounted = e.mounted, f.current = e.current,
         f.persistTimer = e.persistTimer, ~Settled(f) => ~Settled(e)
  PROVE  KeptFits(f, Tail(q), d, faults)
<1>1. q \in Seq(BrowserOps)
  BY DEF OpsFit
<1> DEFINE t == Tail(q)
<1>2. /\ Head(q) = q[1] /\ (t = <<>> => q[Len(q)] = q[1]) /\ (t # <<>> => t[Len(t)] = q[Len(q)])
  BY <1>1, TailIs
<1> HIDE DEF t
<1>3. OnDisk(e, q, c) => OnDisk(f, t, d)
  BY <1>2 DEF OnDisk
<1>4. QED
  BY <1>3 DEF KeptFits, t

\* An operation failed: a text it would have kept is warned about.
LEMMA TailWarned ==
  ASSUME NEW o, NEW e, NEW q, NEW c, NEW faults, NEW f, NEW n, n # 0,
         OpsFit(o, e, q), q # <<>>, KeptFits(e, q, c, faults), f.mounted => f.warned,
         f.usable = e.usable, f.mounted = e.mounted, f.current = e.current,
         f.persistTimer = e.persistTimer, ~Settled(f) => ~Settled(e)
  PROVE  KeptFits(f, Tail(q), c, n)
<1>1. q \in Seq(BrowserOps)
  BY DEF OpsFit
<1> DEFINE t == Tail(q)
<1>2. t # <<>> => t[Len(t)] = q[Len(q)]
  BY <1>1, TailIs
<1> HIDE DEF t
<1>3. OnDisk(e, q, c) /\ t # <<>> => OnDisk(f, t, c)
  BY <1>2 DEF OnDisk
<1>4. QED
  BY <1>3 DEF KeptFits, t

\* What is said of the browser's record besides that the text is kept.
BrowserFrame(o, e, c, q, cl, faults) ==
    /\ c \in DraftsTo(Len(o)) \cup {None} /\ Sound(c)
    /\ OpsFit(o, e, q)
    /\ cl \in {"quiesced", "done"} => ~e.usable
    /\ cl = "done" => c = None /\ q = <<>>
    /\ e.warned => faults # 0

LEMMA AppendToFits ==
  ASSUME NEW o, NEW e, NEW c, NEW q, NEW cl, NEW faults, NEW f, NEW op,
         BrowserFrame(o, e, c, q, cl, faults), e.usable, f.usable = e.usable,
         f.hydrating = e.hydrating, f.warned = e.warned, Keeps(Len(o), op, f)
  PROVE  BrowserFits(o, f, c, Append(q, op), cl, faults)
<1> DEFINE h == [usable |-> TRUE, mounted |-> TRUE, persistTimer |-> TRUE,
                 hydrating |-> f.hydrating, warned |-> f.warned]
<1>1. KeptFits(h, q, c, faults)
  BY DEF KeptFits
<1>2. BrowserFits(o, h, c, q, cl, faults)
  BY <1>1 DEF BrowserFits, BrowserFrame, OpsFit
<1>3. QED
  BY <1>2, AppendFits

LEMMA QueueRequestsFit ==
  ASSUME IInv, NEW f, Fits(log, f), f.usable = ed.usable, f.mount = ed.mount, f.pending = ed.pending,
         f.rev = ed.rev, f.conflict = ed.conflict, f.recovery = ed.recovery,
         f.uncertain = ed.uncertain, f.attempt = ed.attempt
  PROVE  /\ RequestsFit(log, f, load, cmd, adopted, orphans, ending, used.mounts)
         /\ Quiet(used, adopted) => NewestFits(log, f, load)
<1>1. f \in EditorsTo(Len(log)) /\ ed.rev \in Int
  BY Before DEF Fits, Frame, EditorsTo
<1>2. LoadFits(log, f, load)
  BY Before, LoadKept
<1>3. f.rev >= ed.rev
  BY <1>1
<1>4. RequestsFit(log, f, load, cmd, adopted, orphans, ending, used.mounts)
  BY <1>1, <1>2, <1>3, Before, RequestsKept
<1>5. Quiet(used, adopted) => NewestFits(log, f, load)
  BY Before, NewestKept
<1>6. QED
  BY <1>4, <1>5

\* The text, or nothing, is on disk now, and the attempt it belongs to is over.
LEMMA WriteDoneStep ==
  ASSUME IInv, ops # <<>>, NEW d, NEW then \in Tails,
         Head(ops).kind = "put" => d = Head(ops).draft,
         d = None \/ d = cache \/ d = Head(ops).draft,
         NEW b \in {None, Head(ops).draft},
         ed' = AfterPersist(Warned([ed EXCEPT !.lastCached = b], FALSE), then),
         cache' = d, ops' = Tail(ops),
         UNCHANGED <<log, ending, adopted, orphans, load, cmd, cleanup, home, used>>
  PROVE  IInv'
<1> DEFINE e1 == [ed EXCEPT !.lastCached = b]
           e2 == Warned(e1, FALSE)
           f == AfterPersist(e2, then)
           q == ops
<1>1. /\ Head(ops) \in BrowserOps /\ OpFits(Len(log), Head(ops))
  BY Before, TailFits
<1>2. b \in DraftsTo(Len(log)) \cup {None} /\ Fits(log, ed)
  BY <1>1, Before DEF OpFits
<1>3. /\ Fits(log, e1) /\ Stays(ed, e1) /\ e1.rev = ed.rev /\ e1.current = ed.current
      /\ e1.attempt = ed.attempt /\ e1.conflict = ed.conflict
      /\ e1.recovery = ed.recovery /\ e1.moved = ed.moved
      /\ e1.uncertain = ed.uncertain /\ e1.queued = ed.queued /\ e1.persistTimer = ed.persistTimer
  <2>1. IsRecalled(log, ed, e1)
    BY <1>2, RecallsFits, Zenon
  <2>2. QED
    BY <2>1 DEF IsRecalled
<1>4. ed' = f
  OBVIOUS
<1> HIDE DEF e1
<1>5. Fits(log, e2) /\ SameText(e1, e2) /\ e2.pending = e1.pending
      /\ e2.warned = (IF e1.mounted /\ e1.usable THEN FALSE ELSE e1.warned)
  BY <1>3, WarnedFits
<1> HIDE DEF e2
<1>6. Fits(log, f) /\ SameText(e2, f) /\ f.pending = e2.pending /\ f.warned = e2.warned
  BY <1>5, AfterPersistFits
<1> HIDE DEF f
<1>7. /\ f.usable = ed.usable /\ f.mounted = ed.mounted /\ f.mount = ed.mount /\ f.pending = ed.pending
      /\ f.hydrating = ed.hydrating /\ f.current = ed.current
      /\ f.rev = ed.rev /\ f.conflict = ed.conflict /\ f.recovery = ed.recovery /\ f.moved = ed.moved
      /\ f.uncertain = ed.uncertain /\ f.attempt = ed.attempt /\ f.queued = ed.queued
      /\ f.persistTimer = ed.persistTimer /\ (f.warned => ed.warned)
  BY <1>3, <1>5, <1>6 DEF SameText, Stays
<1>8. ~Settled(f) => ~Settled(ed)
  BY <1>7 DEF Settled, Blocked
<1>9. /\ RequestsFit(log, f, load, cmd, adopted, orphans, ending, used.mounts)
      /\ Quiet(used, adopted) => NewestFits(log, f, load)
  BY <1>6, <1>7, QueueRequestsFit
<1>10. KeptFits(f, Tail(ops), d, used.faults)
  <2>1. Head(ops).kind = "put" => d # None /\ d.text = Head(ops).draft.text
    BY <1>1 DEF OpFits
  <2>2. QED
    BY <1>7, <1>8, <2>1, Before, TailKept
<1>11. BrowserFits(log, f, d, Tail(ops), cleanup, used.faults)
  <2>1. OpsFit(log, f, Tail(ops))
    BY Before, TailFits
  <2>2. d \in DraftsTo(Len(log)) \cup {None} /\ Sound(d)
    BY <1>1, Before DEF OpFits, BrowserFits, Sound
  <2>3. QED
    BY <1>7, <1>10, <2>1, <2>2, Before DEF BrowserFits
<1>12. QED
  BY <1>4, <1>6, <1>9, <1>11, Before DEF IInv

\* The browser's record is read: it is ignored, or becomes the text of the editor.
LEMMA HydrateStep ==
  ASSUME IInv, ops # <<>>, Head(ops).kind = "get", Hydrate(cache), cache' = cache,
         UNCHANGED <<log, ending, adopted, orphans, load, cmd, cleanup, home, used>>
  PROVE  IInv'
<1> DEFINE d == cache
           ignored == d = None \/ ed.inputs > 0 \/ ed.moved \/ ~ed.usable \/ ~ed.mounted
           e == IF ignored THEN ed ELSE Recovered(ed, d)
           flushed == ~ignored /\ d.base = ed.rev /\ d.text = ed.saved
           f == FinishHydration(e)
           t == Tail(ops)
<1>1. /\ ed' = f /\ ops' = t \o IF flushed THEN <<PersistOp(e, NoTail)>> ELSE <<>>
  BY DEF Hydrate
<1>2. ed.hydrating /\ \A g : OpsFit(log, g, t)
  BY Before, TailFits
<1>3. d \in DraftsTo(Len(log)) \cup {None} /\ Sound(d) /\ cleanup # "done"
  BY Before DEF BrowserFits
<1>4. ed.conflict = None /\ ed.attempt = None /\ ~ed.uncertain
  BY <1>2, Before DEF Fits, Frame, AttemptFits
<1>5. load = None /\ \A g : LoadFits(log, g, load)
  BY <1>4, Before DEF LoadFits
<1> HIDE DEF t
<1>6. CASE ignored
  <2>1. f = FinishHydration(ed) /\ ops' = t \o <<>>
    BY <1>1, <1>6
  <2>2. ops' = t
    BY <1>2, <2>1, NoMore
  <2>3. Fits(log, f) /\ Opened(ed, f)
    BY <1>2, <2>1, Before, FinishedFits
  <2> HIDE DEF f
  <2>4. /\ f.usable = ed.usable /\ f.mounted = ed.mounted /\ f.mount = ed.mount /\ f.pending = ed.pending
        /\ f.current = ed.current /\ f.warned = ed.warned
        /\ f.rev = ed.rev /\ f.conflict = ed.conflict /\ f.recovery = ed.recovery /\ f.moved = ed.moved
        /\ f.uncertain = ed.uncertain /\ f.attempt = ed.attempt /\ f.queued = ed.queued
        /\ f.persistTimer = ed.persistTimer
    BY <2>3 DEF Opened
  <2>5. /\ RequestsFit(log, f, load, cmd, adopted, orphans, ending, used.mounts)
        /\ Quiet(used, adopted) => NewestFits(log, f, load)
    BY <2>3, <2>4, QueueRequestsFit
  <2>6. ~Settled(f) => ~Settled(ed)
    BY <2>4 DEF Settled, Blocked
  <2>7. KeptFits(f, t, cache, used.faults)
    BY <2>4, <2>6, Before, TailKept DEF t
  <2>8. BrowserFits(log, f, cache, t, cleanup, used.faults)
    BY <1>2, <1>3, <2>4, <2>7, Before DEF BrowserFits
  <2>9. QED
    BY <1>1, <2>2, <2>3, <2>5, <2>8, Before DEF IInv
<1>7. CASE ~ignored
  <2>1. /\ d \in DraftsTo(Len(log)) /\ ~ed.moved /\ ed.usable /\ ed.mounted
        /\ e = Recovered(ed, d) /\ f = FinishHydration(Recovered(ed, d))
    BY <1>3, <1>7
  <2>a. Stored(log) /\ Fits(log, ed)
    BY Before
  <2> HIDE DEF e, f
  <2>2. /\ Fits(log, f) /\ ~f.hydrating /\ f.mounted = ed.mounted /\ f.usable = ed.usable
        /\ f.mount = ed.mount /\ f.pending = ed.pending /\ f.warned = ed.warned
        /\ f.uncertain = ed.uncertain /\ f.attempt = None /\ f.rev = ed.rev
        /\ f.persistTimer \/ (/\ d.base = ed.rev /\ d.text = ed.saved
                              /\ f.current = ed.current /\ f.queued = ed.queued /\ f.conflict = ed.conflict
                              /\ f.moved = ed.moved)
    <3>1. IsRecovered(log, ed, d, f)
      BY <1>2, <1>3, <2>1, <2>a, RecoveredFits, Zenon
    <3>2. QED
      BY <3>1 DEF IsRecovered
  <2>3. f \in EditorsTo(Len(log)) /\ ed.rev \in Int
    BY <2>2, Before DEF Fits, Frame, EditorsTo
  <2>4. f.rev >= ed.rev /\ LoadFits(log, f, load)
    BY <1>5, <2>2, <2>3
  <2>5. RequestsFit(log, f, load, cmd, adopted, orphans, ending, used.mounts)
    BY <2>2, <2>3, <2>4, Before, RequestsKept
  <2>6. Quiet(used, adopted) => NewestFits(log, f, load)
    <3>1. Quiet(used, adopted) => ed.rev = Len(log)
      BY <1>4, <2>1, Before DEF NewestFits
    <3>2. QED
      BY <1>5, <2>2, <3>1 DEF NewestFits
  <2>7. BrowserFits(log, f, cache, ops', cleanup, used.faults)
    <3>1. CASE flushed
      <4> DEFINE x == Recovered(ed, d)
                 op == PersistOp(x, NoTail)
      <4>1. x = [ed EXCEPT !.lastCached = d]
        BY <3>1 DEF Recovered
      <4>2. /\ Fits(log, x) /\ x.current = ed.current /\ x.attempt = ed.attempt
            /\ x.queued = ed.queued /\ x.conflict = ed.conflict /\ x.moved = ed.moved
        <5>1. IsRecalled(log, ed, [ed EXCEPT !.lastCached = d])
          BY <1>3, <2>a, RecallsFits, Zenon
        <5>2. QED
          BY <4>1, <5>1 DEF IsRecalled
      <4>3. Keeps(Len(log), op, x)
        BY <4>2, Before, PersistOpKeeps, SavedIsTail DEF Fits
      <4>4. Fits(log, x) /\ x.hydrating
        BY <1>2, <4>1, <4>2, Before DEF EditorsTo
      <4>5. Opened(x, f)
        BY <2>1, <4>4, FinishedFits
      <4>6. Keeps(Len(log), op, f)
        <5>1. f.current = x.current /\ (~Settled(f) => ~Settled(x))
          BY <4>5 DEF Opened, Settled, Blocked
        <5>2. QED
          BY <4>3, <5>1, KeepsToo
      <4>7. ops' = Append(t, op)
        BY <1>1, <1>2, <2>1, <3>1, OneMore
      <4>8. BrowserFrame(log, f, cache, t, cleanup, used.faults)
        BY <1>2, <1>3, <2>2, Before DEF BrowserFits, BrowserFrame
      <4> HIDE DEF x, op, f
      <4>9. f.usable
        BY <2>1, <2>2
      <4>10. QED
        BY <4>6, <4>7, <4>8, <4>9, AppendToFits
    <3>2. CASE ~flushed
      <4>1. f.persistTimer /\ f.mounted
        BY <1>7, <2>1, <2>2, <3>2
      <4>2. ops' = t
        BY <1>1, <1>2, <3>2, NoMore
      <4> HIDE DEF f
      <4>3. KeptFits(f, t, cache, used.faults)
        BY <4>1 DEF KeptFits
      <4>4. QED
        BY <1>2, <1>3, <2>2, <4>2, <4>3, Before DEF BrowserFits
    <3>3. QED
      BY <3>1, <3>2
  <2>8. QED
    BY <1>1, <2>2, <2>5, <2>6, <2>7, Before DEF IInv
<1>8. QED
  BY <1>6, <1>7

LEMMA BrowserOpDoneStep ==
  ASSUME IInv, BrowserOpDone
  PROVE  IInv'
<1> DEFINE op == Head(ops)
<1>1. ops # <<>> /\ UNCHANGED <<log, ending, adopted, orphans, load, cmd, cleanup, home, used>>
  BY DEF BrowserOpDone, server
<1>2. op.then \in Tails
  <2>1. op \in BrowserOps
    BY <1>1, Before, TailFits
  <2>2. QED
    BY <2>1 DEF BrowserOps
<1>3. CASE op.kind = "get" /\ Hydrate(cache) /\ cache' = cache
  BY <1>1, <1>3, HydrateStep
<1>4. CASE /\ op.kind = "put" /\ cache' = op.draft /\ ops' = Tail(ops)
           /\ ed' = AfterPersist(Warned([ed EXCEPT !.lastCached = op.draft], FALSE), op.then)
  BY <1>1, <1>2, <1>4, WriteDoneStep
<1>5. CASE /\ op.kind = "clear" /\ ops' = Tail(ops)
           /\ cache' = (IF Same(cache, ed.lastCached) THEN None ELSE cache)
           /\ ed' = AfterPersist(Warned([ed EXCEPT !.lastCached = None], FALSE), op.then)
  <2>1. cache' = None \/ cache' = cache
    BY <1>5
  <2>2. QED
    BY <1>1, <1>2, <1>5, <2>1, WriteDoneStep
<1>6. CASE /\ op.kind = "wipe" /\ cache' = None /\ ops' = Tail(ops)
           /\ ed' = Warned([ed EXCEPT !.lastCached = None], FALSE)
  <2>1. ed' = AfterPersist(Warned([ed EXCEPT !.lastCached = None], FALSE), NoTail)
    BY <1>6 DEF AfterPersist, NoTail
  <2>2. NoTail \in Tails
    BY SavedIsTail
  <2>3. QED
    BY <1>1, <1>6, <2>1, <2>2, WriteDoneStep
<1>7. QED
  BY <1>3, <1>4, <1>5, <1>6 DEF BrowserOpDone

LEMMA BrowserOpFailsStep ==
  ASSUME IInv, BrowserOpFails
  PROVE  IInv'
<1> DEFINE op == Head(ops)
           w == Warned(ed, TRUE)
<1>1. /\ ops # <<>> /\ ops' = Tail(ops) /\ Spend("faults")
      /\ ed' = (IF op.kind = "get" THEN FinishHydration(w) ELSE AfterPersist(w, op.then))
      /\ UNCHANGED <<log, ending, adopted, orphans, load, cmd, cleanup, home, cache>>
  BY DEF BrowserOpFails, server
<1>2. op \in BrowserOps /\ (op.kind = "get" => ed.hydrating) /\ \A g : OpsFit(log, g, Tail(ops))
  BY <1>1, Before, TailFits
<1>3. op.then \in Tails
  BY <1>2 DEF BrowserOps
<1>4. Fits(log, w) /\ SameText(ed, w) /\ w.pending = ed.pending
      /\ w.warned = (IF ed.mounted /\ ed.usable THEN TRUE ELSE ed.warned)
  BY Before, WarnedFits
<1> HIDE DEF w, op
<1>5. /\ Fits(log, ed') /\ ed'.usable = ed.usable /\ ed'.mounted = ed.mounted /\ ed'.mount = ed.mount
      /\ ed'.pending = ed.pending /\ ed'.current = ed.current
      /\ ed'.rev = ed.rev /\ ed'.conflict = ed.conflict /\ ed'.recovery = ed.recovery /\ ed'.moved = ed.moved
      /\ ed'.uncertain = ed.uncertain /\ ed'.attempt = ed.attempt /\ ed'.queued = ed.queued
      /\ ed'.persistTimer = ed.persistTimer /\ ed'.warned = w.warned
  <2>1. CASE op.kind = "get"
    <3>1. w.hydrating
      BY <1>2, <1>4, <2>1, SameTextMeans
    <3>2. Fits(log, ed') /\ Opened(w, ed')
      BY <1>1, <1>4, <2>1, <3>1, FinishedFits
    <3>3. QED
      BY <1>4, <3>2 DEF Opened, SameText
  <2>2. CASE op.kind # "get"
    <3>1. Fits(log, ed') /\ SameText(w, ed') /\ ed'.pending = w.pending /\ ed'.warned = w.warned
      BY <1>1, <1>3, <1>4, <2>2, AfterPersistFits
    <3>2. QED
      BY <1>4, <3>1 DEF SameText
  <2>3. QED
    BY <2>1, <2>2
<1>6. /\ RequestsFit(log, ed', load, cmd, adopted, orphans, ending, used.mounts)
      /\ Quiet(used, adopted) => NewestFits(log, ed', load)
  BY <1>5, QueueRequestsFit
<1>7. /\ StoreFits(log, adopted, home, cleanup, used') /\ used'.mounts = used.mounts
      /\ used'.faults = used.faults + 1 /\ (Quiet(used', adopted) => Quiet(used, adopted))
  BY <1>1, SpendFits
<1>8. used'.faults # 0
  <2>1. used.faults \in Nat
    BY Before DEF StoreFits, Counts
  <2>2. QED
    BY <1>7, <2>1
<1>9. KeptFits(ed', Tail(ops), cache, used'.faults)
  <2>1. ed'.mounted => ed'.warned
    BY <1>4, <1>5, Before DEF Frame
  <2>2. ~Settled(ed') => ~Settled(ed)
    BY <1>5 DEF Settled, Blocked
  <2>3. QED
    BY <1>1, <1>5, <1>8, <2>1, <2>2, Before, TailWarned
<1>10. BrowserFits(log, ed', cache, ops', cleanup, used'.faults)
  BY <1>1, <1>2, <1>5, <1>8, <1>9, Before DEF BrowserFits
<1>11. QED
  BY <1>1, <1>5, <1>6, <1>7, <1>10 DEF IInv

-----------------------------------------------------------------------------
(***************************************************************************)
(* The theorems                                                            *)
(***************************************************************************)
LEMMA SchedulerStep ==
  ASSUME IInv, Scheduler
  PROVE  IInv'
BY SaveTimerStep, PersistTimerStep, BrowserOpDoneStep, ServeSaveStep, SaveSucceedsStep,
   SaveConflictsStep, SaveFindsNoDraftStep, ServeLoadStep, LoadArrivesStep, ServeCommandStep,
   CommandSucceedsStep, CommandRefusedStep, CleanupStep DEF Scheduler

LEMMA EnvironmentStep ==
  ASSUME IInv, Environment
  PROVE  IInv'
<1>1. CASE \E t \in Texts : OtherSaves(t)
  BY <1>1, OthersStep
<1>2. CASE OtherEnds
  <2>1. Blank \in Texts
    BY Canonical
  <2>2. QED
    BY <1>2, <2>1, OthersStep
<1>3. CASE \E q \in orphans : ServeOrphan(q)
  BY <1>3, ServeOrphanStep
<1>4. QED
  BY <1>1, <1>2, <1>3, SaveFailsStep, LoadFailsStep, BrowserOpFailsStep, CommandLostStep DEF Environment

LEMMA UserStep ==
  ASSUME IInv, User
  PROVE  IInv'
BY TypeStep, BlurStep, PersistTimerStep, RetryStep, ChoiceStep, CommandsStep, CleanupStep, LeaveStep,
   HomeRefetchedStep, MountStep, ReloadStep DEF User

LEMMA StutterStep ==
  ASSUME IInv, UNCHANGED vars
  PROVE  IInv'
BY DEF vars, IInv

\* The invariant holds in every reachable state, for any texts, any bound on
\* the retries and any bounds on what the user, the network, the browser
\* database and other devices do to the editor of DraftAutoSave.
THEOREM EditorStaysConsistent == Spec => []IInv
<1>1. Init => IInv
  BY InitFits
<1>2. IInv /\ [Next]_vars => IInv'
  BY SchedulerStep, EnvironmentStep, UserStep, StutterStep DEF Next
<1>3. QED
  BY <1>1, <1>2, PTL DEF Spec

LEMMA InvariantImpliesTypes ==
  ASSUME IInv
  PROVE  TypeOK
<1> DEFINE n == Len(log)
           C == {Canon[t] : t \in Texts}
<1>1. n \in Nat /\ n > 0 /\ log \in Seq(Texts) /\ \A i \in DOMAIN log : Canon[log[i]] = log[i]
  BY Before DEF Stored
<1>2. log \in Seq(C)
  <2>1. DOMAIN log = 1..n /\ \A i \in 1..n : log[i] \in Texts
    BY <1>1
  <2>2. \A i \in 1..n : log[i] \in C
    <3> SUFFICES ASSUME NEW i \in 1..n PROVE log[i] \in C
      OBVIOUS
    <3>1. log[i] \in Texts /\ log[i] = Canon[log[i]]
      BY <1>1, <2>1
    <3>2. QED
      BY <3>1
  <2>3. log \in [1..n -> C]
    <3> HIDE DEF C
    <3>1. log = [i \in 1..n |-> log[i]]
      BY <1>1
    <3>2. QED
      BY <2>2, <3>1
  <2>4. QED
    BY <1>1, <2>3, IsASeq
<1>3. /\ adopted \in 0..n /\ home \in 0..n
      /\ cleanup \in {"none", "waiting", "quiesced", "done", "skipped"}
  BY Before DEF StoreFits
<1>4. Drafts = DraftsTo(n) /\ Revisions = 1..n /\ AttemptRec = AttemptsTo(n)
  BY DEF Drafts, DraftsTo, Revisions, AttemptRec, AttemptsTo, Stages
<1>5. cache \in Drafts \cup {None}
  BY <1>4, Before DEF BrowserFits
<1>6. /\ ed.current \in Texts /\ ed.saved \in Texts /\ ed.queued \in Texts \cup {None}
      /\ ed.attempt \in AttemptRec \cup {None} /\ ed.rev \in Revisions /\ ed.basis \in Revisions
      /\ ed.retries \in 0..MaxRetries
      /\ ed.recovery \in Drafts \cup {None} /\ ed.lastCached \in Drafts \cup {None}
      /\ ed.halted \in {None, "retryable", "final"}
      /\ ed.pending \in {"none", "start", "discard", "adopt"}
  BY <1>4, Before DEF EditorsTo, Pendings
<1>7. \A i \in DOMAIN ops :
        /\ ops[i].kind \in {"get", "put", "clear", "wipe"}
        /\ ops[i].draft \in Drafts \cup {None}
        /\ ops[i].kind = "put" <=> ops[i].draft # None
  <2> SUFFICES ASSUME NEW i \in DOMAIN ops
               PROVE  /\ ops[i].kind \in {"get", "put", "clear", "wipe"}
                      /\ ops[i].draft \in Drafts \cup {None}
                      /\ ops[i].kind = "put" <=> ops[i].draft # None
    OBVIOUS
  <2>1. ops \in Seq(BrowserOps) /\ OpFits(n, ops[i])
    BY Before DEF OpsFit
  <2>2. ops[i] \in BrowserOps
    BY <2>1
  <2>3. QED
    BY <1>4, <2>1, <2>2 DEF OpFits, BrowserOps
<1>8. \A q \in orphans : q.base \in Revisions
  BY <1>4, Before DEF RequestsFit, OrphansFit, OrphanFits
<1>9. QED
  BY <1>1, <1>2, <1>3, <1>5, <1>6, <1>7, <1>8 DEF TypeOK

\* The rows, the editor, its requests and the queue of browser operations keep
\* their shapes in DraftAutoSave (useDraftAutoSave.ts, draftAutoSaveCoordinator.ts).
THEOREM EditorTypeCorrect == Spec => []TypeOK
<1>1. IInv => TypeOK
  BY InvariantImpliesTypes
<1>2. QED
  BY <1>1, EditorStaysConsistent, PTL

\* design.md 40.5, 28.6: a text is only ever sent to replace a revision whose
\* text its author saw or chose to replace, whatever was kept in the browser.
THEOREM NothingOverwrittenBlindly == Spec => []NoBlindOverwrite
<1>1. IInv => NoBlindOverwrite
  BY Before DEF Fits, AttemptFits, NoBlindOverwrite
<1>2. QED
  BY <1>1, EditorStaysConsistent, PTL

LEMMA CleanMeansSaved ==
  ASSUME IInv, ed.usable, Clean(ed)
  PROVE  Canon[ed.current] = log[ed.rev] /\ ~ed.uncertain
BY Before DEF Fits, Flags, Frame, Clean

\* design.md 28.7: what the badge calls saved is the server's text at the
\* revision the next command names, and the newest one if nobody else wrote.
THEOREM SavedIsSaved == Spec => []SavedMeansSaved
<1>1. IInv => SavedMeansSaved
  <2> SUFFICES ASSUME IInv, ed.usable, ed.shown = "saved"
               PROVE  /\ Canon[ed.current] = log[ed.rev]
                      /\ Quiet(used, adopted) => Canon[ed.current] = log[Len(log)]
    BY DEF SavedMeansSaved, Quiet
  <2>1. Clean(ed)
    BY Before DEF Fits, Flags
  <2>2. Canon[ed.current] = log[ed.rev] /\ ~ed.uncertain /\ ed.attempt = None
    BY <2>1, CleanMeansSaved DEF Clean
  <2>3. Quiet(used, adopted) => ed.rev = Len(log)
    BY <2>2, Before DEF NewestFits
  <2>4. QED
    BY <2>2, <2>3
<1>2. QED
  BY <1>1, EditorStaysConsistent, PTL

\* design.md 28.7: a goal starts with the text on the screen when its start
\* was asked for: the start names a revision that is saved here.
THEOREM StartsAsShown == Spec => []StartsWhatWasShown
<1>1. IInv => StartsWhatWasShown
  <2> SUFFICES ASSUME IInv, ending # None, ending.by = "start", ending.mount = ed.mount,
                      ed.usable, ed.pending = "start"
               PROVE  Canon[ed.current] = log[Len(log)]
    BY DEF StartsWhatWasShown
  <2>1. ending.base = Len(log) /\ ending.base <= ed.rev
    BY Before DEF RequestsFit, EndingFits
  <2>2. ed.rev \in 1..Len(log) /\ Len(log) \in Nat
    BY Before DEF EditorsTo
  <2>3. ed.rev = Len(log)
    BY <2>1, <2>2
  <2>4. Clean(ed)
    BY Before DEF Fits, Flags
  <2>5. QED
    BY <2>3, <2>4, CleanMeansSaved
<1>2. QED
  BY <1>1, EditorStaysConsistent, PTL

\* design.md 28.5, 40.5: while the server may not have the text, the browser has
\* it or is about to, or the user was warned; a queue that is left ends with it.
THEOREM UnsavedTextIsKept == Spec => []UnsavedIsKept
<1>1. IInv => UnsavedIsKept
  <2> SUFFICES ASSUME IInv, ed.usable, ~Settled(ed), ed.mounted \/ used.faults = 0
               PROVE  \/ BeingKept
                      \/ cache # None /\ cache.text = ed.current
                      \/ ed.mounted /\ (ed.warned \/ ed.persistTimer)
    BY DEF UnsavedIsKept
  <2>1. \/ OnDisk(ed, ops, cache)
        \/ ed.mounted /\ (ed.warned \/ ed.persistTimer)
    BY Before DEF KeptFits
  <2>2. CASE OnDisk(ed, ops, cache) /\ ops # <<>>
    <3>1. ops \in Seq(BrowserOps)
      BY Before DEF OpsFit
    <3>2. Len(ops) \in DOMAIN ops
      <4>1. Len(ops) \in Nat /\ Len(ops) # 0 /\ DOMAIN ops = 1..Len(ops)
        BY <2>2, <3>1, EmptySeq
      <4>2. QED
        BY <4>1
    <3>3. BeingKept
      BY <2>2, <3>2 DEF OnDisk, BeingKept
    <3>4. QED
      BY <3>3
  <2>3. CASE OnDisk(ed, ops, cache) /\ ops = <<>>
    BY <2>3 DEF OnDisk
  <2>4. QED
    BY <2>1, <2>2, <2>3
<1>2. QED
  BY <1>1, EditorStaysConsistent, PTL

\* design.md 28.5: after the cleanup of a start or a discard nothing brings the
\* browser's record back.
THEOREM RecordStaysDeleted == Spec => []CleanedUpForGood
<1>1. IInv => CleanedUpForGood
  BY Before DEF BrowserFits, CleanedUpForGood
<1>2. QED
  BY <1>1, EditorStaysConsistent, PTL

-----------------------------------------------------------------------------
(***************************************************************************)
(* What a step may do to the text on the screen                            *)
(***************************************************************************)
TextFollows ==
    ed'.mount = ed.mount /\ ed'.current # ed.current =>
      \/ ed'.inputs > ed.inputs
      \/ ed.recovery # None
      \/ ed.hydrating
      \/ ed.pending = "adopt"
      \/ Canon[ed.current] = ed'.current

LEMMA QueueTexts ==
  ASSUME IInv, SaveTimerFires \/ PersistTimerFires \/ PageHidden \/ Blur
  PROVE  TextFollows
<1>1. CASE SaveTimerFires
  <2> DEFINE s == [ed EXCEPT !.saveTimer = FALSE]
  <2>1. Fits(log, s) /\ Alike(ed, s)
    BY Before, TimersFit
  <2>2. ed' = Pumped(s)
    BY <1>1 DEF SaveTimerFires
  <2> HIDE DEF s
  <2>3. Pumping(s, ed')
    BY <2>1, <2>2, Before, PumpedFits
  <2>4. QED
    BY <2>1, <2>3 DEF Alike, Pumping, TextFollows
<1>2. CASE PersistTimerFires \/ PageHidden
  <2> DEFINE g == [ed EXCEPT !.persistTimer = FALSE]
  <2>1. Alike(ed, g)
    BY Before, TimersFit
  <2>2. ed' = g
    BY <1>2 DEF PersistTimerFires, PageHidden
  <2> HIDE DEF g
  <2>3. QED
    BY <2>1, <2>2 DEF Alike, TextFollows
<1>3. CASE Blur
  <2>1. Alike(ed, Scheduled(ed))
    BY Before, ScheduledIs
  <2>2. ed' = ed \/ ed' = Scheduled(ed)
    BY <1>3 DEF Blur
  <2>3. QED
    BY <2>1, <2>2 DEF Alike, TextFollows
<1>4. QED
  BY <1>1, <1>2, <1>3

LEMMA AnswerTexts ==
  ASSUME IInv, SaveSucceeds \/ SaveConflicts \/ SaveFindsNoDraft \/ SaveFails
  PROVE  TextFollows
<1>1. CASE SaveSucceeds
  <2> DEFINE f == Acknowledged(ed, ed.attempt.rev)
  <2>1. ed' = f /\ ed.attempt # None /\ ed.attempt.stage = "ok"
    BY <1>1 DEF SaveSucceeds, Waits
  <2>2. f.current # ed.current => f.current = Canon[ed.current]
    BY <2>1, Before, AcknowledgedFits
  <2> HIDE DEF f
  <2>3. QED
    BY <2>1, <2>2 DEF TextFollows
<1>2. CASE SaveConflicts
  <2> DEFINE f == Handled(InConflict(ed))
             g == Resolves(InConflict(ed))
  <2>1. (ed' = f \/ ed' = g) /\ ed.attempt # None /\ ed.attempt.stage = "conflict"
    BY <1>2 DEF SaveConflicts, Waits, InConflict, ConflictOf, Resolves
  <2>2. f.current = ed.current /\ g.current = ed.current
    BY <2>1, Before, ConflictFits
  <2> HIDE DEF f, g
  <2>3. QED
    BY <2>1, <2>2 DEF TextFollows
<1>3. CASE SaveFindsNoDraft
  <2> DEFINE f == AttemptOver(Moved(ed))
  <2>1. ed' = Handled(Moved(ed)) /\ ed.attempt # None
    BY <1>3 DEF SaveFindsNoDraft, Waits
  <2>2. ed.usable /\ ~ed.hydrating /\ ed.recovery = None
    BY <2>1, Before DEF Fits, AttemptFits
  <2>3. f = Handled(Moved(ed)) /\ f.current = ed.current
    BY <2>1, <2>2, Before, MovedFits
  <2> HIDE DEF f
  <2>4. QED
    BY <2>1, <2>3 DEF TextFollows
<1>4. CASE SaveFails
  <2>1. PICK refused \in BOOLEAN : ed' = Fails(ed, ed.uncertain \/ ~refused)
    BY <1>4 DEF SaveFails, Fails
  <2>2. ed.attempt # None /\ ed.attempt.stage # "resolving"
    BY <1>4 DEF SaveFails
  <2> DEFINE u == ed.uncertain \/ ~refused
             f == Fails(ed, u)
  <2>3. u \in BOOLEAN
    OBVIOUS
  <2> HIDE DEF u
  <2>4. f.current = ed.current
    BY <2>2, <2>3, Before, FailedFits
  <2>5. ed' = f
    BY <2>1 DEF u
  <2> HIDE DEF f
  <2>6. QED
    BY <2>4, <2>5 DEF TextFollows
<1>5. QED
  BY <1>1, <1>2, <1>3, <1>4

LEMMA ServedTexts ==
  ASSUME IInv, ServeSave
  PROVE  TextFollows
<1>1. PICK k \in {"ok", "conflict", "gone"} :
        ed' = [ed EXCEPT !.attempt.stage = k, !.attempt.rev = IF k = "ok" THEN Len(log') ELSE 0]
  BY DEF ServeSave
<1>2. ed \in EditorsTo(Len(log))
  BY Before
<1>3. ed'.current = ed.current
  BY <1>1, <1>2 DEF EditorsTo
<1>4. QED
  BY <1>3 DEF TextFollows

LEMMA LoadTexts ==
  ASSUME IInv, LoadArrives \/ LoadFails
  PROVE  TextFollows
<1>1. CASE LoadFails
  <2> DEFINE f == AttemptOver([ed EXCEPT !.resolving = FALSE])
  <2>1. load # None /\ ed' = f
    BY <1>1 DEF LoadFails
  <2>2. ed.usable /\ ed.conflict # None
    BY <2>1, LoadMeans
  <2>3. f.current = ed.current
    BY <2>2, Before, LookFailsFits
  <2> HIDE DEF f
  <2>4. QED
    BY <2>1, <2>3 DEF TextFollows
<1>2. CASE LoadArrives
  <2> DEFINE r == IF home > load.rev THEN home ELSE load.rev
             found == load.rev # 0 /\ home # 0
             f == AttemptOver(Resolved(ed, r))
             g == AttemptOver(Moved(ed))
  <2>1. load # None
    BY <1>2 DEF LoadArrives
  <2>2. /\ ed.usable /\ ed.conflict # None /\ ed.recovery = None /\ ~ed.hydrating
        /\ load.rev \in 0..Len(log)
    BY <2>1, LoadMeans
  <2>3. ed' = IF found THEN f ELSE g
    BY <1>2 DEF LoadArrives
  <2>4. g.current = ed.current
    BY <2>2, Before, MovedFits
  <2>5. home \in 0..Len(log) /\ Len(log) \in Nat
    BY Before DEF StoreFits
  <2>6. found => r \in 1..Len(log)
    BY <2>2, <2>5
  <2> HIDE DEF r
  <2>7. found => f.current = ed.current
    BY <2>2, <2>6, Before, ResolvedFits
  <2> HIDE DEF f, g, found
  <2>8. QED
    BY <2>3, <2>4, <2>7 DEF TextFollows
<1>3. QED
  BY <1>1, <1>2

LEMMA WrittenTexts ==
  ASSUME IInv, NEW then \in Tails, NEW b \in DraftsTo(Len(log)) \cup {None},
         ed' = AfterPersist(Warned([ed EXCEPT !.lastCached = b], FALSE), then)
  PROVE  TextFollows
<1> DEFINE e1 == [ed EXCEPT !.lastCached = b]
           e2 == Warned(e1, FALSE)
           f == AfterPersist(e2, then)
<1>1. IsRecalled(log, ed, e1)
  BY Before, RecallsFits, Zenon
<1>2. ed' = f
  OBVIOUS
<1>3. Fits(log, e1) /\ e1.current = ed.current
  BY <1>1 DEF IsRecalled
<1> HIDE DEF e1
<1>4. Fits(log, e2) /\ e2.current = e1.current
  BY <1>3, WarnedFits DEF SameText
<1> HIDE DEF e2
<1>5. f.current = e2.current
  BY <1>4, AfterPersistFits DEF SameText
<1> HIDE DEF f
<1>6. QED
  BY <1>2, <1>3, <1>4, <1>5 DEF TextFollows

LEMMA BrowserTexts ==
  ASSUME IInv, BrowserOpDone \/ BrowserOpFails
  PROVE  TextFollows
<1> DEFINE op == Head(ops)
<1>1. ops # <<>>
  BY DEF BrowserOpDone, BrowserOpFails
<1>2. op \in BrowserOps /\ OpFits(Len(log), op) /\ (op.kind = "get" => ed.hydrating)
  BY <1>1, Before, TailFits
<1>3. op.then \in Tails /\ op.draft \in DraftsTo(Len(log)) \cup {None} /\ NoTail \in Tails
  BY <1>2, SavedIsTail DEF BrowserOps, OpFits
<1>4. CASE op.kind = "get"
  BY <1>2, <1>4 DEF TextFollows
<1>5. CASE BrowserOpDone /\ op.kind # "get"
  <2>1. PICK b \in {op.draft, None}, then \in {op.then, NoTail} :
          ed' = AfterPersist(Warned([ed EXCEPT !.lastCached = b], FALSE), then)
    <3>1. CASE op.kind = "wipe"
      <4>1. ed' = AfterPersist(Warned([ed EXCEPT !.lastCached = None], FALSE), NoTail)
        BY <1>5, <3>1 DEF BrowserOpDone, AfterPersist, NoTail
      <4>2. QED
        BY <4>1
    <3>2. CASE op.kind # "wipe"
      BY <1>5, <3>2 DEF BrowserOpDone
    <3>3. QED
      BY <3>1, <3>2
  <2>2. b \in DraftsTo(Len(log)) \cup {None} /\ then \in Tails
    BY <1>3
  <2>3. QED
    BY <2>1, <2>2, WrittenTexts
<1>6. CASE BrowserOpFails /\ op.kind # "get"
  <2> DEFINE w == Warned(ed, TRUE)
             f == AfterPersist(w, op.then)
  <2>1. ed' = f
    BY <1>6 DEF BrowserOpFails
  <2>2. Fits(log, w) /\ w.current = ed.current
    BY Before, WarnedFits DEF SameText
  <2> HIDE DEF w
  <2>3. f.current = w.current
    BY <1>3, <2>2, AfterPersistFits DEF SameText
  <2> HIDE DEF f
  <2>4. QED
    BY <2>1, <2>2, <2>3 DEF TextFollows
<1>7. QED
  BY <1>4, <1>5, <1>6

LEMMA TypedTexts ==
  ASSUME IInv, NEW t \in Texts, Type(t)
  PROVE  TextFollows
<1> DEFINE f == Edited(ed, t)
<1>1. ed' = f /\ ed.usable /\ ~Blocked(ed) /\ ed.pending = "none"
  BY DEF Type, Writable
<1>2. f.inputs > ed.inputs
  BY <1>1, Before, EditedFits
<1> HIDE DEF f
<1>3. QED
  BY <1>1, <1>2 DEF TextFollows

LEMMA RetryTexts ==
  ASSUME IInv, Retry \/ Online
  PROVE  TextFollows
<1> DEFINE f == Scheduled(Refreshed(Restarted(ed)))
           b == ed.resolving \/ ed.mounted
           g == Looking(ed, b)
<1>1. ed' = f \/ ed' = g
  BY DEF Retry, Online, SendAgain, LookAgain, AskLatest, Looking
<1>2. f.current = ed.current
  BY Before, SendAgainFits DEF Alike
<1>3. b \in BOOLEAN
  OBVIOUS
<1> HIDE DEF b
<1>4. g.current = ed.current
  BY <1>3, Before, LookingFits
<1> HIDE DEF f, g
<1>5. QED
  BY <1>1, <1>2, <1>4 DEF TextFollows

LEMMA ChosenTexts ==
  ASSUME RestoreRecovery \/ DiscardRecovery
  PROVE  TextFollows
BY DEF RestoreRecovery, DiscardRecovery, ChoosingIn, TextFollows

LEMMA InvokedTexts ==
  ASSUME IInv, Start \/ Discard \/ Adopt
  PROVE  TextFollows
<1>1. PICK k \in {"start", "discard", "adopt"} : Invoke(k) /\ (k \in {"start", "adopt"} => ed.shown = "saved")
  BY DEF Start, Startable, Discard, Adopt
<1> DEFINE f == Invoked(ed, k)
<1>2. ed' = f
  BY <1>1 DEF Invoke, Invoked
<1>3. k \in {"start", "adopt"} => Clean(ed)
  BY <1>1, Before DEF Fits, Flags
<1>4. f.current = ed.current
  <2>1. Fits(log, ed)
    BY Before
  <2>2. IsInvoked(log, ed, k, f)
    BY <1>3, <2>1, InvokedFits
  <2>3. QED
    BY <2>2 DEF IsInvoked, SameText
<1> HIDE DEF f
<1>5. QED
  BY <1>2, <1>4 DEF TextFollows

LEMMA CommandTexts ==
  ASSUME IInv, CommandSucceeds \/ CommandRefused \/ CommandLost
  PROVE  TextFollows
<1>1. CASE CommandSucceeds
  <2>1. cmd # None
    BY <1>1 DEF CommandSucceeds
  <2>2. cmd.kind = ed.pending
    BY <2>1, Before DEF CmdFits
  <2>3. cmd.kind = "adopt" \/ ed' = ed
    BY <1>1 DEF CommandSucceeds
  <2>4. QED
    BY <2>2, <2>3 DEF TextFollows
<1>2. CASE CommandRefused \/ CommandLost
  <2> DEFINE f == Resumed(ed)
             g == [ed EXCEPT !.pending = "none"]
  <2>1. ed' = ed \/ ed' = f \/ ed' = g
    BY <1>2 DEF CommandRefused, CommandLost, GiveUpCommand
  <2>2. f.current = ed.current /\ g.current = ed.current
    BY Before, ResumedFits DEF SameText
  <2> HIDE DEF f, g
  <2>3. QED
    BY <2>1, <2>2 DEF TextFollows
<1>3. QED
  BY <1>1, <1>2

LEMMA LeftTexts ==
  ASSUME IInv, CleanupQuiesces \/ SessionChanges \/ Leave \/ HomeRefetched \/ Mount \/ Reload
  PROVE  TextFollows
<1>1. CASE Mount
  <2> DEFINE f == NewEditor(home, used.mounts + 1)
  <2>1. ed' = f
    BY <1>1 DEF Mount
  <2>2. f.mount = used.mounts + 1
    BY DEF NewEditor
  <2>3. ed.mount \in Nat /\ used.mounts \in Nat /\ ed.mount <= used.mounts
    BY Before DEF EditorsTo, StoreFits, Counts, RequestsFit
  <2> HIDE DEF f
  <2>4. QED
    BY <2>1, <2>2, <2>3 DEF TextFollows
<1>2. CASE ~Mount
  <2> DEFINE f == Quiesced(ed)
             g == Detached(ed)
  <2>1. ed' = ed \/ ed' = f \/ ed' = g
    BY <1>2 DEF CleanupQuiesces, SessionChanges, Quiesce, Leave, HomeRefetched, Reload
  <2>2. f.current = ed.current /\ g.current = ed.current
    BY Before, QuiescedFits, DetachedFits
  <2> HIDE DEF f, g
  <2>3. QED
    BY <2>1, <2>2 DEF TextFollows
<1>3. QED
  BY <1>1, <1>2

LEMMA OtherTexts ==
  ASSUME \/ ServeLoad \/ ServeCommand \/ CleanupDeletes \/ OtherEnds
         \/ \E t \in Texts : OtherSaves(t)
         \/ \E q \in orphans : ServeOrphan(q)
         \/ UNCHANGED vars
  PROVE  TextFollows
<1>1. ed' = ed
  BY DEF ServeLoad, ServeCommand, CleanupDeletes, OtherEnds, OtherSaves, ServeOrphan, vars
<1>2. QED
  BY <1>1 DEF TextFollows

\* design.md 40.5: no answer, timer, queued operation or change of another
\* device replaces what the user typed. The text on the screen changes by
\* typing, by a choice, as the editor opens, by adopting a suggestion, or to
\* the form in which the server stored it.
THEOREM TypedTextIsKept == Spec => TypedTextStays
<1>1. IInv /\ [Next]_vars => [TextFollows]_vars
  <2> SUFFICES ASSUME IInv, [Next]_vars PROVE TextFollows
    OBVIOUS
  <2>1. CASE Scheduler
    BY <2>1, QueueTexts, BrowserTexts, ServedTexts, AnswerTexts, OtherTexts, LoadTexts,
       CommandTexts, LeftTexts DEF Scheduler
  <2>2. CASE Environment
    BY <2>2, OtherTexts, AnswerTexts, LoadTexts, BrowserTexts, CommandTexts DEF Environment
  <2>3. CASE User
    BY <2>3, TypedTexts, QueueTexts, RetryTexts, ChosenTexts, InvokedTexts, LeftTexts DEF User
  <2>4. CASE UNCHANGED vars
    BY <2>4, OtherTexts
  <2>5. QED
    BY <2>1, <2>2, <2>3, <2>4 DEF Next
<1>2. (Spec => [][TextFollows]_vars) <=> (Spec => TypedTextStays)
  BY DEF TextFollows, TypedTextStays
<1>3. Spec => [][TextFollows]_vars
  BY EditorStaysConsistent, <1>1, PTL DEF Spec
<1>4. QED
  BY <1>2, <1>3

=============================================================================
