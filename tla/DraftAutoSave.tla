----------------------------- MODULE DraftAutoSave -----------------------------
(***************************************************************************)
(* The editor of a goal creation draft in one browser tab: the autosave    *)
(* coordinator and its hook, the browser's copy of unsaved text, the       *)
(* commands that end or replace the draft, and the cleanup that follows a  *)
(* committed command, against the server and the user's other devices.     *)
(*                                                                         *)
(* JavaScript runs to completion between awaits, so a step is what happens *)
(* between two of them. Requests, answers, timers and operations on the    *)
(* browser database are separate steps in any order the code leaves open;  *)
(* how long a timer waits is abstracted: one that is set may fire.         *)
(*                                                                         *)
(* A snapshot of the draft is named by its revision: log[r] is the text    *)
(* the server stored at revision r. The coordinator is used with its only  *)
(* key, so blockedKeys, retryKey and halted.key reduce to one editor.      *)
(***************************************************************************)
EXTENDS Naturals, Sequences

CONSTANTS
    Texts,
    Canon,          \* Texts -> Texts: what the server stores for a text
    Blank,          \* the text of a new draft
    Suggestion,     \* the text the AI proposed
    None,
    MaxRetries,     \* automatic retries in a row; the code has 5
    Limits          \* bounds: the combinations of edits, changes from other
                    \* devices, faults, editors opened one after the other and
                    \* queued browser operations that are looked at

ASSUME Canonical ==
    /\ Canon \in [Texts -> Texts]
    /\ \A t \in Texts : Canon[Canon[t]] = Canon[t]
    /\ Blank \in Texts /\ Canon[Blank] = Blank
    /\ Suggestion \in Texts /\ Canon[Suggestion] = Suggestion

\* None differs from every text and every record that can stand in its place.
ASSUME NoneIsApart ==
    /\ None \notin Texts
    /\ None \notin [text : Texts, base : Nat]
    /\ None \notin [text : Texts, base : Nat, basis : Nat]
    /\ None \notin [text : Texts, base : Nat, basis : Nat, inputs : Nat, rev : Nat,
                    stage : {"sent", "ok", "conflict", "gone", "resolving"}]

ASSUME RetriesAreCounted == MaxRetries \in Nat

VARIABLES
    log,        \* the server's texts of the draft, by revision
    ending,     \* None, or the command that removed the draft from the server
    adopted,    \* the revision that took the suggestion over, 0 before
    orphans,    \* requests whose sender stopped waiting, still to be served
    ed,         \* the editor: coordinator and hook
    load,       \* the request for the latest draft that follows a conflict
    cmd,        \* the command the editor waits for
    cleanup,    \* the cleanup after a committed command
    home,       \* the query cache: the revision it holds, 0 without a draft
    cache,      \* the browser database's record of the draft
    ops,        \* the queue of operations on it
    used        \* how much of each bound is used, and the late changes of orphans

server == <<log, ending, adopted>>
vars == <<log, ending, adopted, orphans, ed, load, cmd, cleanup, home, cache, ops, used>>

Revisions == 1..Len(log)
Latest == IF ending = None THEN Len(log) ELSE 0

\* A BrowserDraft. basis is a history field: the newest server text the
\* user had seen, or had chosen to replace, when the text was typed.
Drafts == [text : Texts, base : Revisions, basis : Revisions]

\* What the awaited end of a persistence operation still has to do.
Tails == {[kind |-> "none"], [kind |-> "saved"]}
            \cup [kind : {"failed"}, inputs : Nat, retryable : BOOLEAN]

Op(kind, draft, then) == [kind |-> kind, draft |-> draft, then |-> then]
NoTail == [kind |-> "none"]

(***************************************************************************)
(* The coordinator and the hook as functions of the editor's record.       *)
(***************************************************************************)
NewEditor(r, n) ==
    [mounted |-> TRUE, usable |-> TRUE, mount |-> n, pending |-> "none",
     saved |-> log[r], current |-> log[r], queued |-> None, uncertain |-> FALSE,
     hydrating |-> TRUE, halted |-> None, waiting |-> FALSE, retries |-> 0,
     inputs |-> 0, saveTimer |-> FALSE, persistTimer |-> FALSE,
     attempt |-> None, shown |-> "saving", rev |-> r, basis |-> r,
     conflict |-> None, recovery |-> None, resolving |-> FALSE,
     lastCached |-> None, moved |-> FALSE, warned |-> FALSE, offered |-> TRUE]

Paused(e) == e.moved \/ e.pending \in {"start", "discard"}
Blocked(e) == e.moved \/ e.conflict # None
Savable(e) == e.queued # None /\ ~Blocked(e)
Settled(e) == ~Blocked(e) /\ e.queued = None /\ e.attempt = None
ActiveScope(e) == e.usable /\ ~e.moved

\* What the save badge shows, refreshed where the code calls refreshState.
Refreshed(e) ==
    [e EXCEPT !.shown =
        IF e.hydrating THEN "saving"
        ELSE IF Blocked(e) \/ e.halted # None THEN "failed"
        ELSE IF e.attempt # None THEN "saving"
        ELSE IF e.queued # None THEN "dirty" ELSE "saved"]

\* Mutant: a lost answer is taken for a save that did not happen.
ReconciledSurely(e) ==
    LET sent == IF e.attempt # None THEN e.attempt.text ELSE e.saved
    IN  [e EXCEPT !.queued = IF e.current = sent THEN None ELSE e.current]

\* reconcileKey: the text to send next, if any.
Reconciled(e) ==
    LET sent == IF e.attempt # None THEN e.attempt.text ELSE e.saved
        same == e.current = sent /\ (e.attempt # None \/ ~e.uncertain)
    IN  [e EXCEPT !.queued = IF same THEN None ELSE e.current]

MaySend(e) == /\ ~e.hydrating /\ ~Paused(e) /\ e.usable
              /\ e.halted = None /\ e.attempt = None

\* Mutant: a retry delay that is over is still waited for.
ScheduledOnce(e) ==
    IF e.waiting THEN e ELSE [e EXCEPT !.saveTimer = MaySend(e) /\ Savable(e)]

Scheduled(e) ==
    IF e.waiting /\ e.saveTimer THEN e
    ELSE [e EXCEPT !.saveTimer = MaySend(e) /\ Savable(e)]

\* schedulePersistence: markScopeMoved turned persistence off.
PersistSoon(e) == [e EXCEPT !.persistTimer = ~e.moved]

\* halted, the retry count and the retry delay are given up together.
Restarted(e) == [e EXCEPT !.halted = None, !.retries = 0, !.waiting = FALSE]

\* Mutant: an edit is not kept in the browser until it is sent.
EditedInMemory(e, t) ==
    Scheduled(Refreshed(Reconciled(
        [Restarted(e) EXCEPT !.current = t, !.inputs = @ + 1])))

Edited(e, t) ==
    Scheduled(Refreshed(PersistSoon(Reconciled(
        [Restarted(e) EXCEPT !.current = t, !.inputs = @ + 1]))))

Rebased(e, t) ==
    Refreshed(PersistSoon(Reconciled([e EXCEPT !.saved = t, !.uncertain = FALSE])))

Unblocked(e) == Scheduled(Refreshed(PersistSoon(Reconciled(Restarted(e)))))

BlockedWith(e, t) ==
    Refreshed(PersistSoon(
        [Restarted(e) EXCEPT !.current = t, !.queued = t, !.saveTimer = FALSE]))

Synchronized(e, t) ==
    Refreshed(PersistSoon(
        [Restarted(e) EXCEPT !.saved = t, !.current = t, !.queued = None,
                             !.uncertain = FALSE, !.saveTimer = FALSE]))

\* persistCurrent: keep the unsaved text, or drop the record of a saved one.
DraftOf(e) ==
    [text |-> e.current, basis |-> e.basis,
     base |-> IF e.conflict # None THEN e.conflict.base ELSE e.rev]
PersistOp(e, then) ==
    IF Settled(e) THEN Op("clear", None, then) ELSE Op("put", DraftOf(e), then)

\* pump: take the queued text and send it against the revision last seen.
Pumped(e) ==
    IF ~MaySend(e) THEN e
    ELSE IF ~Savable(e) THEN Refreshed(e)
    ELSE Refreshed(
        [e EXCEPT !.queued = None,
                  !.attempt = [text |-> e.queued, base |-> e.rev, basis |-> e.basis,
                               inputs |-> e.inputs, stage |-> "sent", rev |-> 0]])

\* The end of an attempt whose error the hook handled.
Handled(e) ==
    Scheduled(Refreshed([e EXCEPT !.attempt = None, !.retries = 0, !.waiting = FALSE]))

\* The end of an attempt, after its persistence operation.
AfterPersist(e, then) ==
    CASE then.kind = "none" -> e
      [] then.kind = "saved" -> Scheduled(Refreshed(e))
      [] then.kind = "failed" ->
            IF e.inputs # then.inputs
            THEN Scheduled(Refreshed([e EXCEPT !.retries = 0, !.waiting = FALSE]))
            ELSE IF then.retryable /\ e.retries < MaxRetries
            THEN Scheduled(Refreshed([e EXCEPT !.retries = @ + 1, !.waiting = TRUE]))
            ELSE Refreshed([e EXCEPT !.waiting = FALSE,
                    !.halted = IF then.retryable THEN "retryable" ELSE "final"])

\* Mutant: the saved text replaces what was typed during the save.
AcknowledgedOver(e, r) ==
    [Restarted(e) EXCEPT
        !.saved = log[r], !.uncertain = FALSE, !.attempt = None, !.queued = None,
        !.rev = r, !.basis = r, !.current = log[r]]

\* Mutant: the browser counts revisions itself.
AcknowledgedByCount(e, r) ==
    Reconciled(
        [Restarted(e) EXCEPT
            !.saved = log[r], !.uncertain = FALSE, !.attempt = None,
            !.rev = e.attempt.base + 1, !.basis = e.attempt.base + 1,
            !.current = IF e.current = e.attempt.text THEN log[r] ELSE @])

\* A successful answer: revision r holds the canonical form of what was sent.
Acknowledged(e, r) ==
    Reconciled(
        [Restarted(e) EXCEPT
            !.saved = log[r], !.uncertain = FALSE, !.attempt = None,
            !.rev = r, !.basis = r,
            !.current = IF e.current = e.attempt.text THEN log[r] ELSE @])

\* markScopeMoved: the draft is gone; the text stays on screen and on disk.
Moved(e) ==
    Refreshed([Restarted(e) EXCEPT
        !.moved = TRUE, !.conflict = None, !.recovery = None, !.resolving = FALSE,
        !.queued = e.current, !.saveTimer = FALSE, !.persistTimer = FALSE])
MovedOps(e) == <<Op("put", DraftOf(e), NoTail)>>

\* resolveRevisionConflict once the latest revision r is known. Only the
\* branch that offers a choice leaves conflictSnapshotRef in place, and only
\* then does the finally block end "resolving".
Converged(e, r) ==
    Unblocked([Rebased([e EXCEPT !.rev = r], log[r])
                EXCEPT !.conflict = None, !.recovery = None, !.basis = r])
OfferedChoice(e, r) ==
    LET choice == [DraftOf(e) EXCEPT !.base = e.conflict.base]
    IN  BlockedWith([Rebased([e EXCEPT !.rev = r], log[r])
            EXCEPT !.recovery = choice, !.lastCached = choice, !.resolving = FALSE],
            e.current)
Resolved(e, r) ==
    IF Canon[e.conflict.text] = log[r] THEN Converged(e, r) ELSE OfferedChoice(e, r)

\* detach: the route that shows the editor is left.
Detached(e) ==
    LET d == [e EXCEPT !.mounted = FALSE, !.persistTimer = FALSE,
                       !.saveTimer = e.waiting /\ @]
    IN  IF e.waiting THEN d ELSE Pumped(d)

DetachOps(e) ==
    IF e.usable /\ ~e.moved THEN <<PersistOp(e, NoTail)>> ELSE <<>>

\* quiesce: the scope is closed; what is in flight is aborted.
Quiesced(e) ==
    [e EXCEPT !.usable = FALSE, !.mounted = FALSE, !.attempt = None,
              !.saveTimer = FALSE, !.persistTimer = FALSE]

(***************************************************************************)
(* The server and the other devices                                        *)
(***************************************************************************)
\* SaveDraft: content that is already there is accepted at any revision.
ServerSaves(text, base, outcome) ==
    \/ /\ ending # None
       /\ outcome = "gone" /\ UNCHANGED server
    \/ /\ ending = None /\ log[Len(log)] = Canon[text]
       /\ outcome = "ok" /\ UNCHANGED server
    \/ /\ ending = None /\ log[Len(log)] # Canon[text] /\ base = Len(log)
       /\ outcome = "ok"
       /\ log' = Append(log, Canon[text]) /\ UNCHANGED <<ending, adopted>>
    \/ /\ ending = None /\ log[Len(log)] # Canon[text] /\ base # Len(log)
       /\ outcome = "conflict" /\ UNCHANGED server

\* A start is answered again to the operation id that committed it; the tab
\* keeps that id for the same request as long as the editor is mounted.
ServerStarts(base, mount, outcome) ==
    LET start == [by |-> "start", base |-> base, mount |-> mount] IN
    \/ /\ ending = None /\ base = Len(log)
       /\ outcome = "ok" /\ ending' = start /\ UNCHANGED <<log, adopted>>
    \/ /\ ending = start
       /\ outcome = "ok" /\ UNCHANGED server
    \/ /\ ending # start /\ (ending # None \/ base # Len(log))
       /\ outcome = "refused" /\ UNCHANGED server

ServerAbandons(base, mount, outcome) ==
    \/ /\ ending = None
       /\ outcome = "ok"
       /\ ending' = [by |-> "discard", base |-> base, mount |-> mount]
       /\ UNCHANGED <<log, adopted>>
    \/ ending # None /\ outcome = "refused" /\ UNCHANGED server

\* The suggestion was made for the text its adoption replaces. Adopting it
\* again answers the draft as long as it is still the adopted one.
ServerAdopts(base, outcome) ==
    \/ /\ ending = None /\ adopted = 0 /\ base = Len(log)
       /\ outcome = "ok" /\ log' = Append(log, Suggestion)
       /\ adopted' = Len(log) + 1 /\ UNCHANGED ending
    \/ /\ ending = None /\ adopted = Len(log)
       /\ outcome = "ok" /\ UNCHANGED server
    \/ /\ ending # None \/ (adopted # Len(log) /\ (adopted # 0 \/ base # Len(log)))
       /\ outcome = "refused" /\ UNCHANGED server

ServerRuns(c, outcome) ==
    \/ c.kind = "start" /\ ServerStarts(c.base, c.mount, outcome)
    \/ c.kind = "discard" /\ ServerAbandons(c.base, c.mount, outcome)
    \/ c.kind = "adopt" /\ ServerAdopts(c.base, outcome)

\* The events so far are within the bounds of l, and within some bounds there
\* is room for another event, or another queued browser operation.
Within(l) == /\ used.edits <= l.edits /\ used.others <= l.others
             /\ used.faults <= l.faults /\ used.mounts <= l.mounts
Room(what) == \E l \in Limits : used[what] < l[what] /\ Within(l)
RoomForOps == \E l \in Limits : Len(ops) < l.ops /\ Within(l)
Spend(what) == used' = [used EXCEPT ![what] = @ + 1]

OtherSaves(t) ==
    /\ Room("others")
    /\ ending = None /\ log[Len(log)] # Canon[t]
    /\ log' = Append(log, Canon[t])
    /\ Spend("others")
    /\ UNCHANGED <<ending, adopted, orphans, ed, load, cmd, cleanup, home, cache, ops>>

OtherEnds ==
    /\ Room("others")
    /\ ending = None
    /\ ending' = [by |-> "other", base |-> Len(log), mount |-> 0]
    /\ Spend("others")
    /\ UNCHANGED <<log, adopted, orphans, ed, load, cmd, cleanup, home, cache, ops>>

SaveRequest(a) == [kind |-> "save", text |-> a.text, base |-> a.base]
CommandRequest(c) == [kind |-> c.kind, base |-> c.base, mount |-> c.mount]

\* Requests that are on their way when their sender stops waiting.
LeftBehind ==
    {SaveRequest(a) : a \in {x \in {ed.attempt} \ {None} : x.stage = "sent"}}
      \cup {CommandRequest(c) : c \in {x \in {cmd} \ {None} : x.stage = "sent"}}

ServeOrphan(q) ==
    /\ q \in orphans
    /\ \E outcome \in {"ok", "conflict", "gone", "refused"} :
          \/ q.kind = "save" /\ ServerSaves(q.text, q.base, outcome)
          \/ q.kind # "save" /\ ServerRuns(q, outcome)
    /\ orphans' = orphans \ {q}
    /\ IF log' = log THEN UNCHANGED used ELSE Spend("late")
    /\ UNCHANGED <<ed, load, cmd, cleanup, home, cache, ops>>

(***************************************************************************)
(* The save of the queued text                                             *)
(***************************************************************************)
SaveTimerFires ==
    /\ ed.saveTimer
    /\ ed' = Pumped([ed EXCEPT !.saveTimer = FALSE])
    /\ UNCHANGED <<server, orphans, load, cmd, cleanup, home, cache, ops, used>>

Waits(stage) == ed.attempt # None /\ ed.attempt.stage = stage

ServeSave ==
    /\ Waits("sent")
    /\ \E outcome \in {"ok", "conflict", "gone"} :
          /\ ServerSaves(ed.attempt.text, ed.attempt.base, outcome)
          /\ ed' = [ed EXCEPT !.attempt.stage = outcome,
                              !.attempt.rev = IF outcome = "ok" THEN Len(log') ELSE 0]
    /\ UNCHANGED <<orphans, load, cmd, cleanup, home, cache, ops, used>>

SaveSucceeds ==
    /\ Waits("ok")
    /\ LET r == ed.attempt.rev
           e == Acknowledged(ed, r)
       IN  /\ ed' = e
           /\ ops' = Append(ops, PersistOp(e, [kind |-> "saved"]))
           /\ home' = IF home \in 1..r THEN r ELSE home
    /\ UNCHANGED <<server, orphans, load, cmd, cleanup, cache, used>>

AskLatest(e) == [e EXCEPT !.resolving = @ \/ e.mounted]

\* onError of a revision conflict: block the text, then look at the latest.
SaveConflicts ==
    /\ Waits("conflict")
    /\ LET a == ed.attempt
           e == BlockedWith([ed EXCEPT !.conflict = [text |-> a.text, base |-> a.base],
                                       !.recovery = None], ed.current)
       IN  IF ed.resolving
           THEN ed' = Handled(e) /\ UNCHANGED load
           ELSE /\ ed' = [AskLatest(e) EXCEPT !.attempt.stage = "resolving"]
                /\ load' = [stage |-> "asked", rev |-> 0]
    /\ UNCHANGED <<server, orphans, cmd, cleanup, home, cache, ops, used>>

SaveFindsNoDraft ==
    /\ Waits("gone")
    /\ ed' = Handled(Moved(ed))
    /\ ops' = ops \o MovedOps(ed)
    /\ UNCHANGED <<server, orphans, load, cmd, cleanup, home, cache, used>>

\* A request or its answer is lost, or the server fails or refuses it. Only
\* a refusal is certain to have changed nothing, and is not tried again.
SaveFails ==
    /\ ed.attempt # None /\ ed.attempt.stage # "resolving"
    /\ Room("faults")
    /\ Spend("faults")
    /\ \E refused \in BOOLEAN :
          /\ refused => Waits("sent")
          /\ orphans' = IF ~refused /\ Waits("sent")
                        THEN orphans \cup {SaveRequest(ed.attempt)} ELSE orphans
          /\ LET e == [ed EXCEPT !.attempt = None, !.queued = ed.current,
                                 !.uncertain = @ \/ ~refused]
             IN  /\ ed' = e
                 /\ ops' = Append(ops, PersistOp(e,
                      [kind |-> "failed", inputs |-> ed.attempt.inputs,
                       retryable |-> ~refused]))
    /\ UNCHANGED <<server, load, cmd, cleanup, home, cache>>

(***************************************************************************)
(* The latest draft after a conflict                                       *)
(***************************************************************************)
ServeLoad ==
    /\ load # None /\ load.stage = "asked"
    /\ load' = [stage |-> "read", rev |-> Latest]
    /\ UNCHANGED <<server, orphans, ed, cmd, cleanup, home, cache, ops, used>>

AttemptOver(e) == IF e.attempt # None THEN Handled(e) ELSE e

\* acceptLatest prefers a newer draft of the query cache; without one there,
\* or on the server, the draft has moved.
LoadArrives ==
    /\ load # None /\ load.stage = "read"
    /\ load' = None
    /\ LET r == IF home > load.rev THEN home ELSE load.rev
           found == load.rev # 0 /\ home # 0
       IN  IF found
           THEN /\ \E e \in {Resolved(ed, r)} : ed' = AttemptOver(e)
                /\ home' = r /\ UNCHANGED ops
           ELSE /\ ed' = AttemptOver(Moved(ed))
                /\ ops' = ops \o MovedOps(ed) /\ UNCHANGED home
    /\ UNCHANGED <<server, orphans, cmd, cleanup, cache, used>>

LoadFails ==
    /\ load # None
    /\ Room("faults")
    /\ Spend("faults")
    /\ load' = None
    /\ ed' = AttemptOver([ed EXCEPT !.resolving = FALSE])
    /\ UNCHANGED <<server, orphans, cmd, cleanup, home, cache, ops>>

(***************************************************************************)
(* The browser's copy of the unsaved text                                  *)
(***************************************************************************)
PersistTimerFires ==
    /\ ed.persistTimer
    /\ ed' = [ed EXCEPT !.persistTimer = FALSE]
    /\ ops' = Append(ops, PersistOp(ed, NoTail))
    /\ UNCHANGED <<server, orphans, load, cmd, cleanup, home, cache, used>>

\* onPersistenceStatus, heard only by a mounted editor of an open scope.
Warned(e, failed) == [e EXCEPT !.warned = IF e.mounted /\ e.usable THEN failed ELSE @]

Same(d, x) == d # None /\ x # None /\ d.text = x.text /\ d.base = x.base

\* What a cached draft becomes when the editor opens: nothing if the user
\* already typed, a choice if the server moved on, else the text to save.
FinishHydration(e) == Scheduled(Refreshed([e EXCEPT !.hydrating = FALSE]))
\* Mutant: the revision the kept text was based on is not compared.
RecoveredBlindly(e, d) ==
    IF d.text = e.saved THEN [e EXCEPT !.lastCached = d]
    ELSE Edited([e EXCEPT !.lastCached = d, !.basis = d.basis], d.text)

Recovered(e, d) ==
    IF d.base # e.rev
    THEN BlockedWith([e EXCEPT !.lastCached = d, !.recovery = d, !.basis = d.basis,
                         !.conflict = [text |-> d.text, base |-> d.base]], d.text)
    ELSE IF d.text = e.saved THEN [e EXCEPT !.lastCached = d]
    ELSE Edited([e EXCEPT !.lastCached = d, !.basis = d.basis], d.text)

Hydrate(d) ==
    LET ignored == d = None \/ ed.inputs > 0 \/ ed.moved \/ ~ed.usable \/ ~ed.mounted
        e == IF ignored THEN ed ELSE Recovered(ed, d)
        flushed == ~ignored /\ d.base = ed.rev /\ d.text = ed.saved
    IN  /\ ed' = FinishHydration(e)
        /\ ops' = Tail(ops) \o IF flushed THEN <<PersistOp(e, NoTail)>> ELSE <<>>

\* One operation at a time, in the order of the scope's queue.
BrowserOpDone ==
    /\ ops # <<>>
    /\ LET op == Head(ops) IN
          \/ /\ op.kind = "get"
             /\ Hydrate(cache) /\ UNCHANGED cache
          \/ /\ op.kind = "put"
             /\ cache' = op.draft
             /\ ed' = AfterPersist(Warned([ed EXCEPT !.lastCached = op.draft], FALSE), op.then)
             /\ ops' = Tail(ops)
          \/ /\ op.kind = "clear"
             /\ cache' = IF Same(cache, ed.lastCached) THEN None ELSE cache
             /\ ed' = AfterPersist(Warned([ed EXCEPT !.lastCached = None], FALSE), op.then)
             /\ ops' = Tail(ops)
          \/ /\ op.kind = "wipe"
             /\ cache' = None
             /\ ed' = Warned([ed EXCEPT !.lastCached = None], FALSE)
             /\ ops' = Tail(ops)
    /\ UNCHANGED <<server, orphans, load, cmd, cleanup, home, used>>

BrowserOpFails ==
    /\ ops # <<>>
    /\ Room("faults")
    /\ Spend("faults")
    /\ ops' = Tail(ops)
    /\ LET op == Head(ops)
           w == Warned(ed, TRUE)
       IN  ed' = IF op.kind = "get" THEN FinishHydration(w) ELSE AfterPersist(w, op.then)
    /\ UNCHANGED <<server, orphans, load, cmd, cleanup, home, cache>>

\* visibilitychange and pagehide: preserveDrafts.
PageHidden ==
    /\ ed.mounted /\ ed.usable /\ ~ed.moved /\ RoomForOps
    /\ ed.persistTimer \/ ~Settled(ed)
    /\ ed' = [ed EXCEPT !.persistTimer = FALSE]
    /\ ops' = Append(ops, PersistOp(ed, NoTail))
    /\ UNCHANGED <<server, orphans, load, cmd, cleanup, home, cache, used>>

(***************************************************************************)
(* The user                                                                *)
(***************************************************************************)
Writable == /\ ed.mounted /\ ed.usable /\ ~Blocked(ed) /\ ed.pending = "none"
            /\ cleanup = "none"

Type(t) ==
    /\ Writable /\ t # ed.current
    /\ Room("edits")
    /\ Spend("edits")
    /\ ed' = Edited(ed, t)
    /\ UNCHANGED <<server, orphans, load, cmd, cleanup, home, cache, ops>>

\* flush: keep the text now, and send it without the debounce.
Blur ==
    /\ ed.mounted /\ ed.usable /\ ~ed.moved /\ cleanup = "none" /\ RoomForOps
    /\ ops' = Append(ops, PersistOp(ed, NoTail))
    /\ ed' = IF Paused(ed) \/ ed.halted # None THEN ed ELSE Scheduled(ed)
    /\ UNCHANGED <<server, orphans, load, cmd, cleanup, home, cache, used>>

\* A conflict without a choice is looked at again; the stale text is not sent.
LookAgain ==
    /\ ed.conflict # None /\ ed.recovery = None
    /\ ~ed.resolving /\ load = None
    /\ ed' = AskLatest(ed)
    /\ load' = [stage |-> "asked", rev |-> 0]

SendAgain ==
    /\ ed.conflict = None /\ ~Paused(ed) /\ Savable(ed)
    /\ ed' = Scheduled(Refreshed(Restarted(ed)))
    /\ UNCHANGED load

\* The button of the save badge, and the browser's online event.
Retry ==
    /\ ed.mounted /\ ed.usable /\ ~ed.moved /\ cleanup = "none"
    /\ ed.shown = "failed" /\ ~ed.resolving /\ ed.recovery = None
    /\ LookAgain \/ SendAgain
    /\ UNCHANGED <<server, orphans, cmd, cleanup, home, cache, ops, used>>

Online ==
    /\ ed.mounted /\ ed.usable /\ ~ed.moved
    /\ \/ LookAgain
       \/ (ed.waiting \/ ed.halted = "retryable") /\ SendAgain
    /\ UNCHANGED <<server, orphans, cmd, cleanup, home, cache, ops, used>>

ChoosingIn(e) == e.mounted /\ e.usable /\ e.recovery # None /\ cleanup = "none"

RestoreRecovery ==
    /\ ChoosingIn(ed)
    /\ ed' = Unblocked([ed EXCEPT !.conflict = None, !.recovery = None,
                                  !.resolving = FALSE, !.basis = ed.rev])
    /\ UNCHANGED <<server, orphans, load, cmd, cleanup, home, cache, ops, used>>

DiscardRecovery ==
    /\ ChoosingIn(ed)
    /\ ed' = Synchronized([ed EXCEPT !.conflict = None, !.recovery = None,
                                     !.resolving = FALSE, !.basis = ed.rev], ed.saved)
    /\ ops' = Append(ops, Op("wipe", None, NoTail))
    /\ UNCHANGED <<server, orphans, load, cmd, cleanup, home, cache, used>>

(***************************************************************************)
(* Commands on the draft                                                   *)
(***************************************************************************)
Ready(e) == /\ e.mounted /\ e.usable /\ e.pending = "none" /\ cleanup = "none"
            /\ ~e.hydrating /\ ~e.moved

Invoke(kind) ==
    /\ cmd = None
    /\ cmd' = [kind |-> kind, base |-> ed.rev, mount |-> ed.mount, stage |-> "sent"]
    /\ ed' = Refreshed([ed EXCEPT !.pending = kind,
                                  !.saveTimer = @ /\ kind = "adopt"])
    /\ UNCHANGED <<server, orphans, load, cleanup, home, cache, ops, used>>

\* Mutant: a draft that is not saved yet can be started.
StartableUnsaved(e) == /\ Ready(e) /\ ~e.resolving /\ e.recovery = None
                       /\ Canon[e.current] # Blank

\* Starting needs a valid draft that is saved; discarding does not.
Startable(e) == /\ Ready(e) /\ e.shown = "saved" /\ ~e.resolving /\ e.recovery = None
                /\ Canon[e.current] # Blank
Start == Startable(ed) /\ Invoke("start")
Discard == Ready(ed) /\ Invoke("discard")
Adopt == Ready(ed) /\ ed.offered /\ ed.shown = "saved" /\ Invoke("adopt")

ServeCommand ==
    /\ cmd # None /\ cmd.stage = "sent"
    /\ \E outcome \in {"ok", "refused"} :
          /\ ServerRuns(cmd, outcome)
          /\ cmd' = [cmd EXCEPT !.stage = outcome,
                                !.base = IF outcome = "ok" THEN Len(log') ELSE @]
    /\ UNCHANGED <<orphans, ed, load, cleanup, home, cache, ops, used>>

\* Who still listens: the editor that sent the command, while it is shown.
Heard == ed.mounted /\ ActiveScope(ed) /\ ed.mount = cmd.mount

CommandSucceeds ==
    /\ cmd # None /\ cmd.stage = "ok"
    /\ cmd' = None
    /\ IF cmd.kind = "adopt"
       THEN /\ IF Heard /\ home # 0
               THEN /\ ed' = Synchronized([ed EXCEPT !.pending = "none", !.offered = FALSE, !.rev = cmd.base,
                                !.basis = cmd.base, !.conflict = None, !.recovery = None,
                                !.resolving = FALSE], Suggestion)
                    /\ ops' = Append(ops, Op("wipe", None, NoTail))
                    /\ home' = cmd.base
               ELSE UNCHANGED <<ed, ops, home>>
            /\ UNCHANGED cleanup
       ELSE /\ cleanup' = IF Heard THEN "waiting" ELSE "skipped"
            /\ UNCHANGED <<ed, ops, home>>
    /\ UNCHANGED <<server, orphans, load, cache, used>>

Resumed(e) ==
    Scheduled(Refreshed([e EXCEPT !.pending = "none", !.retries = 0, !.waiting = FALSE]))

GiveUpCommand ==
    /\ cmd' = None
    /\ ed' = IF ~Heard THEN ed
             ELSE IF cmd.kind = "adopt" THEN [ed EXCEPT !.pending = "none"] ELSE Resumed(ed)
    /\ UNCHANGED <<server, load, cleanup, home, cache, ops>>

CommandRefused ==
    /\ cmd # None /\ cmd.stage = "refused"
    /\ GiveUpCommand /\ UNCHANGED <<orphans, used>>

CommandLost ==
    /\ cmd # None
    /\ Room("faults")
    /\ Spend("faults")
    /\ orphans' = orphans \cup IF cmd.stage = "sent" THEN {CommandRequest(cmd)} ELSE {}
    /\ GiveUpCommand

(***************************************************************************)
(* The cleanup after a committed command, and the life of the page         *)
(***************************************************************************)
\* quiesce aborts what is in flight and lets the editor keep its text; the
\* record is deleted once the queue is empty.
QuiesceOps == IF ed.mounted /\ ~ed.moved THEN <<PersistOp(ed, NoTail)>> ELSE <<>>
Quiesce ==
    /\ ed' = Quiesced(ed)
    /\ ops' = ops \o QuiesceOps
    /\ load' = None
    /\ orphans' = orphans \cup {q \in LeftBehind : q.kind = "save"}

CleanupQuiesces ==
    /\ cleanup = "waiting"
    /\ cleanup' = "quiesced"
    /\ Quiesce
    /\ UNCHANGED <<server, cmd, home, cache, used>>

\* Mutant: the record is deleted while operations on it are queued.
CleanupDeletesEarly ==
    /\ cleanup = "quiesced"
    /\ cleanup' = "done"
    /\ cache' = None
    /\ UNCHANGED <<server, orphans, ed, load, cmd, home, ops, used>>

CleanupDeletes ==
    /\ cleanup = "quiesced" /\ ops = <<>>
    /\ cleanup' = "done"
    /\ cache' = None
    /\ UNCHANGED <<server, orphans, ed, load, cmd, home, ops, used>>

\* The session changes hands or is recovered: every scope is closed.
SessionChanges ==
    /\ ed.usable /\ cleanup = "none" /\ Room("mounts")
    /\ Quiesce
    /\ UNCHANGED <<server, cmd, cleanup, home, cache, used>>

Leave ==
    /\ ed.mounted /\ Room("mounts")
    /\ ed' = Detached(ed)
    /\ ops' = ops \o DetachOps(ed)
    /\ UNCHANGED <<server, orphans, load, cmd, cleanup, home, cache, used>>

\* The home query is fetched again; without a draft the editor goes away.
HomeRefetched ==
    /\ home \notin {0, Latest}
    /\ home' = Latest
    /\ IF Latest = 0 /\ ed.mounted
       THEN ed' = Detached(ed) /\ ops' = ops \o DetachOps(ed)
       ELSE UNCHANGED <<ed, ops>>
    /\ UNCHANGED <<server, orphans, load, cmd, cleanup, cache, used>>

\* An editor opens on the cached home once the previous one's operations are
\* done; its lease ends the previous generation.
Mount ==
    /\ ~ed.mounted /\ Room("mounts")
    /\ ops = <<>> /\ cleanup \notin {"waiting", "quiesced"} /\ home # 0
    /\ Spend("mounts")
    /\ ed' = NewEditor(home, used.mounts + 1)
    /\ ops' = <<Op("get", None, NoTail)>>
    /\ orphans' = orphans \cup LeftBehind
    /\ load' = None /\ cmd' = None /\ cleanup' = "none"
    /\ UNCHANGED <<server, home, cache>>

\* The page is reloaded or dies: only the browser database stays. The home
\* comes from the server, or from the snapshot the browser kept of it.
Reload ==
    /\ Room("mounts")
    /\ ed.mounted \/ ops # <<>>
    /\ ed' = Quiesced(ed)
    /\ ops' = <<>>
    /\ orphans' = orphans \cup LeftBehind
    /\ load' = None /\ cmd' = None /\ cleanup' = "none"
    /\ home' \in {home, Latest}
    /\ UNCHANGED <<server, cache, used>>

Init ==
    /\ log = <<Blank>> /\ ending = None /\ adopted = 0
    /\ orphans = {} /\ load = None /\ cmd = None /\ cleanup = "none"
    /\ home = 1
    /\ ed = NewEditor(1, 1)
    /\ ops = <<Op("get", None, NoTail)>>
    /\ cache = None
    /\ used = [edits |-> 0, others |-> 0, faults |-> 0, mounts |-> 1, late |-> 0]

Scheduler ==
    \/ SaveTimerFires \/ PersistTimerFires \/ BrowserOpDone
    \/ ServeSave \/ SaveSucceeds \/ SaveConflicts \/ SaveFindsNoDraft
    \/ ServeLoad \/ LoadArrives
    \/ ServeCommand \/ CommandSucceeds \/ CommandRefused
    \/ CleanupQuiesces \/ CleanupDeletes

Environment ==
    \/ \E t \in Texts : OtherSaves(t)
    \/ OtherEnds
    \/ \E q \in orphans : ServeOrphan(q)
    \/ SaveFails \/ LoadFails \/ BrowserOpFails \/ CommandLost

User ==
    \/ \E t \in Texts : Type(t)
    \/ Blur \/ PageHidden \/ Retry \/ Online
    \/ RestoreRecovery \/ DiscardRecovery
    \/ Start \/ Discard \/ Adopt
    \/ SessionChanges \/ Leave \/ HomeRefetched \/ Mount \/ Reload

Next == Scheduler \/ Environment \/ User

Spec == Init /\ [][Next]_vars

\* What an unsaved text waits for goes on: the timer fires, an operation of
\* the browser database ends, a request is served and its answer arrives.
SaveGoesOn == ServeSave \/ SaveSucceeds \/ SaveConflicts \/ SaveFindsNoDraft
FairSpec == /\ Spec
            /\ WF_vars(SaveTimerFires) /\ WF_vars(BrowserOpDone)
            /\ WF_vars(SaveGoesOn) /\ WF_vars(ServeLoad \/ LoadArrives)

(***************************************************************************)
(* Properties                                                              *)
(***************************************************************************)
AttemptRec == [text : Texts, base : Revisions, basis : Revisions, inputs : Nat,
               stage : {"sent", "ok", "conflict", "gone", "resolving"},
               rev : 0..Len(log)]

\* The shapes of the rows, of the editor and of the requests.
TypeOK ==
    /\ log \in Seq({Canon[t] : t \in Texts}) /\ Len(log) > 0
    /\ adopted \in 0..Len(log) /\ home \in 0..Len(log)
    /\ cleanup \in {"none", "waiting", "quiesced", "done", "skipped"}
    /\ cache \in Drafts \cup {None}
    /\ ed.current \in Texts /\ ed.saved \in Texts
    /\ ed.queued \in Texts \cup {None}
    /\ ed.attempt \in AttemptRec \cup {None}
    /\ ed.rev \in Revisions /\ ed.basis \in Revisions
    /\ ed.retries \in 0..MaxRetries
    /\ ed.recovery \in Drafts \cup {None} /\ ed.lastCached \in Drafts \cup {None}
    /\ ed.halted \in {None, "retryable", "final"}
    /\ ed.pending \in {"none", "start", "discard", "adopt"}
    /\ \A i \in DOMAIN ops :
          /\ ops[i].kind \in {"get", "put", "clear", "wipe"}
          /\ ops[i].draft \in Drafts \cup {None}
          /\ ops[i].kind = "put" <=> ops[i].draft # None
    /\ \A q \in orphans : q.base \in Revisions

\* design.md 28.7: what the badge calls saved is on the server, at the
\* revision the next command will name: lost answers, saves of other devices,
\* edits during a save and conflicts that converge do not blur this. It is
\* also the newest text there, unless another device, an adoption or a request
\* that arrived after its sender gave it up changed the draft, or the page
\* opened on an older home.
SavedMeansSaved ==
    ed.usable /\ ed.shown = "saved" =>
        /\ Canon[ed.current] = log[ed.rev]
        /\ used.others = 0 /\ adopted = 0 /\ used.late = 0 /\ used.mounts = 1
             => Canon[ed.current] = log[Len(log)]

\* design.md 28.7: a goal starts with the text that was on the screen when
\* its start was asked for, whatever was in flight or lost before.
StartsWhatWasShown ==
    ending # None /\ ending.by = "start" /\ ending.mount = ed.mount
        /\ ed.usable /\ ed.pending = "start"
      => Canon[ed.current] = log[Len(log)]

\* design.md 40.5, 28.6: a text is only sent to replace a revision whose text
\* its author saw or chose to replace, also when it comes out of the browser's
\* copy after a reload.
NoBlindOverwrite ==
    ed.attempt # None => ed.attempt.base = ed.attempt.basis

\* A "put" of the current text is still queued.
BeingKept == \E i \in DOMAIN ops : ops[i].kind = "put" /\ ops[i].draft.text = ed.current

\* design.md 28.5, 40.5: while the server may not have the text, the browser
\* has it or is about to, or the user was warned that it cannot; once the
\* editor was left, its queue ends with the text on disk.
UnsavedIsKept ==
    ed.usable /\ ~ed.hydrating /\ ~Settled(ed) /\ (ed.mounted \/ used.faults = 0)
      => \/ BeingKept
         \/ cache # None /\ cache.text = ed.current
         \/ ed.mounted /\ (ed.warned \/ ed.persistTimer)

\* design.md 28.5: once the cleanup of a start or a discard is over, no timer,
\* late answer or queued operation of the editor brings the record back.
CleanedUpForGood ==
    cleanup = "done" => cache = None /\ ops = <<>>

\* useDraftAutoSave.ts: "The local value remains blocked and recoverable."
\* A conflict without a choice is being looked at, or can be looked at again.
ConflictStaysResolvable ==
    ed.mounted /\ ed.usable /\ ed.conflict # None /\ ed.recovery = None /\ load = None
      => ~ed.resolving

\* design.md 40.5: no answer replaces what the user typed. The text changes
\* by typing, by a choice, by adopting a suggestion, or to its canonical form.
TypedTextStays ==
    [][ed'.mount = ed.mount /\ ed'.current # ed.current =>
          \/ ed'.inputs > ed.inputs
          \/ ed.recovery # None
          \/ ed.hydrating
          \/ ed.pending = "adopt"
          \/ Canon[ed.current] = ed'.current]_vars

\* design.md 28.4: an unsaved text does not stay unsaved silently. The queue
\* always has a timer or a request to move it, until it is saved, the badge
\* says that it failed, or the user gives a command on the draft.
UnsavedSettles ==
    (ed.mounted /\ ed.shown \in {"dirty", "saving"})
        ~> \/ ~ed.mounted \/ ed.shown \in {"saved", "failed"}
           \/ cmd # None \/ cleanup # "none"
=============================================================================
