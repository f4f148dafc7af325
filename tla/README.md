# FUKAMU Cycle: TLA+ specifications

FUKAMU Cycle is a web application in which a user writes a goal, works on it in
cycles of plan, do, check and action, reviews it after every cycle and, on the
way, asks a language model to refine the goal or to propose actions. These
modules specify the part of it that is hard to get right and hard to test: the
transactions of the backend, in every order in which requests, retries, lost
answers, crashes, expired leases, deletions and retention jobs can bring them;
the statements and row locks those transactions are made of; the encryption of
texts while it is being switched on; and, in the browser, the editor that saves
a draft by itself while the user types, other devices save and the network
fails, and the tabs that share one session cookie.

Paths below are relative to the repository; `workspace/` stands for
`backend/internal/application/workspace/` and `postgres/` for
`backend/internal/infrastructure/postgres/`.

## 1. The system

### 1.1 Components, their state and their operations

| Component | State | Operations | Module |
|---|---|---|---|
| Goals, cycles, drafts, reviews (`workspace/goal_draft_use_cases.go`, `cycle_use_cases.go`, `review_transition_use_cases.go`, `goal_use_cases.go`, `domain/goal`, `domain/cycle`) | rows of `goals`, `goal_versions`, `pdca_cycles`, `goal_drafts`, `goal_delete_receipts` | CreateDraft, SaveDraft, SaveReview, AbandonDraft, StartGoal, SaveFrame, ChangeReviewSchedule, CompleteCycle, ReplanCycle, ContinueReview, Terminate, DeleteGoal; the pages that read them | `GoalLifecycle`, `GoalJourney`; statement by statement in `Transactions`, `Reads` |
| AI operations (`workspace/goal_draft_use_cases.go`, `action_ai_use_cases.go`, `service.go`) | rows of `ai_generations`, `ai_usage_events`; one request goroutine per operation | Begin, replay, provider call, Finish, late settlement, lease recovery, AdoptGoalSuggestion | `AIOperation`; statement by statement in `Transactions` |
| Monthly budget (`postgres/queries/ai_budget.sql`) | `ai_budget_monthly`: reserved, actual, unattributed cost | reserve, release, settle, add late cost, absorb | `AILedger`, `AIOperation`, `Transactions` |
| Account (`postgres/account_repository.go`) | `users`, `external_identities` | DeleteAccount, UpgradeGoogle, LoginGoogle | `AccountTransactions`; DeleteAccount also in `AIOperation` |
| Sessions and anonymous bootstrap (`postgres/session_repository.go`) | `sessions`, `anonymous_bootstraps` | create or resume, touch, converge the CSRF token, rotate | `AccountTransactions` |
| Anonymous rate limiter, minute buckets (`postgres/anonymous_rate_limiter.go`) | guard rows, hour and minute buckets | check and count | `AccountTransactions`, `Transactions` |
| Retention cleanup (`application/cleanup`, `postgres/queries/cleanup.sql`) | none of its own | count; delete usage events, buckets and guards in batches | `AccountTransactions`; usage events also in `AIOperation` |
| Database (`migrations`, `postgres/queries`, `postgres/generated`) | tables, unique indexes, foreign keys, row locks | one operator per query; execution of statements | `Schema`, `Statements`, `GoalQueries`, `CycleQueries`, `AIQueries`, `AccountQueries`, `RowStore` |
| Content encryption (`contentcrypto`, `postgres/content_encryption*.go`, migration 000010, `cmd/contentcrypto`) | mode, wrapped keys, reserved nonces, the format of every text row; keys in the memory of a process | encrypt, first key, rotation, backfill, change of mode, the storage trigger | `ContentKeys` |
| Browser: editor of a creation draft (`shared/autosave`, `shared/hooks/useDraftAutoSave.ts`, `shared/drafts`, `shared/cleanup`, `features/goal-creation`) | coordinator and hook in memory, timers, one IndexedDB record, the query cache's draft | edit, save, retry, conflict and recovery, start, discard, adopt, leave, reload, cleanup | `DraftAutoSave` |
| Browser: session discovery, recovery and login (`features/auth`, `shared/api`; `httpapi/middleware.go`, `session_handlers.go`) | the session cookie, the bootstrap ID in IndexedDB, the Web Lock of cookie writers; per tab the published session, its lease, the queue of transitions, the active recovery and its failure | first load, request under a lease, advisory, recover, create a session, publish, link or log in, retry, restart | `SessionBoundary` |
| Browser: cycle workspace and review editors, deletion fences, goal cache | the same kinds of state, other tabs | edit, save, recover, fence | not modelled |
| Context selector | none (pure) | choose the texts that fit the token budget | not modelled |
| HTTP API (the workspace handlers), provider client, launch gate, KPI report, observability, configuration, edge worker, scripts | nothing the others read | decoding, reports, metrics, deployment | not modelled |

`PROJECT.json` has the same list with the sources of each part.

### 1.2 How they interact

The browser sends a request with the revisions it last saw and, for a
transition, an operation id (`Idempotency-Key`). The HTTP layer hands it to one
use case, which runs one PostgreSQL transaction that locks the rows it needs
(User, then Goal, then Draft or Cycle, then AI generation, then usage event,
then budget month), compares revisions and statuses, writes, and commits or
rolls back. There is no other channel between use cases than the rows and
their locks. Texts pass through the encryption on their way into a row, which
may open transactions of its own for keys and nonces. In the browser an editor
keeps the text it last saw saved, the text on screen and the text to send next;
it sends one save at a time, puts unsaved text into IndexedDB through a queue of
its own, and shares with the rest of the page only the query cache and the
cleanup that closes every editor after a committed start or discard. The tabs of
a browser share the cookie, the bootstrap ID and a lock, and tell each other
when they wrote the cookie; a page learns from the answers to its own requests
that its session is gone or belongs to somebody else, closes its editors and
changes over. An AI
operation is two transactions with the provider call between them, outside any
transaction: the first inserts a running generation with a lease and reserves
the maximum cost in the budget of the month, the second records the result and
replaces the reservation by the cost. The retention job, the key operator and
account deletion run beside all of this.

### 1.3 What is hard

- An answer can be lost after its commit, so every transition may be sent
  again, at any time later, when the goal has moved on.
- A request may be delayed or copied under another operation id and meet a
  later cycle or review that looks like the one it was meant for.
- A running AI operation does not hold locks: its draft, cycle, goal or
  account may be changed or deleted before its result arrives, its lease may
  run out, or its server may die.
- The cost of an operation must be booked once, in the month that reserved it,
  although the rows that know about it may be deleted first.
- The budget is one row per month for the whole service; quota is counted from
  rows that deletions and retention remove.
- Transactions meet at every statement. Each locks many rows, foreign keys,
  cascades and unique indexes lock more, and what a statement returned must
  still be true when a later one acts on it.
- Encryption is switched on under running servers: writers that began in the
  old mode, two processes that make the first key, an operator that encrypts
  rows users are editing.
- A save can be committed and its answer lost, overtaken by typing, or met by
  the save of another device; timers, retries, pauses and closing the page
  meet it at every await, and what the browser kept is met by a later page.
- Tabs lose or change the session they share at any time: recoveries, logins,
  advisories and first loads overtake each other, and an answer that writes the
  cookie may be lost after it was written.
- The current work of a goal is found by joining rows, and the history must
  stay readable after every sequence of transitions.

Each of these is an entry of `hazards` in `PROJECT.json`, at the line where it
bites, with the properties that would catch it.

## 2. Plan

1. `AILedger`, `AIOperation`: AI operations and their cost (done).
2. `GoalJourney`, `GoalLifecycle`: goals, cycles and reviews (done).
3. `DraftAutoSave`: the editor of a creation draft (done); the several keys of
   the cycle workspace and the review editor's own rules are left.
4. `RowStore` and the transactions of the whole server over it, sessions,
   accounts and rate limits included (done; the locks proved).
5. `ContentKeys`: encryption and its operator (done).
6. `SessionBoundary`: sessions between the tabs of a browser (done); the queue
   of post-commit cleanups with deletion fences is left.
7. The context selector against a reference definition.

Proofs (section 5): the ledger; the row locks and the constraints of the
database; the invariants and action properties of `AIOperation`,
`GoalLifecycle`, `ContentKeys`, `SessionBoundary` and `DraftAutoSave`, and the
refinements of `AILedger` and `GoalJourney` (done). Left: theorems about single
programs over `RowStore`, such as the counters of section 5.8.

## 3. Modules

### 3.1 AILedger

The promise of the cost accounting. Every operation has one entry that is in
one place at a time: `reserved`, `exposed` (reservation given back, cost not
known), `charged`, `late`, `absorbed` (its account was deleted). Five actions
move entries and adjust the three columns: `Accept`, `Release`, `Settle`,
`SettleLate`, `Absorb`. Two facts matter. `Balanced`: reserved and unattributed
cost are exactly the sum over the entries in those places. `WithinBudget`: the
month exceeds the budget at most by operations that became late or absorbed;
the second part is not a weakness of the statement but of the design, and
worth knowing: after a lease was recovered the budget check cannot see the cost
that is still to come. The module has no run of its own: `AIOperation`
implements it, its two facts are stated there about the rows (`Balanced`,
`WithinBudget`), checked on them in `ai_goal`, and proved for both.

### 3.2 AIOperation

Rows: `userRow` (users), `goal` (what an operation can be about: the phase of a
goal or creation draft, the number of its current draft or cycle, and how often
that was edited), `gen` (`ai_generations.status`), `usage`
(`ai_usage_events`), the three budget columns. Request goroutines: `pc`, `snap`
(the `AISnapshot` the goroutine holds, which is also what the insert wrote),
`answer`. `fate` is a history variable: where the cost of the operation was
counted for good.

| Action | Code |
|---|---|
| `Begin` | `BeginGoalRefine`, `ActionAIUseCases.begin` with a new key: lease recovery, running check, rolling quota, budget, insert |
| `Replay` | the same with a known key: recovery is committed, the outcome replayed |
| `ProviderReturns`, `Crash` | `executeAI`; the process dying or finalization failing anywhere |
| `Locate`, `FinishNormally`, `SettleLate`, `FinishWithoutUser` | `FinishGoalRefine`, `Finish`: the non-locking locator, then the locked transaction, or the late settlement |
| `AdoptGoalSuggestion`, `SaveContent`, `CreateDraft`, `StartGoal`, `AbandonDraft`, `CompleteCycle`, `ReplanCycle`, `ContinueReview`, `Terminate`, `DeleteGoal`, `DeleteAccount` | the use cases of the same names, as far as they touch drafts, cycles, generations, usage events and the budget |
| `Cleanup` | `DeleteCleanupAIUsageEventsBatch`, any set of removable rows (batches, `SKIP LOCKED`) |

An action is one committed transaction. A transaction that is refused rolls
back everything, lease recovery included, and is not a step. The clock reading
of a handler is taken before its transaction and may be up to `Skew` old.
Usage status `succeeded` and `failed` are one value: no statement tells them
apart. That all attempts together cost at most the reservation is an assumption
about the provider settings (`cmd/server/main.go:33`), not something the code
enforces. `AdoptGoalSuggestion` asks, as the code does, that the draft still has
the text the suggestion was made from, at the revision of then or a later one;
the edits of a draft are counted and not spelled, so "the same text again after
an edit" is any later revision, which allows more than the code.

### 3.3 GoalJourney and GoalLifecycle

`GoalJourney` is the promise to the user: a goal goes through numbered cycles,
one at a time; it is reworded only at a review; a cycle is shown the Action of
the last cycle if that one was completed; a goal that is over does not come
back; a deleted one does not come back either.

`GoalLifecycle` is the rows. A slot stands for a creation draft and the goal it
becomes; ids are never reused, so a deleted slot stays `gone`. The functions
`goal`, `version`, `cycle`, `draft`, `receipt` are the tables, and the receipt
columns (`start_operation_id`, `completion_operation_id`,
`terminal_operation_id` with their hashes) are fields of the rows, as in the
schema: start, continue and replan share one column, so an id used for one of
them cannot be used for another; complete and terminate have their own;
deletion has its own table, whose rows are never cleaned up but answer only
until `expires_at` (`fresh`, `ReceiptExpires`): afterwards a repetition goes on
and finds no goal. `running` is the running generation of the slot. `applied` and `again` are history.

Every request carries arbitrary revisions, so stale, delayed and copied
requests need no network model: any request can arrive at any time. Refused
and replayed requests write nothing and are not steps; instead
`ReplaysAnswered` says how every request that ever took effect is answered, by
evaluating the checks of the replay code on the rows of that state. Start,
continue, replan and terminate are answered as long as the goal exists.
CompleteCycle is answered exactly when the success signal of the review it
opened is not edited (`SignalEdited`): `validateCompleteCycleReplay` refuses it
otherwise, which is the finding `goal_complete_replay`, and answers it again
once that review is over. A deletion keeps its key; it is answered until the
receipt expires, then finds no goal, and deletes nothing again.

Left out: rate limits and ids of StartGoal, texts beyond blank or not (frames)
and two bodies and signals (goals), dates of the review schedule (a Boolean),
usage events and their attachment (in `AIOperation`).

### 3.4 DraftAutoSave

One browser tab with the editor of one creation draft, the server's texts of
that draft by revision (`log`), other devices and the browser's record.
JavaScript runs to completion between awaits, so a step is the code between
two of them. `ed` is one record for the coordinator and the hook, since they
are created and given up together: `saved`, `current`, `queued`, `uncertain`,
`halted`, `waiting`, `retries` are the coordinator's fields for its only key;
`rev`, `conflict`, `recovery`, `resolving`, `lastCached`, `moved` are the
hook's; `attempt` is the save in flight, `saveTimer` and `persistTimer` say
that a timer is set, `shown` is the published state of the badge. The methods
of the coordinator are functions of that record (`Edited`, `BlockedWith`,
`Scheduled`, ...), so an action reads like the call it stands for.

| Action | Code |
|---|---|
| `SaveTimerFires`, `ServeSave`, `SaveSucceeds`, `SaveConflicts`, `SaveFindsNoDraft`, `SaveFails` | `pump`: take the text, the server's transaction, the kinds of answers |
| `ServeLoad`, `LoadArrives`, `LoadFails` | `resolveRevisionConflict` with `loadLatest` and `acceptLatest` |
| `PersistTimerFires`, `BrowserOpDone`, `BrowserOpFails`, `PageHidden`, `Blur` | `persistCurrent` and the scope's queue of browser operations; what `pump` does after awaiting one of them is the operation's `then` |
| `Retry`, `Online`, `RestoreRecovery`, `DiscardRecovery`, `Type` | the hook's callbacks |
| `Start`, `Discard`, `Adopt`, `ServeCommand`, `CommandSucceeds`, `CommandRefused`, `CommandLost` | the commands of `GoalCreationFeature`, with the replay of a start |
| `CleanupQuiesces`, `CleanupDeletes`, `SessionChanges` | `attemptCleanup`, `quiesceCurrent` |
| `Leave`, `HomeRefetched`, `Mount`, `Reload` | detaching, the home query, a new editor and its hydration, a new page |
| `OtherSaves`, `OtherEnds`, `ServeOrphan` | other devices; requests whose sender gave them up |

How long timers wait is left out: one that is set may fire at any time, so
`saveImmediatelyAfterHydration`, which only shortens a delay, has no
counterpart. Texts stand for body and success signal together; `Canon` is what
the server makes of one (a signal of spaces is no signal). A new editor opens
when the queue of the previous one is empty. Not in the module: the second and
further keys of a coordinator, `recoverAfterAbort` and `discard()` (the
creation editor uses neither), rewriting a cached draft into canonical form,
expiry and deletion tombstones of the record, a failing deletion in the
cleanup (it waits for a button and then repeats itself), limits on the text.

### 3.5 The database: Schema, Statements, RowStore

`RowStore` executes transactions the way PostgreSQL does. A program is a
sequence of statements, a statement a record (`Statements`): what it does, the
condition on its rows, the lock mode, what it writes, how many rows the code
expects and where it goes if there are fewer. `Schema` has the tables with
their columns that matter, the entries of their unique indexes, their foreign
keys with ON DELETE rules and deferred checks, and the checks of rows.

The state is `db` (the committed rows), `held` (per transaction the locked rows
and index entries with their modes) and `work` (per transaction the statement
it is at, the candidates still to be locked, its own writes, what statements
returned). `Execute` runs a statement up to its next lock: a statement finds
its candidates in what was committed when it started, waits for one lock at a
time, and looks at a row again when it has the lock (READ COMMITTED); with SKIP
LOCKED it passes over. Writing needs the row, the index entries that appear or
disappear, and a KEY SHARE lock on newly referenced rows; deleting cascades.
When it has the locks, the checks, the unique indexes, the immediate references
and the triggers judge what it writes (`Sound`), and a READ ONLY transaction
(`pgx.ReadOnly`, workspace_store.go:102) may write nothing.
`Commit` checks deferred references and publishes the writes. Everything a
transaction did without waiting is one step, since nobody can see the
difference; the programs of the model are therefore interleaved exactly where
the database interleaves them.

### 3.6 The transactions: queries, units of work, use cases

| Module | Code |
|---|---|
| `GoalQueries`, `CycleQueries`, `AIQueries`, `AccountQueries` | the statements of `postgres/queries/*.sql`, one operator per query, under its name |
| `Views` | the reads that join several tables, and the mappings that accept or refuse what they return |
| `UnitsOfWork`, `AIUnitsOfWork` | the methods of `postgres/workspace_*_uow.go`: statements with the row counts the code insists on |
| `Transactions` | the use cases of the workspace as programs, with the programs they continue with after a replay, a lost claim or a late answer |
| `AccountTransactions`, `Reads` | sessions, accounts, limits and cleanup; the pages that read |
| `StoredData` | what must hold of committed rows |
| `MCTransactions` | databases, requests and pairs of them for TLC |

A refusal ends a program and rolls back (`refused`); a row count the code
treats as corruption, a failing mapping or a violated constraint ends it with
`error`, which no program may ever reach. Simplifications that do not change
what can happen:

- A loop over rows already locked is one statement on the set of them.
- A comparison the use case makes in memory on a row it has locked is a
  statement of its own (`Check`, `Exists`) that looks at that row again.
- `LockGoalWithCurrentVersion`: when the status changed while it waited, the
  code answers "not found" or a status refusal; both are `refused`.
- A bootstrap resume whose row vanished returns `pgx.ErrNoRows` to the caller,
  which is `refused` here (docs/design.md:2111).
- `Touch` is one SQL statement with several parts, each a statement here.
- `CompleteCycle` and `ContinueReview` look for their receipt before the first
  lock and again after it; for `CompleteCycle`, which ignores the first
  answer, only the second is kept.
- Checks of `BeginGoalRefine` and `FinishAction` on base versions are left
  out: they follow from the rows that are locked.
- `FailActionAI` and `FailGoalRefine` (programs `failed1` to `failed3`) are
  never reached: every transition of a target is refused while an operation
  runs on it. They are the code's defence and kept for the record.

### 3.7 ContentKeys

One user, his text rows with fields that are plain or sealed, the server
processes and the operator. A request reads the mode when its transaction
begins and keeps to it (`Begin`), takes the locks of its use case
(`LockForInsert`, `LockForSave`, `LockForSignal`, `LockForFinish`,
`LockForDelete`), seals its texts one after the other (`ActiveKey`, `AskForKeyLock`, `StoreInitialKey`,
`ReserveNonce`, each on a connection of its own whose effect stays), writes
through the trigger (`Write`, `Accepted`) and commits. The operator runs one
step at a time: `Backfill` with `BackfillCAS`, `Rotate` with `StoreRotatedKey`,
`AskForControl` with `SetMode`. `Fail` loses any transaction at any point.

`Signals` are the rows of `goal_draft_success_signals`. A save of a draft reads
the signal under the lock of the draft and saves it anew, the same, another or
none (`LockForSignal`, `EraseSignal`), by an upsert. When the upsert finds its
row, the storage trigger runs twice: before the INSERT, where it moves the text
from the column to those of the ciphertext, and before the UPDATE, which sets
only the column, to what `EXCLUDED` has there now, NULL. `Conflicts` says when,
`Excluded` what is left: of a legacy row nothing, of an encrypted one the old
ciphertext. `dropped` remembers the rows this happened to; `TextsKept` excepts
them, `SignalsKept` does not. A save with a row that cannot be read fails.

A request that writes several rows is a job for each of them: the body of a
draft and its signal are two, with the same lock order; nothing said here is
about both together.

Abstractions: the memory of a process keeps only the keys it made itself, and
for ever, since a stored key never changes; a list of rows read once by the
backfill is a list of one, because a longer one only makes the later rows
older; a save always changes its text; an insert always holds the user row
(`ContinueReview` does not, which only removes a wait); the check that a user
has no encrypted content before a first key is made is left out, being implied.
Job records, the status report, Verify, restoring a backup and several
operators at a time are not modelled.

### 3.8 SessionBoundary

Two or more tabs of one browser. The server's part is `owner` (the user of each
session) and `dead` (expired or revoked); the browser's is `jar` (the cookie),
`boot` (the bootstrap ID), `writer` (the Web Lock) and `mail` (advisories on
their way). A page is one record, and the callbacks of the controller are
functions of it (`Suspend`, `Recover`, `PublishSession`, `Commit`, ...): `cached`
is the published session, `lease` the user requests may be sent for, `rec` the
active recovery and its event, `fail` the failure shown with its retry, `hold`
and `fail.suspend` hide the children, `open` says that the editors' autosave
scopes are open, `queue` and `job` are the queue of transitions and the one that
runs, with the await it is at.

| Action | Code |
|---|---|
| `SendRequest`, `HearRequest`, `HearDamaged` | `requestJSON`; `authenticateMiddleware` and `csrfMiddleware` (`Verdict`) |
| `HearAdvisory` | `useSessionIdentityAdvisory` |
| `HearGet`, `Quiesced`, `PublishRecovered` | `runSessionRecoveryAttempt`, its two orders of closing the editors and asking |
| `WaitForLock`, `Acquire`, `HearLockGet`, `HearPost`, `ClearBootId` | `createAnonymousSession` with `runSessionCookieWriter` |
| `AskLogin`, `HearLogin`, `LoginStale`, `LoginLost` | `runSessionTransition` as linking and logging in use it |
| `Published` | the rest of `publishSession` after its awaits |
| `ServeGet`, `ServePost`, `ServeLogin`, `Expire` | the server |
| `Interrupted`, `AskFails`, `AnswerDamaged` | aborted, lost and inconsistent answers |
| `Retry`, `RetryLoad`, `Restart`, `Reload` | the buttons, `handleUnboundIdentityAdvisory`, a new document |

An event belongs to a generation; instead of a number the fields `cur` and
`fresh` say whether it is still the current one, and `steady` whether a lease
was made invalid since. The server judges a request when it is sent, since a
session that expires later only makes the answer older. The user of an answer
is `owner` of its session, as the header is. A session created for a bootstrap
ID that was already used belongs to the same user: anonymous users are named
by that ID. Left out: the guide preferences that travel with a reconciled
session (only their marker is kept), the session operations of account and goal
deletions, and the expiry times of cookies.

## 4. Runs

| Run | Properties | Size |
|---|---|---|
| `ai_goal` | `TypeOK`, `RunningTargetCurrent`, `ExposureKept`, `Balanced`, `WithinBudget`, `LedgerSpec` | 1 goal through a review into the next cycle, 2 operations of cost 1, budget 1, 2 months, instants 0..2 |
| `ai_quota` | `RollingQuota`, `CostIsSettled`, `LeaseIsRecovered` | 2 goals, 2 operations, one allowed per window of 2 instants, readings of the clock up to 1 old, instants 0..3, fairness |
| `goal_one` | `TypeOK`, `GoalShape`, `HistoryReadable`, `HistoryFrozen`, `ReplaysAnswered`, `AppliedOnce`, `ReviewEditsKept`, `ImplementsJourney` | 1 goal, 3 operation ids, 3 cycles, 1 edit per draft of body and signal, AI operations |
| `goal_complete_replay` | `CompleteReplayIsAnswered` (violated) | 1 goal, 2 cycles |
| `autosave_tab` | `SavedMeansSaved`, `UnsavedIsKept`, `StartsWhatWasShown`, `CleanedUpForGood`, `TypedTextStays` | 2 texts and, in turn: 2 edits, 1 change from another device, 1 fault; 1 edit, 2 changes, 2 reopened or reloaded editors; 1 edit, 1 change, 2 editors, blurs |
| `autosave_live` | `TypeOK`, `NoBlindOverwrite`, `UnsavedSettles` | 3 texts, one stored as another; 1 edit, 1 change from another device and either 1 fault and 1 editor, or 2 editors; fairness |
| `autosave_stuck` | `ConflictStaysResolvable` (violated) | 1 editor, 2 edits, 3 other changes |
| `transactions` | `NoDeadlock`, `NoInternalError`, `CommitsReadable`, `CommitsBacked`, `CommitsWithinLimit`, `LockedRowsStay` | two transactions, and three of seven programs, on 6 databases |
| `content_keys` | `TypeOK`, `CiphertextsSound`, `TextsKept`, `StrictIsComplete`, `LegacyEnds` | 2 servers with 2 requests, the operator, a row of content, a success signal and a generation, 2 key versions, 1 fault, 2 nonces per text |
| `content_self_wait` | `NoSelfWait` (violated) | the same |
| `content_signal_lost` | `SignalsKept` (violated) | the same |
| `session` | `AnswersFitThePage`, `LiveSessionsKept`, `HiddenPagesComeBack` | 2 tabs; 1 session lost or 1 link or login, and 1 fault; fairness |

Why the bounds are enough. Two operations are what every race of the code is
about: one that is late and one that came after it; the proofs take any number. Two months and three instants contain an
operation that is accepted before and answered after the end of a month, and a
lease that expires in between. A draft is edited at most once there
(`MaxRevision` 1), so that a suggestion made from an older revision is adopted
is not reached in the run; the proofs allow any number of edits. `ai_quota` lets operations cost nothing: neither
the quota nor the liveness depends on amounts, which are `ai_goal`'s subject.
Three cycles are the smallest number with a
cycle that has a predecessor and a successor. Three operation ids allow a
request, its copy under another id and a third request between them, and each
transition to a next cycle uses one up. Goals of one user share nothing but the
limit on goals in progress and the operation ids, so one slot is enough for the
rows of a goal; the operation ids of two goals against each other are not
checked there (in `transactions` they are). Deadlock is not checked in these
runs: the bounds on time, revisions and cycles stop the models, and a user who
deleted everything has nothing left to do.

The editor needs two edits to type on during a save, or back to the saved text.
A change from another device makes a conflict (409 means that the server has
another text), a second one lets it converge. One fault is a lost request, a
lost or refused answer, a failed refetch or a failed browser write, and with
`MaxRetries = 1` a retry after it. `Limits` is the set of bounds that are looked
at: a behaviour stays within one of them, so that the cases of reloading, of
faults and of blurring need not be multiplied with each other. Its `mounts`
counts editors, reloads included, its `ops` the browser operations a blur or a
hidden page may add to the queue.

`transactions` starts every pair of programs that can meet (requests of the
same user on the same goal or draft, with their own operation ids and with the
same one; requests of two users, which share budget months and rate buckets;
cleanup) and, in addition, all triples of the seven programs that lock in the
most different ways, since a circle of three needs three different orders.
User 1 has a creation draft, an active goal and a goal under review. The
databases: operations that ended (`Quiet`), that run (`Live`), that run past
their lease (`Expiring`); legacy rows and three goals in progress (`Legacy`);
and accounts with fresh or old bootstraps, a linked Google identity and
leftovers for the cleanup. `GoalLimit` 3 is met by a start in `Legacy`, `BudgetLimit`
2 and `RateLimit` 2 by two acceptances, `UsageLimit` 5 never by a pair (the
quota is `ai_quota`'s subject). Deadlock is checked: every program must end.

`content_keys` needs two requests to race for the first key or to have one
straddle a change of mode that the other one completes; a second key version to
have a ciphertext of the old one; one fault for a crash at any point or a nonce
drawn twice. The success signal may be there from the start, in the clear, or
be made by the first request and saved again by the second; the row of content
and the generation are made by requests.

`session`: a loss makes every page that asks recover, and in two tabs that is
enough for two recoveries, an advisory between them and the lock; a login is
the other writer of the cookie; the fault is any of a lost or damaged answer, a
timeout, or a new document. Six anonymous users are enough for every bootstrap
ID these events can use. Without fairness, with tabs as a symmetry set, the
invariants were also checked with a loss and a login together and with two
losses. Deadlock is not checked: tabs that are all shown may rest for ever.

Symmetry is used for generation ids and operation ids where no liveness property
is checked.

### Fairness

`AIOperation`'s `FairSpec` assumes weak fairness of the steps of a request
goroutine other than `Crash` (the goroutine is scheduled, the provider call has
a timeout, and finalization has a context of its own that the client cannot
cancel), of the clock, and of `Replay`: a client that got no answer sends its
request again with the same key. The code does not guarantee the last one;
`LeaseIsRecovered` is true only with it.

`DraftAutoSave`'s `FairSpec` assumes that a timer that stays set fires, that an
operation of the browser database ends, and that a save or a refetch is served
and answered unless it fails. Nothing is assumed of the user: no edit, blur,
retry or online event has to come.

`SessionBoundary`'s `FairSpec` assumes that promises settle: a request is
answered (or times out, which is a fault), a lock that is free is granted, the
editors are closed; and that the user presses the button the page shows him
(retry, reload), without which a failed recovery rightly stays as it is. Faults
are bounded; nothing is assumed of the other tab but the same.

`ContentKeys`' `FairSpec` assumes that a request goes on, that a client or proxy
in the end gives up a request that waits for a lock (`TimesOut`; the server and
the database set no limit), and that the operator runs the backfill again after
it stopped (strong fairness of `StartBackfill`, docs/operations.md, Backfill).
Requests are not assumed to succeed, and no user has to come.

## 5. Proofs

TLAPS proves the theorems below for every value of the constants that satisfies
the named assumptions of the module: any number of operations, goals, requests,
tabs, edits and faults, queues of any length. Every invariant in a run is
proved unless the last part of this section says otherwise, and so are the
action properties and the two refinements. Each inductive invariant (`IInv`)
was model-checked on the constants of its run before it was proved; that is
also where most of its parts come from.

Modules with proofs state nothing about the code but what the module they
extend models. What they assume beyond natural bounds and finite sets is that
values which stand for "nothing" differ from all others (SQL NULL in
`ContentAssumption`, `null` in `NoneIsApart`, absent rows in `AIAssumption` and
`LifecycleAssumption`, `AbsentIsNoRow`), that the server's form of a text is
stable (`Canonical`), that the rows a database starts with satisfy its
constraints (`StartsAssumption`), and, for one theorem, how old a clock reading
may be.

### 5.1 AILedger_proofs

`LedgerTypeCorrect`, `LedgerBalanced`, `LedgerWithinBudget`, for constants that
are as `LedgerConstants` says (finitely many operations, natural reservations
and budget; a hypothesis of the theorems, which the refinement discharges).
None of the three is inductive alone: that a column stays natural needs that it
holds at least the reservations that are given back, which is `Balanced`; and
that the sum stays within the budget needs both that a settled cost is at most
its reservation and that the operations counted in `reserved` are those about to
be settled. `IInv` is their conjunction with the types. The proof rests on
lemmas about `Worth`: what the cardinalities of the operations in a place become
when a set of operations leaves it (`Left`) or enters it (`Came`), both from
`CardinalityOfDisjointUnion`.

### 5.2 AIOperation_proofs and AIOperationLedger_proofs

- `OperationTypeCorrect`, `ExposureAlwaysKept`, `RunningTargetAlwaysCurrent`.
  They are proved together, with `OperationsFit`, which says what an operation
  has in each place of its goroutine: a running one has its usage event as
  `Begin` left it, one that was found ended does not run again. Without that a
  late settlement could meet an event in a form no transaction leaves behind.
- `QuotaNeverExceeded`: `RollingQuota`, under the assumption `Skew <= Margin`.
  The quota is counted from usage events that deletions and the retention job
  remove; `EventsRetained` says that a missing event of a living user is past
  its retention, and the assumption that then no reading of the clock which is
  still in use can fall into a window it counts for. `Margin` is the code's
  `AIUsageRetentionSafetyMargin` of 15 minutes. Nothing in the code strictly
  enforces the assumption: `WriteTimeout` (`cmd/server/main.go:230`) closes the
  connection and does not cancel the handler, and the database has no statement
  timeout, so a transaction that waits for locks longer than the margin may
  commit with an older reading. The theorem says what the margin buys.
- `OperationsImplementLedger`: `Spec => LedgerSpec`. Under the mapping
  `EntryOf` every transaction is a step of `AILedger` or leaves it alone; the
  head of the module lists which. `OperationsBalanced` and
  `OperationsWithinBudget` then carry the two theorems about the ledger over to
  the columns the code keeps: `Spec => []Balanced`, `Spec => []WithinBudget`.

### 5.3 GoalLifecycle_proofs

- `GoalTypeCorrect`, `GoalsKeepTheirShape`: `TypeOK`, `GoalShape`. The shape
  alone is not inductive: that the next transition finds one predecessor and one
  version needs what each row says of itself (`CycleFits`, `VersionFits`) and
  that a slot that was not started, or was deleted, is empty (`GoalFits`).
- `RequestsApplyOnce`: `AppliedOnce`, for requests that arrive at any time and
  any number of times. `Spent` says why: a request that took effect left its
  goal past the draft or the revision it was sent for, and neither comes back.
- `HistoryStaysFrozen`, `ReviewEditsAreKept`: the action properties
  `HistoryFrozen` and `ReviewEditsKept`.
- `RowsImplementJourney`: `Spec => ImplementsJourney`, one lemma per
  transaction.
- `HistoryStaysReadable`, `ReplaysStayAnswered`: `HistoryReadable`,
  `ReplaysAnswered`, from a second invariant `RInv` over the first. It says
  which row remembers each request that took effect (`Remembered`): the cycle
  it began or completed, the goal it ended, the receipt of its deletion, fresh
  or expired. For CompleteCycle the theorem is an equivalence: nothing but an
  edited success signal stands between the rows and the answer. That an answer
  keeps its `created` flag needs that no later operation can file a version
  under the same id (`MakerFits`: whoever made a version began a cycle, and no
  second request may begin one under the same id), that a replanned cycle
  stays next to its successor (`BeginningFits`), and that a goal that is over
  stays as the request that ended it left it (`EndFits`). Every transaction is
  shown to let the rows grow (`Grows`) or to erase them (`Erased`). The sum of
  the frame revisions is written as the number of the edits of the frames
  (`Edits`), because the provers have no induction for a sum over a set;
  `OneEditMore` is what each of the two writers adds to it. `RInv` was
  model-checked with `IInv` on the constants of `goal_one`.

### 5.4 RowStore_proofs

For every set of transactions and every program, and for every database they
may start from,

- `LocksNeverClash`: two transactions never hold modes of one row or index
  entry that exclude each other,
- `LockedRowsNeverChange`: `Spec => LockedRowsStay`, a row locked against
  writers is changed or removed by nobody else until the transaction ends,
- `ConstraintsHold`: every committed row passes the checks of its table
  (`Checked`) and no two own one entry of a unique index (`Distinct`),
- `ReferencesHold`: no committed row refers to a row that is not there
  (`Whole`), by references of all three kinds.

The first two need no assumption. Their invariant has four parts: `LocksShaped`
and `WorkShaped` say which functions and fields there are, `LocksAgree` is the
first theorem, and `WritesLocked` says that a transaction has a writer's lock on
every row it has written, which is what makes a commit of one transaction leave
the locked rows of the others alone. It holds because a statement ends only when
no lock of its writes is missing (`EffectIsGuarded`), and is kept because a lock
is only exchanged for a stronger one (`GrantKeepsWriters`). This is what all
"locked before, so still true" reasoning in the code stands on, for programs of
any length, cascades included.

The other two are what that reasoning takes for granted of the schema: one
creation draft per user, one receipt per operation id, a version for every
cycle, whatever the units of work do. A statement judges its writes against
the rows of its own transaction, so the theorems say that nothing another one
commits meanwhile can make that judgement wrong. They assume
`StartsAssumption`, that the constraints hold at the start, and
`ProgramAssumption`, that "error" is no program. The invariants:

- `DataFits`: each transaction's view, its writes over the committed rows, is
  checked and distinct, and `Secured`: the entries that tell a written row from
  the committed one are locked, and so are the parents it newly refers to. So
  another transaction commits no row with such an entry (`WritersApart`,
  `CommitLeavesEntries`): the views of both stay distinct.
- `TargetsFit`: in each view, the immediate references lead to a row
  (`Present`). A deleted parent takes its children along: references descend
  through four levels of tables (`CascadesDescend`), which is why the rounds of
  `Falling` reach all of them (`FallingIsClosed`). A child that another
  transaction adds holds its parent with KEY SHARE, which the delete waits for.
- `PresentLater` is the same for deferred references, of committed rows only:
  `Consistent` judges them at commit, under locks on the parents.

`ReferencesHold` has one hypothesis more, `AbsentIsNoRow`: the mark of a key
without a row is not a function, hence not a row. TLC gives it a model value and
cannot enumerate all functions, so it cannot be an ASSUME. The invariants were
model-checked on the run `transactions` before they were proved. They hold
because `Sound` and `Consistent` end the transaction when a constraint fails.
That the code's own programs never get there is `NoInternalError`, which TLC
checks.

### 5.5 ContentKeys_proofs

`ContentTypeCorrect`, `CiphertextsStaySound`, `TextsAreKept` and
`StrictStaysComplete`, for any number of servers, requests, rows, key versions
and faults. `CiphersFit` speaks of all ciphertexts there are, those that a
request has sealed but not written included, since they become the rows of
later: each has the key stored under its version, and a nonce that is reserved
there. `KeysFit` is why a process that made a key in memory never seals with one
that another process overtook. For texts, `JobFits` says what a request holds
between its statements: an update under the row's lock has the text last
saved in every field it does not change, and a backfill's copy is either that
text or refers to a row that is no longer legacy, so that its compare-and-set
will not match. The row of a success signal is the exception: its save locks the
draft, so the backfill may come between, and until the commit a save relies on
the draft's lock alone (`SignalFits`, `Relies`). `TextsKept` excepts the signals
in `dropped`; that such a row is still one the other parts of the invariant allow
is `ExcludedFits`, and that it never counts as legacy again is in `RowsFit`. For the mode strict it says that a transaction about to commit
has read its mode under the control lock (`a \in control`), and that a change of
mode which saw no legacy row found none.

### 5.6 SessionBoundary_proofs

`AnswersAlwaysFit` and `LiveSessionsAlwaysKept`, for any number of tabs and, up
to the bound `MaxUsers`, users. A page's lease is the user of the session it
shows, and a page that hides, suspends or recovers has none (`Shows`); a
recovery that has closed the editors, or will before it looks, has none either
(`Does`). `MayWrite` is the other half: only the holder of the Web Lock is
between reading the cookie and writing it, the cookie is still the one it read,
and an answer with another session means that this one is dead.

### 5.7 DraftAutoSave_proofs

For any texts, edits, editors one after the other, conflicts, faults and
queues of browser operations:

- `EditorTypeCorrect`, `NothingOverwrittenBlindly`, `SavedIsSaved`,
  `StartsAsShown`, `UnsavedTextIsKept`, `RecordStaysDeleted`: the six
  invariants of the runs;
- `TypedTextIsKept`: the action property `TypedTextStays`.

All rest on `EditorStaysConsistent`. `Frame` ties the hook to the coordinator:
`saved` is the server's text at `rev`, and `rev` is the revision whose text the
user saw, unless a choice is open, when it is the conflict's. `AttemptFits` ties
the save in flight to them; its answer is a revision at or above `rev`
with the text that was sent. `Flags` says what an idle editor may believe: with
nothing queued and nothing on its way, and no answer in doubt, the text on
screen is the one that is saved. The parts for the server (`EndingFits`,
`OrphanFits`) keep a start that was given up from naming a revision this editor
has not reached, and `NewestFits` holds as long as nobody else changed the
draft. `KeptFits` is the invariant of the browser's copy: an unsaved text has a
timer, or the queue ends with it, or the record has it. Every function of the
coordinator has a lemma that says what it leaves alone, and every action one
that uses them; since the server's log grows under an editor that does not
know, one set of lemmas (`Longer...`) carries the invariant to a longer log.

### 5.8 Only model-checked

- `NoDeadlock`, `NoInternalError` and the `Commits...` properties of the
  transactions: they are about the programs in `MCTransactions`, not about
  `RowStore`, which runs any program. They depend on the order in which each
  pair of programs locks the rows the data makes it meet, which TLC enumerates;
  a proof of `NoDeadlock` would need one order of all locks that every program
  respects. The order of tables and ids (`Before`), which each statement follows,
  is not one: TLC finds transactions that hold a row and wait for one that
  comes before it. `NoInternalError` would need a
  proof for each program.
- Everything under fairness: `CostIsSettled`, `LeaseIsRecovered`,
  `UnsavedSettles`, `LegacyEnds`, `HiddenPagesComeBack`; and the violations of
  section 6.

## 6. Findings

- **Replay of CompleteCycle after an edit of the success signal**
  (`goal_complete_replay`): `validateCompleteCycleReplay` compares the success
  signal of the review draft of now with that of the completed cycle's version.
  After SaveReview changed only the signal, a retry of the completion with the
  same key is refused as inconsistent data; docs/design.md:2545 promises the
  normal response with `replayed: true`.
- **A conflict that converges blocks the next one** (`autosave_stuck`): the
  convergence branch of `resolveRevisionConflict` forgets the conflict before
  the `finally` block compares it, so `resolvingConflict` stays true. The notice
  that another update is being checked stays on screen, refining and starting
  stay disabled, and a second conflict can neither be refetched nor chosen.
- **The first text of a user waits for itself** (`content_self_wait`):
  `StoreInitialKey` locks the user row on a second connection while the
  transaction that called it (CreateDraft, StartGoal, BeginGoalRefine) holds
  that row. PostgreSQL sees no circle, so the request hangs until its client
  gives up. docs/operations.md:499 expects synthetic writes to succeed after
  the activation.

- **A success signal saved after the activation is lost**
  (`content_signal_lost`): `UpsertGoalDraftSuccessSignal`
  (postgres/queries/goal_drafts.sql:78) sets the column to
  `EXCLUDED.success_signal`, from which the BEFORE INSERT trigger of migration
  000010 has just moved the text away. A legacy row becomes `encrypted-v1` with
  all columns NULL; the CHECK is NULL and passes, the text is gone, and the
  draft can be neither read nor saved any more, because the authenticated
  decryption of its signal fails. The first save of such a draft does this, also
  one that changes only the body, because `SaveDraftCAS` saves both. On an
  encrypted row the UPDATE changes nothing: the save reports success and the old
  signal stays. docs/design.md:600 promises that body and signal are saved as
  one value, docs/database.md:23 that an encrypted row has all its columns.

Met while modelling, without a run of their own:

- `SetMode` counts running legacy generations in the snapshot that its lock
  statement took before it waited. A writer it waited for can leave a running
  legacy generation behind the activation; the trigger then refuses to finish
  it with an output. The documented stop of writes (docs/database.md:105)
  avoids it; the integration test counts in a transaction of another isolation
  level.
- A legacy generation without any text is "processed" by the backfill without
  being changed, so the command repeats it until its time is over, and the mode
  can never become strict. The rows of the model always have a text.
- docs/design.md:5072 names the operational cleanup as one of the two ways an
  expired lease is recovered. The cleanup has no such statement, so a crashed
  operation of a user who does not return keeps its reservation in the budget
  of its month.
- If the creation editor goes away while its discard or start is pending, its
  unsaved text is put into the browser database and the cleanup that
  docs/design.md:4481 promises is skipped; the record stays until it expires.
- A save that makes the first key while it holds a row lock, and an account
  deletion that holds the user row and waits for that row, wait for each other
  over two connections, which PostgreSQL cannot see; one of them has to be
  given up by its client (`TimesOut`).
- A page can become usable again with editors that save nothing. Its session
  expires and an answer says so: the recovery closes the autosave scopes, then
  its GET times out and the page stays hidden with a retry. Another tab that
  still had the bootstrap ID resumes the same user; its advisory reaches the
  page as CSRF_INVALID, which starts a recovery of its own and resets
  `quiescedRecoveryRef` (sessionRecoveryController.ts:183-191). Its GET finds
  the same user, so `publishSession` is called with `remountSameIdentity` false
  (sessionRecoveryAttempt.ts:277-279), and the children are shown again as they
  were, with their scopes closed (useDraftAutoSave.ts:165 keeps them). The tests
  at SessionProvider.test.tsx:1600, 1690 and 2324 expect editors that save
  after such a recovery, and docs/design.md:2480 says so. `EditorsWork` in
  `SessionBoundary` states it; as an INVARIANT in `session.cfg` it is violated.
- `clearBootstrapID` runs outside of the Web Lock. A tab that waited for the
  lock and found the session of another tab may therefore delete the ID that
  the other one has just used or is about to use again: if that tab lost the
  answer to its POST, its retry draws a new ID and makes a second anonymous
  user, which docs/design.md:1450 and 2354 say the kept ID prevents.

## 7. Not modelled

Besides what section 2 lists as left: wording, validation and length limits
of texts; listing and cursors; HTTP, rendering, metrics and deployment;
cryptography; the launch gate and the KPI report; restoring backups. In
`AIOperation` and `GoalLifecycle` a transaction is one step; that its
statements, interleaved with those of others, leave what one step would leave
is what `transactions` checks for pairs.
