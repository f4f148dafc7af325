---------------------------- MODULE GoalLifecycle ----------------------------
(***************************************************************************)
(* The life of the goals of one user, from a creation draft to deletion:   *)
(* every use case that changes the rows of goals, goal_versions,           *)
(* pdca_cycles, goal_drafts and goal_delete_receipts.                      *)
(*                                                                         *)
(* An action is one committed transaction. A request carries an operation  *)
(* id (its Idempotency-Key) and the revisions its sender last saw, which   *)
(* are arbitrary: a request may be delayed, delivered twice, or sent again *)
(* under another operation id. A request that is refused or replayed       *)
(* changes no row and is not a step; that a replay can be answered, and    *)
(* when it cannot, is an invariant.                                        *)
(*                                                                         *)
(* A slot g stands for a creation draft and for the goal it becomes: ids   *)
(* are never reused, so a slot that was deleted stays "gone". Cycles and   *)
(* versions are identified by their goal and number.                       *)
(***************************************************************************)
EXTENDS Integers, FiniteSets

CONSTANTS
    Goals,
    Ops,                    \* operation ids
    Bodies, BlankBody,      \* texts of a goal
    Signals, NoSignal,      \* success signals; NoSignal is SQL NULL
    Frames, ActionFrame,    \* plan, do, check, action
    Texts, BlankText,       \* texts of a frame
    MaxProgressingGoals,
    MaxCycles,              \* bound on the cycles of one goal
    MaxRevision,            \* bound on the edits of one draft, cycle or schedule
    NoContent, NoReceipt

Nums == 1..MaxCycles

Contents == [body: Bodies, signal: Signals]

\* The requests whose operation id makes them answerable twice: the fields
\* are those the request hash covers.
StartReq(g, dr) == [kind |-> "start", goal |-> g, draftRev |-> dr]
ContinueReq(g, gr, dr) == [kind |-> "continue", goal |-> g, goalRev |-> gr, draftRev |-> dr]
ReplanReq(g, n, gr, cr, sr) ==
    [kind |-> "replan", goal |-> g, cycle |-> n, goalRev |-> gr,
     contentRev |-> cr, scheduleRev |-> sr]
CompleteReq(g, n, gr, cr) ==
    [kind |-> "complete", goal |-> g, cycle |-> n, goalRev |-> gr, contentRev |-> cr]
TerminateCycleReq(g, outcome, n, gr, cr) ==
    [kind |-> "terminate_cycle", goal |-> g, outcome |-> outcome, cycle |-> n,
     goalRev |-> gr, contentRev |-> cr]
TerminateReviewReq(g, outcome, gr, discard) ==
    [kind |-> "terminate_review", goal |-> g, outcome |-> outcome,
     goalRev |-> gr, discard |-> discard]
DeleteReq(g, gr) == [kind |-> "delete", goal |-> g, goalRev |-> gr]

StartRequests ==
    [kind: {"start"}, goal: Goals, draftRev: Nat]
    \cup [kind: {"continue"}, goal: Goals, goalRev: Nat, draftRev: Nat]
    \cup [kind: {"replan"}, goal: Goals, cycle: Nums, goalRev: Nat, contentRev: Nat,
          scheduleRev: Nat]
CompleteRequests ==
    [kind: {"complete"}, goal: Goals, cycle: Nums, goalRev: Nat, contentRev: Nat]
Outcomes == {"achieved", "ended"}
TerminateRequests ==
    [kind: {"terminate_cycle"}, goal: Goals, outcome: Outcomes, cycle: Nums,
     goalRev: Nat, contentRev: Nat]
    \cup [kind: {"terminate_review"}, goal: Goals, outcome: Outcomes, goalRev: Nat,
          discard: BOOLEAN]
DeleteRequests == [kind: {"delete"}, goal: Goals, goalRev: Nat]
Requests == StartRequests \cup CompleteRequests \cup TerminateRequests \cup DeleteRequests

Receipts(requests) == [op: Ops, req: requests] \cup {NoReceipt}

\* goal_delete_receipts: answered until expires_at, kept for good.
DeleteReceipts == [req: DeleteRequests, fresh: BOOLEAN] \cup {NoReceipt}

ASSUME LifecycleAssumption ==
    /\ IsFiniteSet(Goals)
    /\ BlankBody \in Bodies /\ NoSignal \in Signals
    /\ ActionFrame \in Frames /\ BlankText \in Texts
    /\ MaxCycles \in Nat \ {0} /\ MaxRevision \in Nat /\ MaxProgressingGoals \in Nat
    /\ NoContent \notin Contents
    /\ NoReceipt \notin [op: Ops, req: Requests] /\ NoReceipt \notin Ops
    /\ NoReceipt \notin [req: DeleteRequests, fresh: BOOLEAN]

VARIABLES
    goal,           \* goals rows
    version,        \* goal_versions: content and created_by_operation_id
    cycle,          \* pdca_cycles rows with their review schedule
    draft,          \* goal_drafts row of the slot, creation or review
    running,        \* target of the running AI generation of the goal
    receipt,        \* goal_delete_receipts, by operation id
    applied,        \* history: the requests that took effect and what they answered
    again           \* history: some request took effect a second time

vars == <<goal, version, cycle, draft, running, receipt, applied, again>>

Statuses == {"none", "active_cycle", "goal_review", "achieved", "ended", "gone"}
GoalRow == [status: Statuses, version: 0..MaxCycles, next: 1..MaxCycles + 1,
            revision: Nat, terminal: Receipts(TerminateRequests)]
VersionRow == [content: Contents \cup {NoContent}, by: Ops \cup {NoReceipt}]
CycleRow ==
    [status: {"absent", "active", "completed", "canceled"},
     version: 0..MaxCycles,
     text: [Frames -> Texts], rev: [Frames -> Nat], content: Nat,
     scheduled: BOOLEAN, scheduleRev: Nat,
     reason: {"none", "replanned", "goal_achieved", "goal_ended"},
     startedBy: Receipts(StartRequests), completedBy: Receipts(CompleteRequests)]
DraftRow == [kind: {"none", "creation", "review"}, content: Contents \cup {NoContent},
             revision: Nat, base: 0..MaxCycles, trigger: 0..MaxCycles]

\* ai_generations.status = 'running': of a cycle (by number) or of the draft.
Targets == [on: {"nothing", "draft"}, cycle: {0}] \cup [on: {"cycle"}, cycle: Nums]
Nothing == [on |-> "nothing", cycle |-> 0]
OnDraft == [on |-> "draft", cycle |-> 0]
OnCycle(n) == [on |-> "cycle", cycle |-> n]

EmptyGoal(status) ==
    [status |-> status, version |-> 0, next |-> 1, revision |-> 0, terminal |-> NoReceipt]
NoVersion == [content |-> NoContent, by |-> NoReceipt]
NoDraft == [kind |-> "none", content |-> NoContent, revision |-> 0, base |-> 0, trigger |-> 0]

NewCycle(v, op, req) ==
    [status |-> "active", version |-> v,
     text |-> [f \in Frames |-> BlankText], rev |-> [f \in Frames |-> 0], content |-> 0,
     scheduled |-> FALSE, scheduleRev |-> 0, reason |-> "none",
     startedBy |-> [op |-> op, req |-> req], completedBy |-> NoReceipt]
NoCycle == [NewCycle(0, NoReceipt, NoReceipt) EXCEPT !.status = "absent", !.startedBy = NoReceipt]

Init ==
    /\ goal = [g \in Goals |-> EmptyGoal("none")]
    /\ version = [g \in Goals |-> [n \in Nums |-> NoVersion]]
    /\ cycle = [g \in Goals |-> [n \in Nums |-> NoCycle]]
    /\ draft = [g \in Goals |-> NoDraft]
    /\ running = [g \in Goals |-> Nothing]
    /\ receipt = [op \in Ops |-> NoReceipt]
    /\ applied = {}
    /\ again = FALSE

-----------------------------------------------------------------------------
(* Lookups the transactions make. *)

Progressing == {g \in Goals : goal[g].status \in {"active_cycle", "goal_review"}}

\* UNIQUE(user_id, start_operation_id), (user_id, completion_operation_id),
\* (user_id, terminal_operation_id): the receipt of an operation is the row
\* that bears its id.
StartedBy(op) == \E g \in Goals, n \in Nums :
    cycle[g][n].startedBy # NoReceipt /\ cycle[g][n].startedBy.op = op
CompletedBy(op) == \E g \in Goals, n \in Nums :
    cycle[g][n].completedBy # NoReceipt /\ cycle[g][n].completedBy.op = op
TerminatedBy(op) == \E g \in Goals :
    goal[g].terminal # NoReceipt /\ goal[g].terminal.op = op

CurrentContent(g) == version[g][goal[g].version].content

\* Mutant: only the status of the goal is looked at.
GoalOpen(g, n) == goal[g].status = "active_cycle"

\* What every use case of the active cycle checks under the row locks.
CycleOpen(g, n) == goal[g].status = "active_cycle" /\ cycle[g][n].status = "active"

HasRunningCycleGeneration(g, n) == running[g] = OnCycle(n)

MissingRequiredFrames(c) == {f \in Frames : c.text[f] = BlankText}

\* Mutant: an edit of the success signal alone is not an edit.
DraftBodyDiffers(g) == draft[g].content.body # CurrentContent(g).body

\* ReviewContentChanged and ReviewDraftDiffersFromVersion
DraftDiffers(g) == draft[g].content # CurrentContent(g)

\* History: request req took effect under op; created tells whether the
\* answer said that it made a goal version.
Record(op, req, created) ==
    /\ applied' = applied \cup {[op |-> op, req |-> req, created |-> created]}
    /\ again' = (again \/ \E a \in applied : a.req = req)
NotRecorded == UNCHANGED <<applied, again>>

-----------------------------------------------------------------------------
(* Drafts. *)

CreateDraft(g, body) ==
    /\ goal[g].status = "none" /\ draft[g].kind = "none"
    /\ \A h \in Goals : draft[h].kind # "creation"
    /\ draft' = [draft EXCEPT ![g] =
          [NoDraft EXCEPT !.kind = "creation",
                          !.content = [body |-> body, signal |-> NoSignal]]]
    /\ UNCHANGED <<goal, version, cycle, running, receipt>>
    /\ NotRecorded

\* goal.SaveDraft: the same content is accepted at any revision and changes
\* nothing. AdoptGoalSuggestion changes the body in the same way.
EditDraft(g, content, dr) ==
    /\ draft[g].content # content
    /\ draft[g].revision = dr
    /\ dr < MaxRevision
    /\ draft' = [draft EXCEPT ![g].content = content, ![g].revision = dr + 1]
    /\ UNCHANGED <<goal, version, cycle, running, receipt>>
    /\ NotRecorded

SaveDraft(g, content, dr) ==
    /\ draft[g].kind = "creation"
    /\ EditDraft(g, content, dr)

\* expectedReviewDraftID names the review by the cycle that triggered it.
SaveReview(g, trigger, content, dr) ==
    /\ goal[g].status = "goal_review"
    /\ draft[g].kind = "review" /\ draft[g].trigger = trigger
    /\ EditDraft(g, content, dr)

AbandonDraft(g) ==
    /\ draft[g].kind = "creation"
    /\ running[g] # OnDraft
    /\ draft' = [draft EXCEPT ![g] = NoDraft]
    /\ goal' = [goal EXCEPT ![g] = EmptyGoal("gone")]
    /\ UNCHANGED <<version, cycle, running, receipt>>
    /\ NotRecorded

StartGoal(g, op, dr) ==
    /\ ~StartedBy(op)
    /\ draft[g].kind = "creation"
    /\ draft[g].revision = dr
    /\ draft[g].content.body # BlankBody
    /\ running[g] # OnDraft
    /\ Cardinality(Progressing) < MaxProgressingGoals
    /\ goal' = [goal EXCEPT ![g] =
          [EmptyGoal("active_cycle") EXCEPT !.version = 1, !.next = 2]]
    /\ version' = [version EXCEPT ![g][1] = [content |-> draft[g].content, by |-> op]]
    /\ cycle' = [cycle EXCEPT ![g][1] = NewCycle(1, op, StartReq(g, dr))]
    /\ draft' = [draft EXCEPT ![g] = NoDraft]
    /\ Record(op, StartReq(g, dr), TRUE)
    /\ UNCHANGED <<running, receipt>>

-----------------------------------------------------------------------------
(* The active cycle. *)

SaveFrame(g, n, f, text, fr) ==
    LET c == cycle[g][n] IN
    /\ CycleOpen(g, n)
    /\ f = ActionFrame => ~HasRunningCycleGeneration(g, n)
    /\ c.text[f] # text
    /\ c.rev[f] = fr
    /\ c.content < MaxRevision
    /\ cycle' = [cycle EXCEPT ![g][n].text[f] = text,
                              ![g][n].rev[f] = fr + 1,
                              ![g][n].content = @ + 1]
    /\ UNCHANGED <<goal, version, draft, running, receipt>>
    /\ NotRecorded

ChangeReviewSchedule(g, n, scheduled, sr) ==
    LET c == cycle[g][n] IN
    /\ CycleOpen(g, n)
    /\ c.scheduled # scheduled
    /\ c.scheduleRev = sr
    /\ sr < MaxRevision
    /\ cycle' = [cycle EXCEPT ![g][n].scheduled = scheduled, ![g][n].scheduleRev = sr + 1]
    /\ UNCHANGED <<goal, version, draft, running, receipt>>
    /\ NotRecorded

CompleteCycle(g, op, n, gr, cr) ==
    LET c == cycle[g][n] IN
    /\ ~CompletedBy(op)
    /\ CycleOpen(g, n)
    /\ goal[g].revision = gr
    /\ c.version = goal[g].version
    /\ c.content = cr
    /\ ~HasRunningCycleGeneration(g, n)
    /\ MissingRequiredFrames(c) = {}
    /\ cycle' = [cycle EXCEPT ![g][n].status = "completed",
          ![g][n].completedBy = [op |-> op, req |-> CompleteReq(g, n, gr, cr)]]
    /\ draft' = [draft EXCEPT ![g] =
          [kind |-> "review", content |-> CurrentContent(g), revision |-> 0,
           base |-> goal[g].version, trigger |-> n]]
    /\ goal' = [goal EXCEPT ![g].status = "goal_review", ![g].revision = @ + 1]
    /\ Record(op, CompleteReq(g, n, gr, cr), FALSE)
    /\ UNCHANGED <<version, running, receipt>>

\* Mutant: the cycle that is given up counts as completed.
CancelAsCompleted(c, reason) == [c EXCEPT !.status = "completed"]

Cancel(c, reason) == [c EXCEPT !.status = "canceled", !.reason = reason]

\* Mutant: the next sequence number is not advanced.
ReplanKeepsNumber(row) == [row EXCEPT !.revision = @ + 1]

Replan(row) == [row EXCEPT !.next = @ + 1, !.revision = @ + 1]

ReplanCycle(g, op, n, gr, cr, sr) ==
    LET c == cycle[g][n]
        req == ReplanReq(g, n, gr, cr, sr)
    IN
    /\ ~StartedBy(op)
    /\ CycleOpen(g, n)
    /\ goal[g].revision = gr
    /\ n = goal[g].next - 1
    /\ c.content = cr /\ c.scheduleRev = sr
    /\ c.version = goal[g].version
    /\ ~HasRunningCycleGeneration(g, n)
    /\ n < MaxCycles
    /\ cycle' = [cycle EXCEPT ![g][n] = Cancel(c, "replanned"),
                              ![g][n + 1] = NewCycle(goal[g].version, op, req)]
    /\ goal' = [goal EXCEPT ![g] = Replan(goal[g])]
    /\ Record(op, req, FALSE)
    /\ UNCHANGED <<version, draft, running, receipt>>

-----------------------------------------------------------------------------
(* The review. *)

\* Mutant: a new version is filed under the operation of the old one.
VersionUnderOldOp(g, op) == [content |-> draft[g].content, by |-> version[g][goal[g].version].by]

NewVersion(g, op) == [content |-> draft[g].content, by |-> op]

\* All of the transaction but the comparison of the goal revision.
ContinueFrom(g, op, gr, dr) ==
    LET n == goal[g].next
        changed == DraftDiffers(g)
        v == goal[g].version + (IF changed THEN 1 ELSE 0)
    IN
    /\ ~StartedBy(op)
    /\ goal[g].status = "goal_review"
    /\ draft[g].kind = "review"
    /\ draft[g].revision = dr
    /\ running[g] # OnDraft
    /\ draft[g].base = goal[g].version
    /\ draft[g].content.body # BlankBody
    /\ n <= MaxCycles
    /\ version' = IF changed THEN [version EXCEPT ![g][v] = NewVersion(g, op)] ELSE version
    /\ cycle' = [cycle EXCEPT ![g][n] = NewCycle(v, op, ContinueReq(g, gr, dr))]
    /\ goal' = [goal EXCEPT ![g].status = "active_cycle", ![g].version = v,
                            ![g].next = n + 1, ![g].revision = @ + 1]
    /\ draft' = [draft EXCEPT ![g] = NoDraft]
    /\ Record(op, ContinueReq(g, gr, dr), changed)
    /\ UNCHANGED <<running, receipt>>

\* Mutant: the revision of the goal is not compared.
ContinueAnyReview(g, op, gr, dr) == ContinueFrom(g, op, gr, dr)

ContinueReview(g, op, gr, dr) ==
    /\ goal[g].revision = gr
    /\ ContinueFrom(g, op, gr, dr)

-----------------------------------------------------------------------------
(* The end of a goal. *)

Reason(outcome) == IF outcome = "achieved" THEN "goal_achieved" ELSE "goal_ended"

\* Mutant: the reason of the cancellation is stored as the status.
TerminateWithReason(row, outcome, receiptOfOp) ==
    [row EXCEPT !.status = Reason(outcome), !.revision = @ + 1, !.terminal = receiptOfOp]

Terminate(row, outcome, receiptOfOp) ==
    [row EXCEPT !.status = outcome, !.revision = @ + 1, !.terminal = receiptOfOp]

TerminateActiveCycle(g, op, outcome, n, gr, cr) ==
    LET req == TerminateCycleReq(g, outcome, n, gr, cr) IN
    /\ ~TerminatedBy(op)
    /\ CycleOpen(g, n)
    /\ goal[g].revision = gr
    /\ cycle[g][n].content = cr
    /\ running[g].on # "cycle"
    /\ cycle' = [cycle EXCEPT ![g][n] = Cancel(cycle[g][n], Reason(outcome))]
    /\ goal' = [goal EXCEPT ![g] = Terminate(goal[g], outcome, [op |-> op, req |-> req])]
    /\ Record(op, req, FALSE)
    /\ UNCHANGED <<version, draft, running, receipt>>

TerminateGoalReview(g, op, outcome, gr, discard) ==
    LET req == TerminateReviewReq(g, outcome, gr, discard) IN
    /\ ~TerminatedBy(op)
    /\ goal[g].status = "goal_review"
    /\ draft[g].kind = "review"
    /\ goal[g].revision = gr
    /\ running[g] # OnDraft
    /\ draft[g].base = goal[g].version
    /\ DraftDiffers(g) => discard
    /\ draft' = [draft EXCEPT ![g] = NoDraft]
    /\ goal' = [goal EXCEPT ![g] = Terminate(goal[g], outcome, [op |-> op, req |-> req])]
    /\ Record(op, req, FALSE)
    /\ UNCHANGED <<version, cycle, running, receipt>>

\* A request goes on under a new key, or under its own once the receipt has
\* expired; a fresh receipt answers it, and another request is refused.
Unanswered(op, req) ==
    receipt[op] # NoReceipt => receipt[op].req = req /\ ~receipt[op].fresh

\* Deletion does not wait for a running generation: it ends it. The rows of
\* the goal go with it (ON DELETE CASCADE), the receipt stays.
DeleteGoal(g, op, gr) ==
    /\ Unanswered(op, DeleteReq(g, gr))
    /\ goal[g].status \notin {"none", "gone"}
    /\ goal[g].revision = gr
    /\ goal' = [goal EXCEPT ![g] = EmptyGoal("gone")]
    /\ version' = [version EXCEPT ![g] = [n \in Nums |-> NoVersion]]
    /\ cycle' = [cycle EXCEPT ![g] = [n \in Nums |-> NoCycle]]
    /\ draft' = [draft EXCEPT ![g] = NoDraft]
    /\ running' = [running EXCEPT ![g] = Nothing]
    /\ receipt' = [receipt EXCEPT ![op] = [req |-> DeleteReq(g, gr), fresh |-> TRUE]]
    /\ Record(op, DeleteReq(g, gr), FALSE)

\* goalDeleteReceiptTTL has passed: nothing deletes the row.
ReceiptExpires(op) ==
    /\ receipt[op] # NoReceipt /\ receipt[op].fresh
    /\ receipt' = [receipt EXCEPT ![op].fresh = FALSE]
    /\ UNCHANGED <<goal, version, cycle, draft, running>>
    /\ NotRecorded

-----------------------------------------------------------------------------
(* AI operations, as far as they touch these rows (AIOperation has the rest). *)

BeginActionAI(g, n) ==
    /\ CycleOpen(g, n)
    /\ cycle[g][n].version = goal[g].version
    /\ MissingRequiredFrames(cycle[g][n]) \subseteq {ActionFrame}
    /\ running[g] = Nothing
    /\ running' = [running EXCEPT ![g] = OnCycle(n)]
    /\ UNCHANGED <<goal, version, cycle, draft, receipt>>
    /\ NotRecorded

BeginGoalRefine(g) ==
    /\ draft[g].kind = "creation" \/ (draft[g].kind = "review" /\ goal[g].status = "goal_review")
    /\ draft[g].content.body # BlankBody
    /\ running[g] = Nothing
    /\ running' = [running EXCEPT ![g] = OnDraft]
    /\ UNCHANGED <<goal, version, cycle, draft, receipt>>
    /\ NotRecorded

\* Mutant: only the revision of the frame advances.
ApplyKeepsContentRevision(c, text) ==
    [c EXCEPT !.text[ActionFrame] = text, !.rev[ActionFrame] = @ + 1]

ApplyAIAction(c, text) ==
    [c EXCEPT !.text[ActionFrame] = text, !.rev[ActionFrame] = @ + 1, !.content = @ + 1]

\* Finish of an Action operation: ApplyAIAction, then the generation is over.
ApplyActionAI(g, text) ==
    LET n == running[g].cycle
        c == cycle[g][n]
    IN
    /\ running[g].on = "cycle"
    /\ CycleOpen(g, n)
    /\ c.version = goal[g].version
    /\ text # BlankText
    /\ c.content < MaxRevision
    /\ cycle' = [cycle EXCEPT ![g][n] = ApplyAIAction(c, text)]
    /\ running' = [running EXCEPT ![g] = Nothing]
    /\ UNCHANGED <<goal, version, draft, receipt>>
    /\ NotRecorded

\* The operation fails, its lease is recovered, or it was a Goal Refine: the
\* suggestion changes a draft only when it is adopted.
EndAI(g) ==
    /\ running[g] # Nothing
    /\ running' = [running EXCEPT ![g] = Nothing]
    /\ UNCHANGED <<goal, version, cycle, draft, receipt>>
    /\ NotRecorded

-----------------------------------------------------------------------------
Revisions == 0..MaxRevision
GoalRevisions == 0..2 * MaxCycles

DraftStep(g) ==
    \/ \E body \in Bodies : CreateDraft(g, body)
    \/ \E content \in Contents, dr \in Revisions :
          \/ SaveDraft(g, content, dr)
          \/ \E n \in Nums : SaveReview(g, n, content, dr)
    \/ AbandonDraft(g)

CycleStep(g) ==
    \E n \in Nums :
       \/ \E f \in Frames, text \in Texts, fr \in Revisions : SaveFrame(g, n, f, text, fr)
       \/ \E scheduled \in BOOLEAN, sr \in Revisions : ChangeReviewSchedule(g, n, scheduled, sr)

Transition(g, op) ==
    \/ \E dr \in Revisions : StartGoal(g, op, dr)
    \/ \E gr \in GoalRevisions :
          \/ \E n \in Nums, cr \in Revisions :
                \/ CompleteCycle(g, op, n, gr, cr)
                \/ \E sr \in Revisions : ReplanCycle(g, op, n, gr, cr, sr)
                \/ \E outcome \in Outcomes : TerminateActiveCycle(g, op, outcome, n, gr, cr)
          \/ \E dr \in Revisions : ContinueReview(g, op, gr, dr)
          \/ \E outcome \in Outcomes, discard \in BOOLEAN :
                TerminateGoalReview(g, op, outcome, gr, discard)
          \/ DeleteGoal(g, op, gr)

AIStep(g) ==
    \/ \E n \in Nums : BeginActionAI(g, n)
    \/ BeginGoalRefine(g)
    \/ \E text \in Texts : ApplyActionAI(g, text)
    \/ EndAI(g)

GoalStep(g) ==
    DraftStep(g) \/ CycleStep(g) \/ (\E op \in Ops : Transition(g, op)) \/ AIStep(g)

Next == (\E g \in Goals : GoalStep(g)) \/ (\E op \in Ops : ReceiptExpires(op))

Spec == Init /\ [][Next]_vars

-----------------------------------------------------------------------------
(* What is read back. *)

\* LoadGoalView finds the current work of a goal by joining its rows, not by
\* a pointer: the active cycle, or the review draft and the cycle it names.
ActiveCycles(g) == {n \in Nums : cycle[g][n].status = "active"}

GoalViewValid(g) ==
    /\ goal[g].status = "active_cycle" => \E n \in Nums : ActiveCycles(g) = {n}
    /\ goal[g].status = "goal_review" =>
          /\ draft[g].kind = "review"
          /\ draft[g].trigger \in Nums /\ cycle[g][draft[g].trigger].status # "absent"

\* What the goal says: its current version.
Aim(g) == IF goal[g].version = 0 THEN NoContent ELSE CurrentContent(g)

\* The predecessor an active cycle is shown with the Action it carries over.
PredecessorValid(g, n) ==
    LET c == cycle[g][n]
        p == cycle[g][n - 1]
    IN  c.status = "active" /\ n > 1 =>
          \/ /\ p.status = "completed"
             /\ p.text[ActionFrame] # BlankText
             /\ p.version \in {c.version - 1, c.version}
          \/ /\ p.status = "canceled" /\ p.reason = "replanned"
             /\ p.version = c.version

\* The edits of a cycle, frame by frame: as many as the sum of the revisions
\* of its frames.
Edits(c) == UNION {{f} \X (1..c.rev[f]) : f \in Frames}

CycleViewValid(g, n) ==
    LET c == cycle[g][n] IN
    /\ c.status # "absent"
    /\ c.content = Cardinality(Edits(c))
    /\ c.status = "completed" <=> c.completedBy # NoReceipt
    /\ c.status = "canceled" <=> c.reason # "none"
    /\ c.version \in 1..goal[g].version
    /\ version[g][c.version] # NoVersion
    /\ version[g][c.version].content.body # BlankBody
    /\ PredecessorValid(g, n)

VersionCreated(g, op) == \E v \in Nums : version[g][v].by = op

\* validateReplanCycleReplay
ReplanReplay(g, n) ==
    /\ n > 1
    /\ CycleViewValid(g, n - 1)
    /\ cycle[g][n - 1].status = "canceled" /\ cycle[g][n - 1].reason = "replanned"
    /\ cycle[g][n - 1].version = cycle[g][n].version
    /\ cycle[g][n].status = "active" => goal[g].status = "active_cycle" /\ ActiveCycles(g) = {n}

\* FindReviewDraftByCycle finds the draft of the review that cycle n opened.
ReviewOpen(g, n) == draft[g].kind = "review" /\ draft[g].trigger = n

\* The user has edited the success signal in the review that cycle n opened.
SignalEdited(g, n) ==
    ReviewOpen(g, n) /\ draft[g].content.signal # version[g][cycle[g][n].version].content.signal

\* validateCompleteCycleReplay: with the draft of the review, if it is still
\* there, which must bear the success signal of the version it is based on
\* (a goal in review has one, by GoalViewValid).
CompleteReplay(g, n) ==
    /\ GoalViewValid(g) /\ CycleViewValid(g, n) /\ cycle[g][n].status = "completed"
    /\ ReviewOpen(g, n) =>
          /\ goal[g].status = "goal_review" /\ draft[g].base = cycle[g][n].version
          /\ ~SignalEdited(g, n)

\* A repeated deletion finds its own receipt, and once that has expired no
\* goal: 204 with replayed, then 404, and never another deletion.
DeleteReplay(op, req) ==
    receipt[op] # NoReceipt /\ receipt[op].req = req /\ goal[req.goal].status = "gone"

\* validateTerminationResult with replayed = true
TerminateReplay(g, req) ==
    /\ goal[g].status = req.outcome
    /\ goal[g].revision = req.goalRev + 1
    /\ req.kind = "terminate_cycle" =>
          /\ cycle[g][req.cycle].status = "canceled"
          /\ cycle[g][req.cycle].reason = Reason(req.outcome)
          /\ CycleViewValid(g, req.cycle)

-----------------------------------------------------------------------------
(* Properties. *)

TypeOK ==
    /\ goal \in [Goals -> GoalRow]
    /\ version \in [Goals -> [Nums -> VersionRow]]
    /\ cycle \in [Goals -> [Nums -> CycleRow]]
    /\ draft \in [Goals -> DraftRow]
    /\ running \in [Goals -> Targets]
    /\ receipt \in [Ops -> DeleteReceipts]
    /\ applied \subseteq [op: Ops, req: Requests, created: BOOLEAN]
    /\ again \in BOOLEAN

\* Cycles and versions are numbered without gaps, up to the numbers the goals
\* row remembers (UNIQUE(goal_id, sequence_number) and (goal_id, version_number)
\* forbid a second one, nothing but the use cases forbids a hole).
Dense(g) ==
    \A n \in Nums :
       /\ cycle[g][n].status # "absent" <=> n < goal[g].next
       /\ version[g][n] # NoVersion <=> n <= goal[g].version

\* Only the newest cycle may be active, and only while the goal is; every
\* other one was completed or replanned before its successor began.
Work(g) ==
    LET n == goal[g].next - 1 IN
    /\ goal[g].status = "active_cycle" =>
          n \in Nums /\ cycle[g][n].status = "active" /\ cycle[g][n].version = goal[g].version
    /\ goal[g].status = "goal_review" =>
          n \in Nums /\ cycle[g][n].status = "completed" /\ cycle[g][n].version = goal[g].version
    /\ \A m \in Nums : cycle[g][m].status = "active" =>
          goal[g].status = "active_cycle" /\ m = n
    /\ \A m \in Nums : cycle[g][m].status = "canceled" /\ m < n => cycle[g][m].reason = "replanned"

\* A review draft belongs to the review that is open: it was copied from the
\* current version when the latest cycle was completed.
Drafts(g) ==
    /\ goal[g].status = "goal_review" <=> draft[g].kind = "review"
    /\ draft[g].kind = "review" =>
          draft[g].base = goal[g].version /\ draft[g].trigger = goal[g].next - 1
    /\ draft[g].kind = "creation" => goal[g].status = "none"
    /\ goal[g].status \in {"achieved", "ended"} <=> goal[g].terminal # NoReceipt

\* The status column and the rows of a goal tell one story at every moment:
\* the queries that find the current work by joining rows find it, and find
\* one (validateGoalCurrentWork rejects anything else as corruption).
GoalShape == \A g \in Goals : Dense(g) /\ Work(g) /\ Drafts(g)

\* Every cycle of a goal can be read back: its content revision is the sum of
\* its frame revisions, and the active one is shown the Action of the cycle
\* before it, or a replanned one, under the same version or the one before.
HistoryReadable ==
    \A g \in Goals :
       /\ GoalViewValid(g)
       /\ \A n \in Nums : n < goal[g].next => CycleViewValid(g, n)

\* A request that took effect is answered again, for as long as its goal
\* exists, with the cycle and the version it made, whatever happened since.
\* CompleteCycle is the exception: it is refused as corrupted exactly while
\* the success signal of the review it opened is edited (see
\* CompleteReplayIsAnswered), and answered again when that review is over.
\* A deletion keeps its key, is answered until the receipt expires, and finds
\* no goal afterwards.
ReplaysAnswered ==
    \A a \in applied :
       LET g == a.req.goal
           r == [op |-> a.op, req |-> a.req]
       IN  IF a.req.kind = "delete"
           THEN DeleteReplay(a.op, a.req)
           ELSE goal[g].status # "gone" =>
                  CASE a.req.kind \in {"start", "continue", "replan"} ->
                          \E n \in Nums :
                             /\ cycle[g][n].startedBy = r
                             /\ CycleViewValid(g, n)
                             /\ VersionCreated(g, a.op) = a.created
                             /\ a.req.kind = "replan" => ReplanReplay(g, n)
                    [] a.req.kind = "complete" ->
                          \E n \in Nums :
                             /\ cycle[g][n].completedBy = r
                             /\ CompleteReplay(g, n) <=> ~SignalEdited(g, n)
                    [] OTHER -> goal[g].terminal = r /\ TerminateReplay(g, a.req)

\* A request takes effect at most once: neither a retry under its own
\* operation id nor a late copy under another one, nor one that arrives in a
\* later cycle or review or after deletion, is carried out again.
AppliedOnce == ~again

\* What happened stays: a completed or canceled cycle, with its texts, and a
\* goal version never change until the goal is deleted.
HistoryFrozen ==
    [][\A g \in Goals, n \in Nums :
         goal'[g].status = "gone" \/
            /\ cycle[g][n].status \in {"completed", "canceled"} => cycle'[g][n] = cycle[g][n]
            /\ version[g][n] # NoVersion => version'[g][n] = version[g][n]]_vars

\* What a user wrote in a review is not lost: when the draft goes, its content
\* is the content of the current version, or the user confirmed that it be
\* discarded, or deleted the goal.
ReviewEditsKept ==
    [][\A g \in Goals :
         draft[g].kind = "review" /\ draft[g].content # CurrentContent(g)
            /\ draft'[g].kind # "review" =>
            \/ Aim(g)' = draft[g].content
            \/ \E a \in applied' :
                  /\ a \notin applied /\ a.req.goal = g
                  /\ \/ a.req.kind = "delete"
                     \/ a.req.kind = "terminate_review" /\ a.req.discard]_vars

\* docs/design.md 20.4: a repeated CompleteCycle whose review draft still
\* exists is answered with the normal response and replayed: true.
CompleteReplayIsAnswered ==
    \A g \in Goals, n \in Nums :
       cycle[g][n].completedBy # NoReceipt /\ ReviewOpen(g, n) => CompleteReplay(g, n)

-----------------------------------------------------------------------------
(* Implementation of the journey. *)

PhaseOf(status) ==
    CASE status = "active_cycle" -> "acting"
      [] status = "goal_review" -> "reviewing"
      [] status \in {"achieved", "ended"} -> "over"
      [] OTHER -> status

\* PreviousCompletedCycleAction of the active cycle, by sequence number.
PreviousCompleted(g) ==
    LET n == goal[g].next - 2 IN
    IF goal[g].status = "active_cycle" /\ n \in Nums /\ cycle[g][n].status = "completed"
    THEN n ELSE 0

Journey == INSTANCE GoalJourney WITH
    phase <- [g \in Goals |-> PhaseOf(goal[g].status)],
    number <- [g \in Goals |-> goal[g].next - 1],
    aim <- [g \in Goals |-> Aim(g)],
    lesson <- [g \in Goals |-> PreviousCompleted(g)]

\* The rows implement the promise: through them a goal is worked on one cycle
\* at a time, is reworded only in a review, carries over the Action of
\* completed cycles only, and does not come back once over or deleted.
ImplementsJourney == Journey!Spec
=============================================================================
