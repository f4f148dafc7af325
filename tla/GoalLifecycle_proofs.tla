------------------------ MODULE GoalLifecycle_proofs ------------------------
(***************************************************************************)
(* Invariants of the life of a goal, and that its transactions implement   *)
(* the journey the user is promised: for any goals, operations, texts and  *)
(* bounds.                                                                 *)
(***************************************************************************)
EXTENDS GoalLifecycle, FiniteSetTheorems, TLAPS

\* A goal that was not started, or was deleted, has nothing; the versions of
\* the others never outnumber their cycles.
GoalFits(g) ==
    /\ goal[g].status \in {"none", "gone"} => goal[g] = EmptyGoal(goal[g].status)
    /\ goal[g].status \notin {"none", "gone"} => goal[g].version >= 1
    /\ goal[g].version < goal[g].next
    /\ draft[g].kind # "none" => draft[g].content \in Contents

\* What the rows of one cycle say about it, but for the revisions of its texts.
CycleFits(g, n) ==
    LET c == cycle[g][n] IN
    /\ c.status = "completed" <=> c.completedBy # NoReceipt
    /\ c.status = "canceled" <=> c.reason # "none"
    /\ c.status # "absent" => c.version \in 1..goal[g].version
    /\ c.status = "completed" => c.text[ActionFrame] # BlankText
    /\ PredecessorValid(g, n)

VersionFits(g, n) ==
    version[g][n] # NoVersion =>
        version[g][n].content \in Contents /\ version[g][n].content.body # BlankBody

SlotFits(g) ==
    /\ Dense(g) /\ Work(g) /\ Drafts(g) /\ GoalFits(g)
    /\ \A n \in Nums : CycleFits(g, n) /\ VersionFits(g, n)

\* A request that took effect left its goal where its guard cannot hold again:
\* past its draft, past the revision it was sent for, or deleted.
Spent(a) ==
    LET row == goal[a.req.goal] IN
    /\ row.status # "none"
    /\ a.req.kind = "delete" => row.status = "gone"
    /\ a.req.kind \notin {"start", "delete"} => row.status = "gone" \/ a.req.goalRev < row.revision

AppliedFits == (\A a \in applied : Spent(a)) /\ ~again

IInv == TypeOK /\ (\A g \in Goals : SlotFits(g)) /\ AppliedFits

-----------------------------------------------------------------------------
(***************************************************************************)
(* Rows                                                                    *)
(***************************************************************************)

LEMMA NewCycleIsRow ==
  ASSUME NEW v \in 0..MaxCycles, NEW op \in Ops, NEW req \in StartRequests
  PROVE  /\ NewCycle(v, op, req) \in CycleRow
         /\ NewCycle(v, op, req).status = "active" /\ NewCycle(v, op, req).version = v
         /\ NewCycle(v, op, req).reason = "none" /\ NewCycle(v, op, req).completedBy = NoReceipt
         /\ NewCycle(v, op, req).startedBy = [op |-> op, req |-> req]
BY LifecycleAssumption DEF NewCycle, CycleRow, Receipts

LEMMA NoCycleIsRow ==
  /\ NoCycle \in CycleRow
  /\ NoCycle.status = "absent" /\ NoCycle.reason = "none" /\ NoCycle.completedBy = NoReceipt
  /\ NoCycle.startedBy = NoReceipt
<1>1. 0 \in 0..MaxCycles /\ 0 \in Nat
  BY LifecycleAssumption
<1>2. QED
  BY <1>1, LifecycleAssumption DEF NoCycle, NewCycle, CycleRow, Receipts

LEMMA EmptyRows ==
  /\ EmptyGoal("none") \in GoalRow /\ EmptyGoal("gone") \in GoalRow
  /\ NoVersion \in VersionRow /\ NoDraft \in DraftRow /\ Nothing \in Targets
BY LifecycleAssumption
   DEF EmptyGoal, GoalRow, Statuses, Receipts, NoVersion, VersionRow, NoDraft, DraftRow, Nothing, Targets

\* A receipt is a receipt of the operation it names.
LEMMA ReceiptsDiffer ==
  ASSUME NEW op \in Ops, NEW req \in Requests
  PROVE  [op |-> op, req |-> req] # NoReceipt
BY LifecycleAssumption

\* A slot whose rows nobody touched.
SlotStays(h) ==
    goal'[h] = goal[h] /\ version'[h] = version[h] /\ cycle'[h] = cycle[h] /\ draft'[h] = draft[h]

LEMMA SlotStaysFits ==
  ASSUME NEW h \in Goals, SlotFits(h), SlotStays(h)
  PROVE  SlotFits(h)'
<1>1. Dense(h)' /\ Work(h)' /\ Drafts(h)' /\ GoalFits(h)'
  BY DEF SlotStays, SlotFits, Dense, Work, Drafts, GoalFits
<1>2. \A n \in Nums : CycleFits(h, n)' /\ VersionFits(h, n)'
  BY DEF SlotStays, SlotFits, CycleFits, VersionFits, PredecessorValid
<1>3. QED
  BY <1>1, <1>2 DEF SlotFits

\* A goal that was started stays started, one that was deleted stays deleted,
\* and its revision never goes back.
GoalAdvances(g) ==
    /\ goal[g].status # "none" => goal'[g].status # "none"
    /\ goal[g].status = "gone" => goal'[g].status = "gone"
    /\ goal'[g].status = "gone" \/ goal[g].revision <= goal'[g].revision

\* What a request that takes effect on g must leave behind.
TakesEffect(op, req, created, g) ==
    /\ req.goal = g
    /\ \A a \in applied : a.req # req
    /\ Spent([op |-> op, req |-> req, created |-> created])'
    /\ Record(op, req, created)

LEMMA SlotStep ==
  ASSUME IInv, NEW g \in Goals, TypeOK', SlotFits(g)', GoalAdvances(g),
         \A h \in Goals \ {g} : SlotStays(h),
         \/ NotRecorded
         \/ \E op \in Ops, req \in Requests, created \in BOOLEAN : TakesEffect(op, req, created, g)
  PROVE  IInv'
<1>1. \A h \in Goals : SlotFits(h)'
  BY SlotStaysFits DEF IInv
<1>2. ASSUME NEW a \in applied PROVE Spent(a)'
  <2>1. Spent(a) /\ a.req.goal \in Goals
    BY <1>2 DEF IInv, AppliedFits, TypeOK, Requests, StartRequests, CompleteRequests,
                TerminateRequests, DeleteRequests
  <2>2. a.req.kind \notin {"start", "delete"} => a.req.goalRev \in Nat
    BY <1>2 DEF IInv, TypeOK, Requests, StartRequests, CompleteRequests,
                TerminateRequests, DeleteRequests
  <2>3. goal[a.req.goal].revision \in Nat /\ goal'[a.req.goal].revision \in Nat
    BY <2>1 DEF IInv, TypeOK, GoalRow
  <2>4. QED
    BY <2>1, <2>2, <2>3 DEF Spent, GoalAdvances, SlotStays
<1>3. AppliedFits'
  <2>1. CASE NotRecorded
    BY <1>2, <2>1 DEF IInv, AppliedFits, NotRecorded
  <2>2. CASE \E op \in Ops, req \in Requests, created \in BOOLEAN : TakesEffect(op, req, created, g)
    BY <1>2, <2>2 DEF IInv, AppliedFits, TakesEffect, Record
  <2>3. QED
    BY <2>1, <2>2
<1>4. QED
  BY <1>1, <1>3 DEF IInv

LEMMA InitIsIInv == Init => IInv
<1> SUFFICES ASSUME Init PROVE IInv
  OBVIOUS
<1>1. TypeOK
  BY EmptyRows, NoCycleIsRow DEF Init, TypeOK, DeleteReceipts
<1>2. ASSUME NEW g \in Goals PROVE SlotFits(g)
  <2>1. /\ goal[g] = EmptyGoal("none") /\ draft[g] = NoDraft
        /\ \A n \in Nums : version[g][n] = NoVersion /\ cycle[g][n] = NoCycle
    BY DEF Init
  <2>2. Dense(g) /\ Work(g) /\ Drafts(g) /\ GoalFits(g)
    BY <2>1, NoCycleIsRow, LifecycleAssumption
       DEF Dense, Work, Drafts, GoalFits, EmptyGoal, NoDraft, Nums
  <2>3. \A n \in Nums : CycleFits(g, n) /\ VersionFits(g, n)
    BY <2>1, NoCycleIsRow DEF CycleFits, VersionFits, PredecessorValid
  <2>4. QED
    BY <2>2, <2>3 DEF SlotFits
<1>3. AppliedFits
  BY DEF Init, AppliedFits
<1>4. QED
  BY <1>1, <1>2, <1>3 DEF IInv

-----------------------------------------------------------------------------
(***************************************************************************)
(* Steps of the AI operations and edits                                    *)
(***************************************************************************)

LEMMA RunningKeeps ==
  ASSUME IInv, NEW g \in Goals,
         \/ \E n \in Nums : BeginActionAI(g, n)
         \/ BeginGoalRefine(g) \/ EndAI(g)
  PROVE  IInv'
<1>1. UNCHANGED <<goal, version, cycle, draft, receipt>> /\ NotRecorded
  BY DEF BeginActionAI, BeginGoalRefine, EndAI
<1>2. running' \in [Goals -> Targets]
  <2>1. \E r \in Targets : running' = [running EXCEPT ![g] = r]
    <3>1. Nothing \in Targets /\ OnDraft \in Targets /\ \A n \in Nums : OnCycle(n) \in Targets
      BY DEF Nothing, OnDraft, OnCycle, Targets
    <3>2. QED
      BY <3>1 DEF BeginActionAI, BeginGoalRefine, EndAI
  <2>2. QED
    BY <2>1 DEF IInv, TypeOK
<1>3. TypeOK'
  BY <1>1, <1>2 DEF IInv, TypeOK, NotRecorded
<1>4. SlotStays(g) /\ (\A h \in Goals : SlotStays(h)) /\ goal[g].revision \in Nat
  BY <1>1 DEF SlotStays, IInv, TypeOK, GoalRow
<1>5. SlotFits(g)' /\ GoalAdvances(g)
  BY <1>4, SlotStaysFits DEF IInv, GoalAdvances, SlotStays
<1>6. QED
  BY <1>1, <1>3, <1>4, <1>5, SlotStep

\* A write of the draft of g that leaves its goal, versions and cycles alone.
LEMMA DraftWriteKeeps ==
  ASSUME IInv, NEW g \in Goals, NEW d \in DraftRow,
         draft' = [draft EXCEPT ![g] = d], d.content \in Contents,
         \/ d.kind = "creation" /\ goal[g].status = "none"
         \/ /\ draft[g].kind = "review" /\ d.kind = "review"
            /\ d.base = draft[g].base /\ d.trigger = draft[g].trigger,
         UNCHANGED <<goal, version, cycle, running, receipt>>, NotRecorded
  PROVE  IInv'
<1>1. TypeOK' /\ draft'[g] = d /\ \A h \in Goals \ {g} : draft'[h] = draft[h]
  BY DEF IInv, TypeOK, NotRecorded
<1>2. SlotFits(g) /\ goal[g].revision \in Nat
  BY DEF IInv, TypeOK, GoalRow
<1>3. Dense(g)' /\ Work(g)' /\ GoalFits(g)'
  BY <1>1, <1>2 DEF SlotFits, Dense, Work, GoalFits
<1>4. Drafts(g)'
  BY <1>1, <1>2 DEF SlotFits, Drafts
<1>5. \A n \in Nums : CycleFits(g, n)' /\ VersionFits(g, n)'
  BY <1>2 DEF SlotFits, CycleFits, VersionFits, PredecessorValid
<1>6. SlotFits(g)' /\ GoalAdvances(g) /\ \A h \in Goals \ {g} : SlotStays(h)
  BY <1>1, <1>2, <1>3, <1>4, <1>5 DEF SlotFits, GoalAdvances, SlotStays
<1>7. QED
  BY <1>1, <1>6, SlotStep

LEMMA EditDraftKeeps ==
  ASSUME IInv, NEW g \in Goals, NEW content \in Contents, NEW dr \in Revisions,
         EditDraft(g, content, dr), draft[g].kind # "none"
  PROVE  IInv'
<1> DEFINE d == [draft[g] EXCEPT !.content = content, !.revision = dr + 1]
<1>1. draft[g] \in DraftRow /\ SlotFits(g) /\ dr + 1 \in Nat
  BY DEF IInv, TypeOK, Revisions
<1>2. /\ d \in DraftRow /\ d.content = content /\ d.kind = draft[g].kind
      /\ d.base = draft[g].base /\ d.trigger = draft[g].trigger
  BY <1>1 DEF DraftRow
<1>3. draft' = [draft EXCEPT ![g] = d]
  BY DEF EditDraft
<1>4. draft[g].kind = "review" \/ (d.kind = "creation" /\ goal[g].status = "none")
  BY <1>1, <1>2 DEF DraftRow, SlotFits, Drafts
<1> HIDE DEF d
<1>5. QED
  BY <1>2, <1>3, <1>4, DraftWriteKeeps DEF EditDraft

LEMMA CreateDraftKeeps ==
  ASSUME IInv, NEW g \in Goals, NEW body \in Bodies, CreateDraft(g, body)
  PROVE  IInv'
<1> DEFINE d == [NoDraft EXCEPT !.kind = "creation", !.content = [body |-> body, signal |-> NoSignal]]
<1>1. d \in DraftRow /\ d.content \in Contents /\ d.kind = "creation"
  <2>1. [body |-> body, signal |-> NoSignal] \in Contents
    BY LifecycleAssumption DEF Contents
  <2>2. NoDraft \in DraftRow
    BY EmptyRows
  <2>3. QED
    BY <2>1, <2>2 DEF DraftRow
<1>2. draft' = [draft EXCEPT ![g] = d] /\ goal[g].status = "none"
  BY DEF CreateDraft
<1> HIDE DEF d
<1>3. QED
  BY <1>1, <1>2, DraftWriteKeeps DEF CreateDraft

\* A write of an open cycle that keeps what the other rows know of it.
LEMMA CycleWriteKeeps ==
  ASSUME IInv, NEW g \in Goals, NEW n \in Nums, NEW c \in CycleRow, CycleOpen(g, n),
         cycle' = [cycle EXCEPT ![g][n] = c],
         c.status = "active", c.version = cycle[g][n].version, c.reason = cycle[g][n].reason,
         c.startedBy = cycle[g][n].startedBy, c.completedBy = cycle[g][n].completedBy,
         running' \in [Goals -> Targets],
         UNCHANGED <<goal, version, draft, receipt>>, NotRecorded
  PROVE  IInv'
<1>1. SlotFits(g) /\ goal[g] \in GoalRow /\ goal[g].revision \in Nat /\ cycle[g][n].status = "active"
  BY DEF IInv, TypeOK, GoalRow, CycleOpen
<1>2. cycle' \in [Goals -> [Nums -> CycleRow]]
  BY DEF IInv, TypeOK
<1>3. TypeOK'
  BY <1>2 DEF IInv, TypeOK, NotRecorded
<1>4. /\ cycle'[g][n] = c /\ \A m \in Nums \ {n} : cycle'[g][m] = cycle[g][m]
      /\ \A h \in Goals \ {g} : cycle'[h] = cycle[h]
  BY DEF IInv, TypeOK
<1>5. Dense(g)' /\ Drafts(g)' /\ GoalFits(g)'
  BY <1>1, <1>4 DEF SlotFits, Dense, Drafts, GoalFits
<1>6. Work(g)'
  BY <1>1, <1>4 DEF SlotFits, Work
<1>7. n = goal[g].next - 1
  BY <1>1 DEF SlotFits, Work
<1>8. ASSUME NEW m \in Nums PROVE CycleFits(g, m)' /\ VersionFits(g, m)'
  <2>1. VersionFits(g, m)'
    BY <1>1 DEF SlotFits, VersionFits
  <2>3. m > 1 => m - 1 \in Nums /\ m - 1 # m
    BY LifecycleAssumption DEF Nums
  <2>4. CycleFits(g, m) /\ CycleFits(g, n)
    BY <1>1 DEF SlotFits
  <2>5. PredecessorValid(g, m)'
    <3>1. cycle'[g][m].status = cycle[g][m].status /\ cycle'[g][m].version = cycle[g][m].version
      BY <1>1, <1>4
    <3>2. cycle[g][m].status = "active" /\ m > 1 => cycle'[g][m - 1] = cycle[g][m - 1]
      BY <1>1, <1>4, <1>7, <2>3 DEF SlotFits, Work
    <3>3. QED
      BY <2>4, <3>1, <3>2 DEF CycleFits, PredecessorValid
  <2>6. QED
    BY <1>1, <1>4, <2>1, <2>4, <2>5 DEF CycleFits
<1>9. SlotFits(g)' /\ GoalAdvances(g) /\ \A h \in Goals \ {g} : SlotStays(h)
  BY <1>1, <1>4, <1>5, <1>6, <1>8 DEF SlotFits, GoalAdvances, SlotStays
<1>10. QED
  BY <1>3, <1>9, SlotStep

LEMMA SaveFrameKeeps ==
  ASSUME IInv, NEW g \in Goals, NEW n \in Nums, NEW f \in Frames, NEW text \in Texts,
         NEW fr \in Revisions, SaveFrame(g, n, f, text, fr)
  PROVE  IInv'
<1> DEFINE c == cycle[g][n]
           d == [c EXCEPT !.text = [c.text EXCEPT ![f] = text], !.rev = [c.rev EXCEPT ![f] = fr + 1],
                          !.content = c.content + 1, !.scheduled = c.scheduled,
                          !.scheduleRev = c.scheduleRev]
<1>1. c \in CycleRow /\ cycle \in [Goals -> [Nums -> CycleRow]] /\ fr \in Nat
  BY DEF IInv, TypeOK, Revisions
<1>2. /\ [c.text EXCEPT ![f] = text] \in [Frames -> Texts] /\ [c.rev EXCEPT ![f] = fr + 1] \in [Frames -> Nat]
      /\ c.content + 1 \in Nat /\ c.scheduled \in BOOLEAN /\ c.scheduleRev \in Nat
  BY <1>1 DEF CycleRow
<1>3. /\ d \in CycleRow /\ d.status = c.status /\ d.version = c.version /\ d.reason = c.reason
      /\ d.startedBy = c.startedBy /\ d.completedBy = c.completedBy
  BY <1>1, <1>2 DEF CycleRow
<1>4. cycle' = [cycle EXCEPT ![g][n] = d]
  BY <1>1 DEF SaveFrame, CycleRow
<1> HIDE DEF d
<1>5. CycleOpen(g, n) /\ UNCHANGED <<goal, version, draft, running, receipt>> /\ NotRecorded
      /\ running' \in [Goals -> Targets]
  BY DEF SaveFrame, IInv, TypeOK
<1>6. QED
  BY <1>3, <1>4, <1>5, CycleWriteKeeps DEF CycleOpen

LEMMA ChangeReviewScheduleKeeps ==
  ASSUME IInv, NEW g \in Goals, NEW n \in Nums, NEW scheduled \in BOOLEAN, NEW sr \in Revisions,
         ChangeReviewSchedule(g, n, scheduled, sr)
  PROVE  IInv'
<1> DEFINE c == cycle[g][n]
           d == [c EXCEPT !.text = c.text, !.rev = c.rev, !.content = c.content,
                          !.scheduled = scheduled, !.scheduleRev = sr + 1]
<1>1. c \in CycleRow /\ cycle \in [Goals -> [Nums -> CycleRow]] /\ sr + 1 \in Nat
  BY DEF IInv, TypeOK, Revisions
<1>2. c.text \in [Frames -> Texts] /\ c.rev \in [Frames -> Nat] /\ c.content \in Nat
  BY <1>1 DEF CycleRow
<1>3. /\ d \in CycleRow /\ d.status = c.status /\ d.version = c.version /\ d.reason = c.reason
      /\ d.startedBy = c.startedBy /\ d.completedBy = c.completedBy
  BY <1>1, <1>2 DEF CycleRow
<1>4. cycle' = [cycle EXCEPT ![g][n] = d]
  BY <1>1 DEF ChangeReviewSchedule, CycleRow
<1> HIDE DEF d
<1>5. CycleOpen(g, n) /\ UNCHANGED <<goal, version, draft, running, receipt>> /\ NotRecorded
      /\ running' \in [Goals -> Targets]
  BY DEF ChangeReviewSchedule, IInv, TypeOK
<1>6. QED
  BY <1>3, <1>4, <1>5, CycleWriteKeeps DEF CycleOpen

LEMMA ApplyActionAIKeeps ==
  ASSUME IInv, NEW g \in Goals, NEW text \in Texts, ApplyActionAI(g, text)
  PROVE  IInv'
<1> DEFINE n == running[g].cycle
           c == cycle[g][n]
           d == [c EXCEPT !.text = [c.text EXCEPT ![ActionFrame] = text],
                          !.rev = [c.rev EXCEPT ![ActionFrame] = c.rev[ActionFrame] + 1],
                          !.content = c.content + 1, !.scheduled = c.scheduled,
                          !.scheduleRev = c.scheduleRev]
<1>1. n \in Nums
  BY DEF ApplyActionAI, IInv, TypeOK, Targets
<1>2. c \in CycleRow /\ cycle \in [Goals -> [Nums -> CycleRow]] /\ ActionFrame \in Frames
  BY <1>1, LifecycleAssumption DEF IInv, TypeOK
<1>3. /\ [c.text EXCEPT ![ActionFrame] = text] \in [Frames -> Texts]
      /\ [c.rev EXCEPT ![ActionFrame] = c.rev[ActionFrame] + 1] \in [Frames -> Nat]
      /\ c.content + 1 \in Nat /\ c.scheduled \in BOOLEAN /\ c.scheduleRev \in Nat
  BY <1>2 DEF CycleRow
<1>4. /\ d \in CycleRow /\ d.status = c.status /\ d.version = c.version /\ d.reason = c.reason
      /\ d.startedBy = c.startedBy /\ d.completedBy = c.completedBy
  BY <1>2, <1>3, ZenonT(40) DEF CycleRow
<1>5. cycle' = [cycle EXCEPT ![g][n] = d]
  BY <1>2 DEF ApplyActionAI, ApplyAIAction, CycleRow
<1> HIDE DEF d
<1>6. CycleOpen(g, n) /\ UNCHANGED <<goal, version, draft, receipt>> /\ NotRecorded
      /\ running' \in [Goals -> Targets]
  BY EmptyRows DEF ApplyActionAI, IInv, TypeOK
<1>7. QED
  BY <1>1, <1>4, <1>5, <1>6, CycleWriteKeeps, ZenonT(40) DEF CycleOpen

-----------------------------------------------------------------------------
(***************************************************************************)
(* Transitions                                                             *)
(***************************************************************************)

LEMMA RecordTypes ==
  ASSUME TypeOK, NEW op \in Ops, NEW req \in Requests, NEW created \in BOOLEAN, Record(op, req, created)
  PROVE  applied' \subseteq [op : Ops, req : Requests, created : BOOLEAN] /\ again' \in BOOLEAN
<1>1. [op |-> op, req |-> req, created |-> created] \in [op : Ops, req : Requests, created : BOOLEAN]
  OBVIOUS
<1>2. applied' \subseteq [op : Ops, req : Requests, created : BOOLEAN]
  BY <1>1 DEF Record, TypeOK
<1>3. again' \in BOOLEAN
  BY Zenon DEF Record, TypeOK
<1>4. QED
  BY <1>2, <1>3

LEMMA AbandonKeeps ==
  ASSUME IInv, NEW g \in Goals, AbandonDraft(g)
  PROVE  IInv'
<1>1. TypeOK /\ SlotFits(g) /\ draft[g].kind = "creation"
  BY DEF IInv, AbandonDraft
<1>2. goal[g] = EmptyGoal("none")
  BY <1>1 DEF SlotFits, Drafts, GoalFits
<1>3. /\ goal' = [goal EXCEPT ![g] = EmptyGoal("gone")] /\ draft' = [draft EXCEPT ![g] = NoDraft]
      /\ UNCHANGED <<version, cycle, running, receipt>> /\ NotRecorded
  BY DEF AbandonDraft
<1>4. TypeOK'
  BY <1>1, <1>3, EmptyRows DEF TypeOK, NotRecorded
<1>5. goal'[g] = EmptyGoal("gone") /\ draft'[g] = NoDraft /\ \A h \in Goals \ {g} : SlotStays(h)
  BY <1>1, <1>3 DEF TypeOK, SlotStays
<1>6. SlotFits(g)'
  <2>1. Dense(g)' /\ Work(g)' /\ Drafts(g)' /\ GoalFits(g)'
    BY <1>1, <1>2, <1>3, <1>5 DEF SlotFits, Dense, Work, Drafts, GoalFits, EmptyGoal, NoDraft, Nums
  <2>2. \A n \in Nums : cycle[g][n].status = "absent" /\ version[g][n] = NoVersion
    BY <1>1, <1>2 DEF SlotFits, Dense, EmptyGoal, Nums
  <2>3. \A n \in Nums : CycleFits(g, n)' /\ VersionFits(g, n)'
    BY <1>1, <1>3, <2>2 DEF SlotFits, CycleFits, VersionFits, PredecessorValid
  <2>4. QED
    BY <2>1, <2>3 DEF SlotFits
<1>7. GoalAdvances(g)
  BY <1>2, <1>5 DEF GoalAdvances, EmptyGoal
<1>8. QED
  BY <1>3, <1>4, <1>5, <1>6, <1>7, SlotStep

LEMMA StartKeeps ==
  ASSUME IInv, NEW g \in Goals, NEW op \in Ops, NEW dr \in Revisions, StartGoal(g, op, dr)
  PROVE  IInv'
<1> DEFINE req == StartReq(g, dr)
           row == [EmptyGoal("active_cycle") EXCEPT !.version = 1, !.next = 2]
           ver == [content |-> draft[g].content, by |-> op]
           c == NewCycle(1, op, req)
<1>1. TypeOK /\ SlotFits(g) /\ draft[g].kind = "creation" /\ draft[g].content.body # BlankBody
  BY DEF IInv, StartGoal
<1>2. /\ goal[g] = EmptyGoal("none") /\ draft[g].content \in Contents
  BY <1>1 DEF SlotFits, Drafts, GoalFits
<1>3. /\ goal' = [goal EXCEPT ![g] = row] /\ version' = [version EXCEPT ![g][1] = ver]
      /\ cycle' = [cycle EXCEPT ![g][1] = c] /\ draft' = [draft EXCEPT ![g] = NoDraft]
      /\ UNCHANGED <<running, receipt>> /\ Record(op, req, TRUE)
  BY DEF StartGoal
<1>4. 1 \in Nums /\ 1 \in 0..MaxCycles /\ 2 \in 1..MaxCycles + 1 /\ req \in StartRequests /\ req \in Requests
  BY LifecycleAssumption DEF Nums, StartReq, StartRequests, Revisions, Requests
<1> HIDE DEF req
<1>5. /\ row \in GoalRow /\ row.status = "active_cycle" /\ row.version = 1 /\ row.next = 2
      /\ row.terminal = NoReceipt /\ row.revision = 0
  BY <1>4 DEF EmptyGoal, GoalRow, Statuses, Receipts
<1>6. ver \in VersionRow /\ ver.content = draft[g].content /\ ver # NoVersion
  BY <1>2, LifecycleAssumption DEF VersionRow, NoVersion
<1>7. /\ c \in CycleRow /\ c.status = "active" /\ c.version = 1 /\ c.reason = "none"
      /\ c.completedBy = NoReceipt
  <2>1. c \in CycleRow
    <3>1. PICK v \in 0..MaxCycles : v = 1
      BY <1>4
    <3>2. NewCycle(v, op, req) \in CycleRow
      BY <1>4, NewCycleIsRow
    <3>3. QED
      BY <3>1, <3>2
  <2>2. QED
    BY <2>1 DEF NewCycle
<1> HIDE DEF row, ver, c
<1>8. applied' \subseteq [op : Ops, req : Requests, created : BOOLEAN] /\ again' \in BOOLEAN
  BY <1>1, <1>3, <1>4, RecordTypes
<1>9. TypeOK'
  BY <1>1, <1>3, <1>4, <1>5, <1>6, <1>7, <1>8, EmptyRows DEF TypeOK
<1>10. /\ goal'[g] = row /\ version'[g][1] = ver /\ cycle'[g][1] = c /\ draft'[g] = NoDraft
       /\ \A m \in Nums \ {1} : version'[g][m] = version[g][m] /\ cycle'[g][m] = cycle[g][m]
       /\ \A h \in Goals \ {g} : SlotStays(h)
  BY <1>1, <1>3, <1>4 DEF TypeOK, SlotStays
<1>11. \A m \in Nums : cycle[g][m].status = "absent" /\ version[g][m] = NoVersion
  BY <1>1, <1>2 DEF SlotFits, Dense, EmptyGoal, Nums
<1>12. SlotFits(g)'
  <2>1. Dense(g)'
    BY <1>4, <1>5, <1>6, <1>7, <1>10, <1>11 DEF Dense, Nums
  <2>2. Work(g)' /\ Drafts(g)' /\ GoalFits(g)'
    BY <1>4, <1>5, <1>7, <1>10, <1>11 DEF Work, Drafts, GoalFits, NoDraft, Nums
  <2>3. ASSUME NEW m \in Nums PROVE CycleFits(g, m)' /\ VersionFits(g, m)'
    <3>1. CASE m = 1
      BY <1>1, <1>2, <1>5, <1>6, <1>7, <1>10, <3>1 DEF CycleFits, VersionFits, PredecessorValid
    <3>2. CASE m # 1
      BY <1>1, <1>10, <1>11, <3>2 DEF SlotFits, CycleFits, VersionFits, PredecessorValid
    <3>3. QED
      BY <3>1, <3>2
  <2>4. QED
    BY <2>1, <2>2, <2>3 DEF SlotFits
<1>13. TakesEffect(op, req, TRUE, g)
  <2> USE DEF req
  <2>1. ASSUME NEW a \in applied PROVE a.req # req
    BY <1>2, <2>1 DEF IInv, AppliedFits, Spent, StartReq, EmptyGoal
  <2>2. Spent([op |-> op, req |-> req, created |-> TRUE])'
    BY <1>5, <1>10 DEF Spent, StartReq
  <2>3. QED
    BY <1>3, <2>1, <2>2 DEF TakesEffect, StartReq
<1>14. GoalAdvances(g)
  BY <1>2, <1>5, <1>10 DEF GoalAdvances, EmptyGoal
<1>15. QED
  BY <1>4, <1>9, <1>10, <1>12, <1>13, <1>14, SlotStep

\* A goal under way has a current version, and it says something.
LEMMA CurrentContentIs ==
  ASSUME IInv, NEW g \in Goals, goal[g].status \notin {"none", "gone"}
  PROVE  /\ goal[g].version \in Nums /\ CurrentContent(g) \in Contents
         /\ version[g][goal[g].version] # NoVersion
         /\ goal[g] \in GoalRow /\ goal[g].next \in 1..MaxCycles + 1 /\ goal[g].revision \in Nat
         /\ goal[g].next - 1 \in Nums
<1>1. SlotFits(g) /\ goal[g] \in GoalRow
  BY DEF IInv, TypeOK
<1>2. goal[g].version \in 0..MaxCycles /\ goal[g].next \in 1..MaxCycles + 1 /\ goal[g].revision \in Nat
  BY <1>1 DEF GoalRow
<1>3. goal[g].version \in Nums /\ goal[g].next - 1 \in Nums
  BY <1>1, <1>2, LifecycleAssumption DEF SlotFits, GoalFits, Nums
<1>4. version[g][goal[g].version] # NoVersion
  BY <1>1, <1>2, <1>3 DEF SlotFits, Dense
<1>5. CurrentContent(g) \in Contents
  BY <1>1, <1>3, <1>4 DEF SlotFits, VersionFits, CurrentContent
<1>6. QED
  BY <1>1, <1>2, <1>3, <1>4, <1>5

\* The open cycle is the newest.
LEMMA OpenCycleIs ==
  ASSUME IInv, NEW g \in Goals, NEW n \in Nums, CycleOpen(g, n)
  PROVE  /\ n = goal[g].next - 1 /\ cycle[g][n] \in CycleRow /\ cycle[g][n].version = goal[g].version
         /\ cycle[g][n].completedBy = NoReceipt /\ cycle[g][n].reason = "none"
<1>1. SlotFits(g) /\ cycle[g][n] \in CycleRow
  BY DEF IInv, TypeOK
<1>2. n = goal[g].next - 1
  BY <1>1 DEF SlotFits, Work, CycleOpen
<1>3. QED
  BY <1>1, <1>2 DEF SlotFits, Work, CycleFits, CycleOpen

LEMMA NewEffect ==
  ASSUME IInv, NEW g \in Goals, NEW op \in Ops, NEW req \in Requests, NEW created \in BOOLEAN,
         Record(op, req, created), req.goal = g, goal[g].status \notin {"none", "gone"},
         goal'[g].status # "none",
         IF req.kind = "delete" THEN goal'[g].status = "gone"
         ELSE req.kind # "start" /\ req.goalRev = goal[g].revision
                /\ goal'[g].revision = goal[g].revision + 1
  PROVE  TakesEffect(op, req, created, g)
<1>1. goal[g].revision \in Nat
  BY CurrentContentIs
<1>2. ASSUME NEW a \in applied PROVE a.req # req
  BY <1>1, <1>2 DEF IInv, AppliedFits, Spent
<1>3. Spent([op |-> op, req |-> req, created |-> created])'
  BY <1>1 DEF Spent
<1>4. QED
  BY <1>2, <1>3 DEF TakesEffect

LEMMA CompleteKeeps ==
  ASSUME IInv, NEW g \in Goals, NEW op \in Ops, NEW n \in Nums, NEW gr \in GoalRevisions,
         NEW cr \in Revisions, CompleteCycle(g, op, n, gr, cr)
  PROVE  IInv'
<1> DEFINE req == CompleteReq(g, n, gr, cr)
           row == [goal[g] EXCEPT !.status = "goal_review", !.revision = goal[g].revision + 1]
           c == [cycle[g][n] EXCEPT !.status = "completed", !.completedBy = [op |-> op, req |-> req]]
           d == [kind |-> "review", content |-> CurrentContent(g), revision |-> 0,
                 base |-> goal[g].version, trigger |-> n]
<1>1. TypeOK /\ SlotFits(g) /\ CycleOpen(g, n) /\ goal[g].status = "active_cycle"
  BY DEF IInv, CompleteCycle, CycleOpen
<1>2. /\ n = goal[g].next - 1 /\ cycle[g][n] \in CycleRow /\ cycle[g][n].version = goal[g].version
      /\ cycle[g][n].completedBy = NoReceipt /\ cycle[g][n].reason = "none"
      /\ goal[g].version \in Nums /\ CurrentContent(g) \in Contents /\ goal[g] \in GoalRow
      /\ goal[g].revision \in Nat
  BY <1>1, OpenCycleIs, CurrentContentIs
<1>3. /\ goal' = [goal EXCEPT ![g] = row] /\ cycle' = [cycle EXCEPT ![g][n] = c]
      /\ draft' = [draft EXCEPT ![g] = d]
      /\ UNCHANGED <<version, running, receipt>> /\ Record(op, req, FALSE) /\ goal[g].revision = gr
  BY <1>1 DEF CompleteCycle, TypeOK
<1>4. req \in CompleteRequests /\ req \in Requests /\ req.goal = g /\ req.kind = "complete" /\ req.goalRev = gr
  BY DEF CompleteReq, CompleteRequests, Revisions, GoalRevisions, Requests
<1> HIDE DEF req
<1>5. /\ row \in GoalRow /\ row.status = "goal_review" /\ row.version = goal[g].version
      /\ row.next = goal[g].next /\ row.terminal = goal[g].terminal
      /\ row.revision = goal[g].revision + 1
  <2>1. "goal_review" \in Statuses /\ goal[g].revision + 1 \in Nat
    BY <1>2 DEF Statuses
  <2>2. QED
    BY <1>2, <2>1 DEF GoalRow
<1>6. /\ c \in CycleRow /\ c.status = "completed" /\ c.version = goal[g].version /\ c.reason = "none"
      /\ c.completedBy = [op |-> op, req |-> req] /\ c.text = cycle[g][n].text
  <2> DEFINE r == [op |-> op, req |-> req]
  <2>1. r \in Receipts(CompleteRequests)
    BY <1>4 DEF Receipts
  <2> HIDE DEF r
  <2>2. /\ [cycle[g][n] EXCEPT !.status = "completed", !.completedBy = r].status = "completed"
        /\ [cycle[g][n] EXCEPT !.status = "completed", !.completedBy = r].completedBy = r
        /\ [cycle[g][n] EXCEPT !.status = "completed", !.completedBy = r].version = cycle[g][n].version
        /\ [cycle[g][n] EXCEPT !.status = "completed", !.completedBy = r].reason = cycle[g][n].reason
        /\ [cycle[g][n] EXCEPT !.status = "completed", !.completedBy = r].text = cycle[g][n].text
    BY <1>2 DEF CycleRow
  <2>3. [cycle[g][n] EXCEPT !.status = "completed", !.completedBy = r] \in CycleRow
    BY <1>2, <2>1 DEF CycleRow
  <2>4. QED
    BY <1>2, <2>2, <2>3 DEF r
<1>7. /\ d \in DraftRow /\ d.kind = "review" /\ d.content \in Contents /\ d.base = goal[g].version
      /\ d.trigger = n
  BY <1>2, LifecycleAssumption DEF DraftRow, Nums
<1> HIDE DEF row, c, d
<1>8. TypeOK'
  BY <1>1, <1>3, <1>4, <1>5, <1>6, <1>7, RecordTypes DEF TypeOK
<1>9. /\ goal'[g] = row /\ cycle'[g][n] = c /\ draft'[g] = d /\ version' = version
      /\ \A m \in Nums \ {n} : cycle'[g][m] = cycle[g][m]
      /\ \A h \in Goals \ {g} : SlotStays(h)
  BY <1>1, <1>3 DEF TypeOK, SlotStays
<1>10. SlotFits(g)'
  <2>0. Dense(g)'
    <3>1. \A m \in Nums : cycle'[g][m].status # "absent" <=> cycle[g][m].status # "absent"
      BY <1>1, <1>6, <1>9 DEF CycleOpen
    <3>2. QED
      BY <1>1, <1>5, <1>9, <3>1 DEF SlotFits, Dense
  <2>1. GoalFits(g)'
    BY <1>1, <1>2, <1>5, <1>7, <1>9 DEF SlotFits, GoalFits, Nums
  <2>2. Work(g)'
    BY <1>1, <1>2, <1>5, <1>6, <1>9 DEF SlotFits, Work
  <2>3. Drafts(g)'
    BY <1>1, <1>2, <1>5, <1>7, <1>9 DEF SlotFits, Drafts
  <2>4. cycle[g][n].text[ActionFrame] # BlankText
    BY LifecycleAssumption DEF CompleteCycle, MissingRequiredFrames
  <2>5. ASSUME NEW m \in Nums PROVE CycleFits(g, m)' /\ VersionFits(g, m)'
    <3>1. CASE m = n
      <4>1. VersionFits(g, n)'
        BY <1>1, <1>9 DEF SlotFits, VersionFits
      <4>2. c.completedBy # NoReceipt
        BY <1>4, <1>6, ReceiptsDiffer
      <4>3. goal[g].version \in 1..goal[g].version
        BY <1>2 DEF Nums
      <4>4. QED
        BY <1>5, <1>6, <1>9, <2>4, <3>1, <4>1, <4>2, <4>3 DEF CycleFits, PredecessorValid
    <3>2. CASE m # n
      <4>1. cycle'[g][m].status # "active"
        BY <1>1, <1>2, <1>9, <3>2 DEF SlotFits, Work
      <4>2. QED
        BY <1>1, <1>5, <1>9, <3>2, <4>1 DEF SlotFits, CycleFits, VersionFits, PredecessorValid
    <3>3. QED
      BY <3>1, <3>2
  <2>6. QED
    BY <2>0, <2>1, <2>2, <2>3, <2>5 DEF SlotFits
<1>11. TakesEffect(op, req, FALSE, g)
  BY <1>1, <1>3, <1>4, <1>5, <1>9, NewEffect
<1>12. GoalAdvances(g)
  BY <1>1, <1>2, <1>5, <1>9 DEF GoalAdvances
<1>13. QED
  BY <1>4, <1>8, <1>9, <1>10, <1>11, <1>12, SlotStep

LEMMA ReplanKeeps ==
  ASSUME IInv, NEW g \in Goals, NEW op \in Ops, NEW n \in Nums, NEW gr \in GoalRevisions,
         NEW cr \in Revisions, NEW sr \in Revisions, ReplanCycle(g, op, n, gr, cr, sr)
  PROVE  IInv'
<1> DEFINE req == ReplanReq(g, n, gr, cr, sr)
           row == Replan(goal[g])
           c == Cancel(cycle[g][n], "replanned")
           new == NewCycle(goal[g].version, op, req)
<1>1. TypeOK /\ SlotFits(g) /\ CycleOpen(g, n) /\ goal[g].status = "active_cycle"
  BY DEF IInv, ReplanCycle, CycleOpen
<1>2. /\ n = goal[g].next - 1 /\ cycle[g][n] \in CycleRow /\ cycle[g][n].version = goal[g].version
      /\ cycle[g][n].completedBy = NoReceipt /\ cycle[g][n].reason = "none"
      /\ goal[g].version \in Nums /\ CurrentContent(g) \in Contents /\ goal[g] \in GoalRow
      /\ goal[g].revision \in Nat
  BY <1>1, OpenCycleIs, CurrentContentIs
<1>3. n + 1 \in Nums /\ n + 1 = goal[g].next /\ n + 2 \in 1..MaxCycles + 1 /\ goal[g].version \in 0..MaxCycles
  BY <1>2, LifecycleAssumption DEF ReplanCycle, Nums, GoalRow
<1>4. /\ goal' = [goal EXCEPT ![g] = row]
      /\ cycle' = [cycle EXCEPT ![g][n] = c, ![g][n + 1] = new]
      /\ UNCHANGED <<version, draft, running, receipt>> /\ Record(op, req, FALSE) /\ goal[g].revision = gr
  BY DEF ReplanCycle
<1>5. req \in StartRequests /\ req \in Requests /\ req.goal = g /\ req.kind = "replan" /\ req.goalRev = gr
  BY DEF ReplanReq, StartRequests, Revisions, GoalRevisions, Requests
<1> HIDE DEF req
<1>6. /\ row \in GoalRow /\ row.status = "active_cycle" /\ row.version = goal[g].version
      /\ row.next = n + 2 /\ row.terminal = goal[g].terminal
      /\ row.revision = goal[g].revision + 1
  <2>1. goal[g].revision + 1 \in Nat /\ goal[g].next + 1 = n + 2
    BY <1>2, <1>3 DEF Nums
  <2>2. QED
    BY <1>1, <1>2, <1>3, <2>1 DEF Replan, GoalRow
<1>7. /\ c \in CycleRow /\ c.status = "canceled" /\ c.version = goal[g].version /\ c.reason = "replanned"
      /\ c.completedBy = NoReceipt
  BY <1>2 DEF Cancel, CycleRow
<1>8. /\ new \in CycleRow /\ new.status = "active" /\ new.version = goal[g].version /\ new.reason = "none"
      /\ new.completedBy = NoReceipt
  <2>1. new \in CycleRow
    BY <1>3, <1>5, NewCycleIsRow
  <2>2. QED
    BY <2>1 DEF NewCycle
<1> HIDE DEF row, c, new
<1>9. cycle' \in [Goals -> [Nums -> CycleRow]]
  BY <1>1, <1>3, <1>4, <1>7, <1>8 DEF TypeOK
<1>10. TypeOK'
  BY <1>1, <1>4, <1>5, <1>6, <1>9, RecordTypes DEF TypeOK
<1>11. /\ goal'[g] = row /\ cycle'[g][n] = c /\ cycle'[g][n + 1] = new
       /\ draft' = draft /\ version' = version
       /\ \A m \in Nums \ {n, n + 1} : cycle'[g][m] = cycle[g][m]
       /\ \A h \in Goals \ {g} : SlotStays(h)
  BY <1>1, <1>2, <1>3, <1>4 DEF TypeOK, SlotStays
<1>12. cycle[g][n + 1].status = "absent"
  BY <1>1, <1>3 DEF SlotFits, Dense, Nums
<1>13. n \in Nat
  BY DEF Nums
<1>14. SlotFits(g)'
  <2>1. Dense(g)'
    <3>1. ASSUME NEW m \in Nums PROVE cycle'[g][m].status # "absent" <=> m < n + 2
      <4>1. CASE m = n \/ m = n + 1
        BY <1>7, <1>8, <1>11, <1>13, <4>1
      <4>2. CASE m # n /\ m # n + 1
        BY <1>1, <1>3, <1>11, <1>13, <4>2 DEF SlotFits, Dense, Nums
      <4>3. QED
        BY <4>1, <4>2
    <3>2. QED
      BY <1>1, <1>6, <1>11, <3>1 DEF SlotFits, Dense
  <2>2. GoalFits(g)'
    BY <1>1, <1>2, <1>3, <1>6, <1>11, <1>13 DEF SlotFits, GoalFits, Nums
  <2>3. Drafts(g)'
    BY <1>1, <1>6, <1>11 DEF SlotFits, Drafts
  <2>4. ASSUME NEW m \in Nums PROVE m = n \/ m = n + 1 \/ cycle'[g][m].status # "active"
    BY <1>1, <1>2, <1>11 DEF SlotFits, Work
  <2>5. Work(g)'
    <3>1. row.next - 1 = n + 1
      BY <1>6, <1>13
    <3>2. ASSUME NEW m \in Nums, cycle'[g][m].status = "canceled", m < n + 1
          PROVE  cycle'[g][m].reason = "replanned"
      <4>1. CASE m = n
        BY <1>7, <1>11, <4>1
      <4>2. CASE m # n
        BY <1>1, <1>2, <1>11, <1>13, <3>2, <4>2 DEF SlotFits, Work, Nums
      <4>3. QED
        BY <4>1, <4>2
    <3>3. QED
      BY <1>3, <1>6, <1>7, <1>8, <1>11, <2>4, <3>1, <3>2 DEF Work
  <2>6. ASSUME NEW m \in Nums PROVE CycleFits(g, m)' /\ VersionFits(g, m)'
    <3>1. VersionFits(g, m)'
      BY <1>1, <1>11 DEF SlotFits, VersionFits
    <3>2. CASE m = n
      <4>1. goal[g].version \in 1..goal[g].version
        BY <1>2 DEF Nums
      <4>2. QED
        BY <1>6, <1>7, <1>11, <3>1, <3>2, <4>1 DEF CycleFits, PredecessorValid
    <3>3. CASE m = n + 1
      <4>1. m - 1 = n
        BY <1>13, <3>3
      <4>2. goal[g].version \in 1..goal[g].version
        BY <1>2 DEF Nums
      <4>3. cycle'[g][m] = new /\ cycle'[g][m - 1] = c
        BY <1>11, <3>3, <4>1
      <4>4. PredecessorValid(g, m)'
        BY <1>7, <1>8, <4>3 DEF PredecessorValid
      <4>5. QED
        BY <1>6, <1>8, <1>11, <3>1, <4>2, <4>3, <4>4 DEF CycleFits
    <3>4. CASE m # n /\ m # n + 1
      BY <1>1, <1>6, <1>11, <2>4, <3>1, <3>4 DEF SlotFits, CycleFits, PredecessorValid
    <3>5. QED
      BY <3>2, <3>3, <3>4
  <2>7. QED
    BY <2>1, <2>2, <2>3, <2>5, <2>6 DEF SlotFits
<1>15. TakesEffect(op, req, FALSE, g)
  BY <1>1, <1>4, <1>5, <1>6, <1>11, NewEffect
<1>16. GoalAdvances(g)
  BY <1>1, <1>2, <1>6, <1>11 DEF GoalAdvances
<1>17. QED
  BY <1>5, <1>10, <1>11, <1>14, <1>15, <1>16, SlotStep

LEMMA ContinueKeeps ==
  ASSUME IInv, NEW g \in Goals, NEW op \in Ops, NEW gr \in GoalRevisions, NEW dr \in Revisions,
         ContinueReview(g, op, gr, dr)
  PROVE  IInv'
<1> DEFINE req == ContinueReq(g, gr, dr)
           n == goal[g].next
           changed == DraftDiffers(g)
           v == goal[g].version + (IF changed THEN 1 ELSE 0)
           row == [goal[g] EXCEPT !.status = "active_cycle", !.version = v, !.next = n + 1,
                                  !.revision = goal[g].revision + 1]
           new == NewCycle(v, op, req)
           ver == NewVersion(g, op)
<1>1. TypeOK /\ SlotFits(g) /\ goal[g].status = "goal_review" /\ draft[g].kind = "review"
  BY DEF IInv, ContinueReview, ContinueFrom
<1>2. /\ goal[g].version \in Nums /\ CurrentContent(g) \in Contents /\ goal[g] \in GoalRow
      /\ goal[g].revision \in Nat /\ draft[g].content \in Contents /\ draft[g].content.body # BlankBody
      /\ n \in Nums /\ n - 1 \in Nums /\ goal[g].version < n
  <2>1. /\ goal[g].version \in Nums /\ CurrentContent(g) \in Contents /\ goal[g] \in GoalRow
        /\ goal[g].revision \in Nat /\ n - 1 \in Nums /\ n \in 1..MaxCycles + 1
    BY <1>1, CurrentContentIs
  <2>2. draft[g].content \in Contents /\ goal[g].version < n
    BY <1>1 DEF SlotFits, GoalFits
  <2>3. n <= MaxCycles /\ draft[g].content.body # BlankBody
    BY DEF ContinueReview, ContinueFrom
  <2>4. QED
    BY <2>1, <2>2, <2>3, LifecycleAssumption DEF Nums
<1>3. /\ v \in Nums /\ v \in 0..MaxCycles /\ v < n + 1 /\ n + 1 \in 1..MaxCycles + 1
      /\ n \in Nat /\ v \in {goal[g].version, goal[g].version + 1} /\ goal[g].version <= v
  BY <1>2, LifecycleAssumption DEF Nums
<1>4. /\ goal' = [goal EXCEPT ![g] = row] /\ cycle' = [cycle EXCEPT ![g][n] = new]
      /\ version' = IF changed THEN [version EXCEPT ![g][v] = ver] ELSE version
      /\ draft' = [draft EXCEPT ![g] = NoDraft]
      /\ UNCHANGED <<running, receipt>> /\ Record(op, req, changed) /\ goal[g].revision = gr
  BY <1>1 DEF ContinueReview, ContinueFrom, TypeOK
<1>5. req \in StartRequests /\ req \in Requests /\ req.goal = g /\ req.kind = "continue" /\ req.goalRev = gr
  BY DEF ContinueReq, StartRequests, Revisions, GoalRevisions, Requests
<1>6. changed \in BOOLEAN
  BY Zenon DEF DraftDiffers
<1>7. changed => v = goal[g].version + 1
  OBVIOUS
<1>8. ~changed => v = goal[g].version
  BY <1>2 DEF Nums
<1> HIDE DEF req, changed, v
<1>9. /\ row \in GoalRow /\ row.status = "active_cycle" /\ row.version = v
      /\ row.next = n + 1 /\ row.terminal = goal[g].terminal
      /\ row.revision = goal[g].revision + 1
  <2>1. "active_cycle" \in Statuses /\ goal[g].revision + 1 \in Nat
    BY <1>2 DEF Statuses
  <2>2. QED
    BY <1>2, <1>3, <2>1 DEF GoalRow
<1>10. /\ new \in CycleRow /\ new.status = "active" /\ new.version = v /\ new.reason = "none"
       /\ new.completedBy = NoReceipt
  <2>1. new \in CycleRow
    BY <1>3, <1>5, NewCycleIsRow
  <2>2. QED
    BY <2>1 DEF NewCycle
<1>11. ver \in VersionRow /\ ver.content = draft[g].content /\ ver # NoVersion
  BY <1>2, LifecycleAssumption DEF NewVersion, VersionRow, NoVersion
<1> HIDE DEF row, new, ver
<1>12. version' \in [Goals -> [Nums -> VersionRow]]
  BY <1>1, <1>3, <1>4, <1>11 DEF TypeOK
<1>13. cycle' \in [Goals -> [Nums -> CycleRow]]
  BY <1>1, <1>2, <1>4, <1>10 DEF TypeOK
<1>14. TypeOK'
  BY <1>1, <1>4, <1>5, <1>6, <1>9, <1>12, <1>13, RecordTypes, EmptyRows DEF TypeOK
<1>15. /\ goal'[g] = row /\ cycle'[g][n] = new /\ draft'[g] = NoDraft
       /\ \A m \in Nums \ {n} : cycle'[g][m] = cycle[g][m]
  BY <1>1, <1>2, <1>4 DEF TypeOK
<1>16. /\ changed => version'[g][v] = ver /\ \A m \in Nums \ {v} : version'[g][m] = version[g][m]
       /\ ~changed => version' = version
  BY <1>1, <1>3, <1>4 DEF TypeOK
<1>17. \A h \in Goals \ {g} : SlotStays(h)
  BY <1>1, <1>4 DEF TypeOK, SlotStays

<1>18. SlotFits(g)'
  <2>1. Dense(g)'
    <3>1. ASSUME NEW m \in Nums PROVE cycle'[g][m].status # "absent" <=> m < n + 1
      <4>1. CASE m = n
        BY <1>3, <1>10, <1>15, <4>1
      <4>2. CASE m # n
        BY <1>1, <1>3, <1>15, <4>2 DEF SlotFits, Dense, Nums
      <4>3. QED
        BY <4>1, <4>2
    <3>2. ASSUME NEW m \in Nums PROVE version'[g][m] # NoVersion <=> m <= v
      <4>1. CASE changed
        <5>1. CASE m = v
          BY <1>3, <1>11, <1>16, <4>1, <5>1 DEF Nums
        <5>2. CASE m # v
          BY <1>1, <1>2, <1>3, <1>7, <1>16, <4>1, <5>2 DEF SlotFits, Dense, Nums
        <5>3. QED
          BY <5>1, <5>2
      <4>2. CASE ~changed
        BY <1>1, <1>8, <1>16, <4>2 DEF SlotFits, Dense
      <4>3. QED
        BY <4>1, <4>2
    <3>3. QED
      BY <1>9, <1>15, <3>1, <3>2 DEF Dense
  <2>2. GoalFits(g)'
    BY <1>3, <1>9, <1>15 DEF GoalFits, NoDraft, Nums
  <2>3. Drafts(g)'
    BY <1>1, <1>9, <1>15 DEF SlotFits, Drafts, NoDraft
  <2>4. ASSUME NEW m \in Nums PROVE m = n \/ cycle'[g][m].status # "active"
    BY <1>1, <1>15 DEF SlotFits, Work
  <2>5. Work(g)'
    <3>1. row.next - 1 = n
      BY <1>3, <1>9
    <3>2. ASSUME NEW m \in Nums, cycle'[g][m].status = "canceled", m < n
          PROVE  cycle'[g][m].reason = "replanned"
      <4>1. m = n - 1 \/ m < n - 1
        BY <1>3, <3>2 DEF Nums
      <4>2. m # n /\ cycle'[g][m] = cycle[g][m]
        BY <1>3, <1>15, <3>2 DEF Nums
      <4>3. QED
        BY <1>1, <3>2, <4>1, <4>2 DEF SlotFits, Work
    <3>3. QED
      BY <1>2, <1>9, <1>10, <1>15, <2>4, <3>1, <3>2 DEF Work
  <2>6. ASSUME NEW m \in Nums PROVE CycleFits(g, m)' /\ VersionFits(g, m)'
    <3>1. VersionFits(g, m)'
      BY <1>1, <1>2, <1>11, <1>16 DEF SlotFits, VersionFits
    <3>2. CASE m = n
      <4>1. m > 1 => n - 1 \in Nums /\ n - 1 # n
        BY <1>2, <3>2 DEF Nums
      <4>2. m > 1 => /\ cycle'[g][n - 1].status = "completed"
                     /\ cycle'[g][n - 1].text[ActionFrame] # BlankText
                     /\ cycle'[g][n - 1].version = goal[g].version
        BY <1>1, <1>15, <4>1 DEF SlotFits, Work, CycleFits
      <4>3. goal[g].version \in {v - 1, v} /\ v \in 1..v
        BY <1>2, <1>3 DEF Nums
      <4>4. cycle'[g][m] = new /\ goal'[g].version = v /\ m - 1 = n - 1
        BY <1>9, <1>15, <3>2
      <4>5. m > 1 => cycle'[g][m - 1].version \in {new.version - 1, new.version}
        BY <1>10, <4>2, <4>3, <4>4
      <4>6. PredecessorValid(g, m)'
        BY <4>2, <4>4, <4>5 DEF PredecessorValid
      <4>7. QED
        BY <1>10, <3>1, <4>3, <4>4, <4>6 DEF CycleFits
    <3>3. CASE m # n
      <4>1. 1..goal[g].version \subseteq 1..v
        BY <1>2, <1>3 DEF Nums
      <4>2. PredecessorValid(g, m)'
        BY <2>4, <3>3 DEF PredecessorValid
      <4>3. QED
        BY <1>1, <1>9, <1>15, <3>1, <3>3, <4>1, <4>2 DEF SlotFits, CycleFits
    <3>4. QED
      BY <3>2, <3>3
  <2>7. QED
    BY <2>1, <2>2, <2>3, <2>5, <2>6 DEF SlotFits
<1>19. TakesEffect(op, req, changed, g)
  BY <1>1, <1>4, <1>5, <1>6, <1>9, <1>15, NewEffect
<1>20. GoalAdvances(g)
  BY <1>1, <1>2, <1>9, <1>15 DEF GoalAdvances
<1>21. QED
  BY <1>5, <1>6, <1>14, <1>17, <1>18, <1>19, <1>20, SlotStep

LEMMA TerminateActiveCycleKeeps ==
  ASSUME IInv, NEW g \in Goals, NEW op \in Ops, NEW outcome \in Outcomes, NEW n \in Nums,
         NEW gr \in GoalRevisions, NEW cr \in Revisions,
         TerminateActiveCycle(g, op, outcome, n, gr, cr)
  PROVE  IInv'
<1> DEFINE req == TerminateCycleReq(g, outcome, n, gr, cr)
           row == Terminate(goal[g], outcome, [op |-> op, req |-> req])
           c == Cancel(cycle[g][n], Reason(outcome))
<1>1. TypeOK /\ SlotFits(g) /\ CycleOpen(g, n) /\ goal[g].status = "active_cycle"
  BY DEF IInv, TerminateActiveCycle, CycleOpen
<1>2. /\ n = goal[g].next - 1 /\ cycle[g][n] \in CycleRow /\ cycle[g][n].version = goal[g].version
      /\ cycle[g][n].completedBy = NoReceipt /\ cycle[g][n].reason = "none"
      /\ goal[g].version \in Nums /\ goal[g] \in GoalRow /\ goal[g].revision \in Nat
  BY <1>1, OpenCycleIs, CurrentContentIs
<1>3. /\ goal' = [goal EXCEPT ![g] = row] /\ cycle' = [cycle EXCEPT ![g][n] = c]
      /\ UNCHANGED <<version, draft, running, receipt>> /\ Record(op, req, FALSE) /\ goal[g].revision = gr
  BY DEF TerminateActiveCycle
<1>4. req \in TerminateRequests /\ req \in Requests /\ req.goal = g /\ req.kind = "terminate_cycle"
      /\ req.goalRev = gr
  BY DEF TerminateCycleReq, TerminateRequests, Revisions, GoalRevisions, Requests
<1> HIDE DEF req
<1>5. /\ row \in GoalRow /\ row.status = outcome /\ row.version = goal[g].version
      /\ row.next = goal[g].next /\ row.terminal = [op |-> op, req |-> req]
      /\ row.revision = goal[g].revision + 1
  <2>1. goal[g].revision + 1 \in Nat /\ outcome \in Statuses
    BY <1>2 DEF Outcomes, Statuses
  <2>2. [op |-> op, req |-> req] \in Receipts(TerminateRequests)
    BY <1>4 DEF Receipts
  <2>3. QED
    BY <1>2, <2>1, <2>2 DEF Terminate, GoalRow
<1>6. /\ c \in CycleRow /\ c.status = "canceled" /\ c.version = goal[g].version
      /\ c.reason # "none" /\ c.completedBy = NoReceipt
  BY <1>2 DEF Cancel, Reason, CycleRow
<1> HIDE DEF row, c
<1>7. TypeOK'
  <2>1. cycle' \in [Goals -> [Nums -> CycleRow]]
    BY <1>1, <1>3, <1>6 DEF TypeOK
  <2>2. QED
    BY <1>1, <1>3, <1>4, <1>5, <2>1, RecordTypes DEF TypeOK
<1>8. /\ goal'[g] = row /\ cycle'[g][n] = c /\ draft' = draft /\ version' = version
      /\ \A m \in Nums \ {n} : cycle'[g][m] = cycle[g][m]
      /\ \A h \in Goals \ {g} : SlotStays(h)
  BY <1>1, <1>3 DEF TypeOK, SlotStays
<1>9. outcome \notin {"none", "gone", "active_cycle", "goal_review"} /\ outcome \in {"achieved", "ended"}
  BY DEF Outcomes
<1>10. [op |-> op, req |-> req] # NoReceipt
  BY <1>4, ReceiptsDiffer
<1>11. SlotFits(g)'
  <2>1. Dense(g)'
    <3>1. \A m \in Nums : cycle'[g][m].status # "absent" <=> cycle[g][m].status # "absent"
      BY <1>1, <1>6, <1>8 DEF CycleOpen
    <3>2. QED
      BY <1>1, <1>5, <1>8, <3>1 DEF SlotFits, Dense
  <2>2. GoalFits(g)'
    BY <1>1, <1>2, <1>5, <1>8, <1>9 DEF SlotFits, GoalFits, Nums
  <2>3. ASSUME NEW m \in Nums PROVE cycle'[g][m].status # "active"
    BY <1>1, <1>2, <1>6, <1>8 DEF SlotFits, Work
  <2>4. Work(g)'
    BY <1>1, <1>2, <1>5, <1>8, <1>9, <2>3 DEF SlotFits, Work
  <2>5. Drafts(g)'
    BY <1>1, <1>5, <1>8, <1>9, <1>10 DEF SlotFits, Drafts
  <2>6. ASSUME NEW m \in Nums PROVE CycleFits(g, m)' /\ VersionFits(g, m)'
    <3>1. VersionFits(g, m)' /\ PredecessorValid(g, m)'
      BY <1>1, <1>8, <2>3 DEF SlotFits, VersionFits, PredecessorValid
    <3>2. CASE m = n
      <4>1. goal[g].version \in 1..goal[g].version
        BY <1>2 DEF Nums
      <4>2. QED
        BY <1>5, <1>6, <1>8, <3>1, <3>2, <4>1 DEF CycleFits
    <3>3. CASE m # n
      BY <1>1, <1>5, <1>8, <3>1, <3>3 DEF SlotFits, CycleFits
    <3>4. QED
      BY <3>2, <3>3
  <2>7. QED
    BY <2>1, <2>2, <2>4, <2>5, <2>6 DEF SlotFits
<1>12. TakesEffect(op, req, FALSE, g)
  BY <1>1, <1>3, <1>4, <1>5, <1>8, <1>9, NewEffect
<1>13. GoalAdvances(g)
  BY <1>1, <1>2, <1>5, <1>8, <1>9 DEF GoalAdvances
<1>14. QED
  BY <1>4, <1>7, <1>8, <1>11, <1>12, <1>13, SlotStep

LEMMA TerminateGoalReviewKeeps ==
  ASSUME IInv, NEW g \in Goals, NEW op \in Ops, NEW outcome \in Outcomes,
         NEW gr \in GoalRevisions, NEW discard \in BOOLEAN,
         TerminateGoalReview(g, op, outcome, gr, discard)
  PROVE  IInv'
<1> DEFINE req == TerminateReviewReq(g, outcome, gr, discard)
           row == Terminate(goal[g], outcome, [op |-> op, req |-> req])
<1>1. TypeOK /\ SlotFits(g) /\ goal[g].status = "goal_review"
  BY DEF IInv, TerminateGoalReview
<1>2. goal[g].version \in Nums /\ goal[g] \in GoalRow /\ goal[g].revision \in Nat
  BY <1>1, CurrentContentIs
<1>3. /\ goal' = [goal EXCEPT ![g] = row] /\ draft' = [draft EXCEPT ![g] = NoDraft]
      /\ UNCHANGED <<version, cycle, running, receipt>> /\ Record(op, req, FALSE) /\ goal[g].revision = gr
  BY DEF TerminateGoalReview
<1>4. req \in TerminateRequests /\ req \in Requests /\ req.goal = g /\ req.kind = "terminate_review"
      /\ req.goalRev = gr
  BY DEF TerminateReviewReq, TerminateRequests, GoalRevisions, Requests
<1> HIDE DEF req
<1>5. /\ row \in GoalRow /\ row.status = outcome /\ row.version = goal[g].version
      /\ row.next = goal[g].next /\ row.terminal = [op |-> op, req |-> req]
      /\ row.revision = goal[g].revision + 1
  <2>1. goal[g].revision + 1 \in Nat /\ outcome \in Statuses
    BY <1>2 DEF Outcomes, Statuses
  <2>2. [op |-> op, req |-> req] \in Receipts(TerminateRequests)
    BY <1>4 DEF Receipts
  <2>3. QED
    BY <1>2, <2>1, <2>2 DEF Terminate, GoalRow
<1> HIDE DEF row
<1>6. TypeOK'
  BY <1>1, <1>3, <1>4, <1>5, RecordTypes, EmptyRows DEF TypeOK
<1>7. goal'[g] = row /\ draft'[g] = NoDraft /\ \A h \in Goals \ {g} : SlotStays(h)
  BY <1>1, <1>3 DEF TypeOK, SlotStays
<1>8. outcome \notin {"none", "gone", "active_cycle", "goal_review"} /\ outcome \in {"achieved", "ended"}
  BY DEF Outcomes
<1>9. [op |-> op, req |-> req] # NoReceipt
  BY <1>4, ReceiptsDiffer
<1>10. SlotFits(g)'
  <2>1. Dense(g)' /\ Work(g)'
    BY <1>1, <1>3, <1>5, <1>7, <1>8 DEF SlotFits, Dense, Work
  <2>2. GoalFits(g)' /\ Drafts(g)'
    BY <1>1, <1>2, <1>5, <1>7, <1>8, <1>9 DEF SlotFits, GoalFits, Drafts, NoDraft, Nums
  <2>3. \A m \in Nums : CycleFits(g, m)' /\ VersionFits(g, m)'
    BY <1>1, <1>3, <1>5, <1>7 DEF SlotFits, CycleFits, VersionFits, PredecessorValid
  <2>4. QED
    BY <2>1, <2>2, <2>3 DEF SlotFits
<1>11. TakesEffect(op, req, FALSE, g)
  BY <1>1, <1>3, <1>4, <1>5, <1>7, <1>8, NewEffect
<1>12. GoalAdvances(g)
  BY <1>1, <1>2, <1>5, <1>7, <1>8 DEF GoalAdvances
<1>13. QED
  BY <1>4, <1>6, <1>7, <1>10, <1>11, <1>12, SlotStep

LEMMA DeleteKeeps ==
  ASSUME IInv, NEW g \in Goals, NEW op \in Ops, NEW gr \in GoalRevisions, DeleteGoal(g, op, gr)
  PROVE  IInv'
<1> DEFINE req == DeleteReq(g, gr)
<1>1. TypeOK /\ goal[g].status \notin {"none", "gone"}
  BY DEF IInv, DeleteGoal
<1>2. req \in DeleteRequests /\ req \in Requests /\ req.goal = g /\ req.kind = "delete"
  BY DEF DeleteReq, DeleteRequests, GoalRevisions, Requests
<1>3. Record(op, req, FALSE) /\ goal' = [goal EXCEPT ![g] = EmptyGoal("gone")]
      /\ version' = [version EXCEPT ![g] = [n \in Nums |-> NoVersion]]
      /\ cycle' = [cycle EXCEPT ![g] = [n \in Nums |-> NoCycle]]
      /\ draft' = [draft EXCEPT ![g] = NoDraft]
      /\ running' = [running EXCEPT ![g] = Nothing]
      /\ receipt' = [receipt EXCEPT ![op] = [req |-> req, fresh |-> TRUE]]
  BY DEF DeleteGoal
<1> HIDE DEF req
<1>4. TypeOK'
  <2>1. receipt' \in [Ops -> DeleteReceipts]
    BY <1>1, <1>2, <1>3 DEF TypeOK, DeleteReceipts
  <2>2. /\ [n \in Nums |-> NoVersion] \in [Nums -> VersionRow]
        /\ [n \in Nums |-> NoCycle] \in [Nums -> CycleRow]
    BY EmptyRows, NoCycleIsRow
  <2>3. QED
    BY <1>1, <1>2, <1>3, <2>1, <2>2, RecordTypes, EmptyRows DEF TypeOK
<1>5. /\ goal'[g] = EmptyGoal("gone") /\ draft'[g] = NoDraft
      /\ \A n \in Nums : version'[g][n] = NoVersion /\ cycle'[g][n] = NoCycle
      /\ \A h \in Goals \ {g} : SlotStays(h)
  BY <1>1, <1>3 DEF TypeOK, SlotStays
<1>6. SlotFits(g)'
  <2>1. Dense(g)' /\ Work(g)' /\ Drafts(g)' /\ GoalFits(g)'
    BY <1>5, NoCycleIsRow, LifecycleAssumption
       DEF Dense, Work, Drafts, GoalFits, EmptyGoal, NoDraft, Nums
  <2>2. \A n \in Nums : CycleFits(g, n)' /\ VersionFits(g, n)'
    BY <1>5, NoCycleIsRow DEF CycleFits, VersionFits, PredecessorValid
  <2>3. QED
    BY <2>1, <2>2 DEF SlotFits
<1>7. goal'[g].status = "gone"
  BY <1>5 DEF EmptyGoal
<1>8. TakesEffect(op, req, FALSE, g) /\ GoalAdvances(g)
  BY <1>1, <1>2, <1>3, <1>7, NewEffect DEF GoalAdvances
<1>9. QED
  BY <1>2, <1>4, <1>5, <1>6, <1>8, SlotStep

-----------------------------------------------------------------------------
(***************************************************************************)
(* The invariant                                                           *)
(***************************************************************************)

LEMMA ReceiptExpiresKeeps ==
  ASSUME IInv, NEW op \in Ops, ReceiptExpires(op)
  PROVE  IInv'
<1>1. /\ UNCHANGED <<goal, version, cycle, draft, running, applied, again>>
      /\ receipt' = [receipt EXCEPT ![op].fresh = FALSE] /\ receipt[op] # NoReceipt
  BY DEF ReceiptExpires, NotRecorded
<1>2. receipt' \in [Ops -> DeleteReceipts]
  BY <1>1 DEF IInv, TypeOK, DeleteReceipts
<1>3. TypeOK' /\ AppliedFits'
  BY <1>1, <1>2 DEF IInv, TypeOK, AppliedFits, Spent
<1>4. \A g \in Goals : SlotFits(g)'
  BY <1>1, SlotStaysFits DEF IInv, SlotStays
<1>5. QED
  BY <1>3, <1>4 DEF IInv

LEMMA NextKeepsIInv == IInv /\ [Next]_vars => IInv'
<1> SUFFICES ASSUME IInv, [Next]_vars PROVE IInv'
  OBVIOUS
<1>1. CASE UNCHANGED vars
  <2>1. \A g \in Goals : SlotStays(g)
    BY <1>1 DEF SlotStays, vars
  <2>2. \A g \in Goals : SlotFits(g)'
    BY <2>1, SlotStaysFits DEF IInv
  <2>3. TypeOK' /\ AppliedFits'
    BY <1>1 DEF IInv, TypeOK, AppliedFits, Spent, vars
  <2>4. QED
    BY <2>2, <2>3 DEF IInv
<1>2. ASSUME NEW g \in Goals, DraftStep(g) PROVE IInv'
  BY <1>2, CreateDraftKeeps, EditDraftKeeps, AbandonKeeps DEF DraftStep, SaveDraft, SaveReview
<1>3. ASSUME NEW g \in Goals, CycleStep(g) PROVE IInv'
  BY <1>3, SaveFrameKeeps, ChangeReviewScheduleKeeps DEF CycleStep
<1>4. ASSUME NEW g \in Goals, NEW op \in Ops, Transition(g, op) PROVE IInv'
  BY <1>4, StartKeeps, CompleteKeeps, ReplanKeeps, ContinueKeeps, TerminateActiveCycleKeeps,
     TerminateGoalReviewKeeps, DeleteKeeps DEF Transition
<1>5. ASSUME NEW g \in Goals, AIStep(g) PROVE IInv'
  BY <1>5, RunningKeeps, ApplyActionAIKeeps DEF AIStep
<1>6. QED
  BY <1>1, <1>2, <1>3, <1>4, <1>5, ReceiptExpiresKeeps DEF Next, GoalStep

LEMMA AlwaysIInv == Spec => []IInv
BY InitIsIInv, NextKeepsIInv, PTL DEF Spec

\* Every row of a goal stays a row of its table.
THEOREM GoalTypeCorrect == Spec => []TypeOK
<1>1. IInv => TypeOK
  BY DEF IInv
<1>2. QED
  BY AlwaysIInv, <1>1, PTL

\* The status of a goal and its cycles, versions and draft tell one story:
\* after any transaction, validateGoalCurrentWork finds the one current work.
THEOREM GoalsKeepTheirShape == Spec => []GoalShape
<1>1. IInv => GoalShape
  BY DEF IInv, SlotFits, GoalShape
<1>2. QED
  BY AlwaysIInv, <1>1, PTL

\* A request that took effect is not carried out again, under its operation
\* id or another, however late it arrives: its goal has moved past the draft
\* or the revision it was sent for.
THEOREM RequestsApplyOnce == Spec => []AppliedOnce
<1>1. IInv => AppliedOnce
  BY DEF IInv, AppliedFits, AppliedOnce
<1>2. QED
  BY AlwaysIInv, <1>1, PTL

-----------------------------------------------------------------------------
(***************************************************************************)
(* What a step may not change                                              *)
(***************************************************************************)

\* An edit of a cycle writes that cycle, and it is open.
LEMMA CycleStepIs ==
  ASSUME IInv, NEW g \in Goals, CycleStep(g)
  PROVE  /\ UNCHANGED <<goal, version, draft, running, receipt>> /\ NotRecorded
         /\ \A h \in Goals \ {g} : cycle'[h] = cycle[h]
         /\ \E n \in Nums : CycleOpen(g, n) /\ cycle'[g][n].status = "active"
                           /\ \A m \in Nums \ {n} : cycle'[g][m] = cycle[g][m]
<1>1. cycle \in [Goals -> [Nums -> CycleRow]]
  BY DEF IInv, TypeOK
<1>2. ASSUME NEW n \in Nums, NEW f \in Frames, NEW text \in Texts, NEW fr \in Revisions,
             SaveFrame(g, n, f, text, fr)
      PROVE  /\ CycleOpen(g, n) /\ \A h \in Goals \ {g} : cycle'[h] = cycle[h]
             /\ \A m \in Nums \ {n} : cycle'[g][m] = cycle[g][m]
             /\ cycle'[g][n].status = "active"
  BY <1>1, <1>2 DEF SaveFrame, CycleRow, CycleOpen
<1>3. ASSUME NEW n \in Nums, NEW scheduled \in BOOLEAN, NEW sr \in Revisions,
             ChangeReviewSchedule(g, n, scheduled, sr)
      PROVE  /\ CycleOpen(g, n) /\ \A h \in Goals \ {g} : cycle'[h] = cycle[h]
             /\ \A m \in Nums \ {n} : cycle'[g][m] = cycle[g][m]
             /\ cycle'[g][n].status = "active"
  BY <1>1, <1>3 DEF ChangeReviewSchedule, CycleRow, CycleOpen
<1>4. UNCHANGED <<goal, version, draft, running, receipt>> /\ NotRecorded
  <2>1. CASE \E n \in Nums, f \in Frames, text \in Texts, fr \in Revisions : SaveFrame(g, n, f, text, fr)
    <3>1. PICK n \in Nums, f \in Frames, text \in Texts, fr \in Revisions : SaveFrame(g, n, f, text, fr)
      BY <2>1
    <3>2. QED
      BY <3>1 DEF SaveFrame
  <2>2. CASE \E n \in Nums, scheduled \in BOOLEAN, sr \in Revisions :
               ChangeReviewSchedule(g, n, scheduled, sr)
    BY <2>2, Zenon DEF ChangeReviewSchedule
  <2>3. QED
    BY <2>1, <2>2 DEF CycleStep
<1>5. QED
  BY <1>2, <1>3, <1>4 DEF CycleStep

\* A step is about one goal.
LEMMA OneGoal ==
  ASSUME IInv, NEW g \in Goals,
         DraftStep(g) \/ CycleStep(g) \/ (\E op \in Ops : Transition(g, op)) \/ AIStep(g)
  PROVE  \A h \in Goals \ {g} : SlotStays(h)
<1>1. TypeOK
  BY DEF IInv
<1>2. CASE DraftStep(g)
  BY <1>1, <1>2 DEF DraftStep, CreateDraft, SaveDraft, SaveReview, EditDraft, AbandonDraft, TypeOK, SlotStays
<1>3. CASE CycleStep(g)
  BY <1>3, CycleStepIs DEF SlotStays
<1>4. CASE AIStep(g)
  BY <1>1, <1>4 DEF AIStep, BeginActionAI, BeginGoalRefine, ApplyActionAI, EndAI, TypeOK, SlotStays
<1>5. ASSUME NEW op \in Ops, Transition(g, op) PROVE \A h \in Goals \ {g} : SlotStays(h)
  <2>1. CASE \E dr \in Revisions : StartGoal(g, op, dr)
    BY <1>1, <2>1 DEF StartGoal, TypeOK, SlotStays
  <2>2. CASE \E gr \in GoalRevisions, dr \in Revisions : ContinueReview(g, op, gr, dr)
    BY <1>1, <2>2 DEF ContinueReview, ContinueFrom, TypeOK, SlotStays
  <2>3. CASE \E gr \in GoalRevisions, n \in Nums, cr \in Revisions : CompleteCycle(g, op, n, gr, cr)
    BY <1>1, <2>3 DEF CompleteCycle, TypeOK, SlotStays
  <2>4. CASE \E gr \in GoalRevisions, n \in Nums, cr \in Revisions, sr \in Revisions :
                ReplanCycle(g, op, n, gr, cr, sr)
    BY <1>1, <2>4 DEF ReplanCycle, TypeOK, SlotStays
  <2>5. CASE \E gr \in GoalRevisions, n \in Nums, cr \in Revisions, outcome \in Outcomes :
                TerminateActiveCycle(g, op, outcome, n, gr, cr)
    BY <1>1, <2>5 DEF TerminateActiveCycle, TypeOK, SlotStays
  <2>6. CASE \E gr \in GoalRevisions, outcome \in Outcomes, discard \in BOOLEAN :
                TerminateGoalReview(g, op, outcome, gr, discard)
    BY <1>1, <2>6 DEF TerminateGoalReview, TypeOK, SlotStays
  <2>7. CASE \E gr \in GoalRevisions : DeleteGoal(g, op, gr)
    BY <1>1, <2>7 DEF DeleteGoal, TypeOK, SlotStays
  <2>8. QED
    BY <1>5, <2>1, <2>2, <2>3, <2>4, <2>5, <2>6, <2>7 DEF Transition
<1>6. QED
  BY <1>2, <1>3, <1>4, <1>5

\* What g's rows keep through a step.
SlotHistoryKept(g) ==
    goal'[g].status = "gone" \/
       \A n \in Nums :
          /\ cycle[g][n].status \in {"completed", "canceled"} => cycle'[g][n] = cycle[g][n]
          /\ version[g][n] # NoVersion => version'[g][n] = version[g][n]

LEMMA OpenCycleWriteKeepsHistory ==
  ASSUME IInv, NEW g \in Goals, NEW n \in Nums, CycleOpen(g, n), version' = version,
         \A m \in Nums \ {n} : cycle'[g][m] = cycle[g][m] \/ cycle[g][m].status = "absent"
  PROVE  SlotHistoryKept(g)
BY DEF SlotHistoryKept, CycleOpen

LEMMA TransitionKeepsHistory ==
  ASSUME IInv, NEW g \in Goals, NEW op \in Ops, Transition(g, op)
  PROVE  SlotHistoryKept(g)
<1>0. TypeOK /\ SlotFits(g)
  BY DEF IInv
<1>1. ASSUME NEW dr \in Revisions, StartGoal(g, op, dr) PROVE SlotHistoryKept(g)
  <2>1. goal[g] = EmptyGoal("none")
    BY <1>0, <1>1 DEF StartGoal, SlotFits, Drafts, GoalFits
  <2>2. \A m \in Nums : cycle[g][m].status = "absent" /\ version[g][m] = NoVersion
    BY <1>0, <2>1 DEF SlotFits, Dense, EmptyGoal, Nums
  <2>3. QED
    BY <2>2 DEF SlotHistoryKept
<1>2. ASSUME NEW gr \in GoalRevisions, NEW dr \in Revisions, ContinueReview(g, op, gr, dr)
      PROVE  SlotHistoryKept(g)
  <2>1. goal[g].status = "goal_review" /\ goal[g].next <= MaxCycles
    BY <1>2 DEF ContinueReview, ContinueFrom
  <2>2. goal[g].next \in Nums /\ goal[g].version \in Nums /\ goal[g].version < goal[g].next
        /\ goal[g].version + 1 \in Nums
    BY <1>0, <2>1, CurrentContentIs, LifecycleAssumption DEF Nums, SlotFits, GoalFits
  <2>3. /\ cycle[g][goal[g].next].status = "absent"
        /\ version[g][goal[g].version + 1] = NoVersion
    BY <1>0, <2>2 DEF SlotFits, Dense, Nums
  <2>4. \A m \in Nums \ {goal[g].next} : cycle'[g][m] = cycle[g][m]
    BY <1>0, <1>2, <2>2 DEF ContinueReview, ContinueFrom, TypeOK
  <2>5. \A m \in Nums \ {goal[g].version + 1} : version'[g][m] = version[g][m]
    <3>1. CASE DraftDiffers(g)
      BY <1>0, <1>2, <2>2, <3>1 DEF ContinueReview, ContinueFrom, TypeOK
    <3>2. CASE ~DraftDiffers(g)
      BY <1>2, <3>2 DEF ContinueReview, ContinueFrom
    <3>3. QED
      BY <3>1, <3>2
  <2>6. QED
    BY <2>3, <2>4, <2>5 DEF SlotHistoryKept
<1>3. ASSUME NEW gr \in GoalRevisions, NEW n \in Nums, NEW cr \in Revisions, CompleteCycle(g, op, n, gr, cr)
      PROVE  SlotHistoryKept(g)
  BY <1>0, <1>3, OpenCycleWriteKeepsHistory DEF CompleteCycle, TypeOK
<1>4. ASSUME NEW gr \in GoalRevisions, NEW n \in Nums, NEW cr \in Revisions, NEW sr \in Revisions,
             ReplanCycle(g, op, n, gr, cr, sr)
      PROVE  SlotHistoryKept(g)
  <2>1. CycleOpen(g, n) /\ version' = version /\ n < MaxCycles
        /\ cycle' = [cycle EXCEPT ![g][n] = Cancel(cycle[g][n], "replanned"),
                                  ![g][n + 1] = NewCycle(goal[g].version, op, ReplanReq(g, n, gr, cr, sr))]
    BY <1>4 DEF ReplanCycle
  <2>2. n = goal[g].next - 1 /\ n + 1 \in Nums /\ goal[g].next \in 1..MaxCycles + 1
    BY <2>1, OpenCycleIs, CurrentContentIs, LifecycleAssumption DEF Nums, CycleOpen
  <2>3. cycle[g][n + 1].status = "absent"
    BY <1>0, <2>2 DEF SlotFits, Dense, Nums
  <2>4. \A m \in Nums \ {n} : m = n + 1 \/ cycle'[g][m] = cycle[g][m]
    BY <1>0, <2>1, <2>2 DEF TypeOK
  <2>5. QED
    BY <2>1, <2>3, <2>4, OpenCycleWriteKeepsHistory
<1>5. ASSUME NEW gr \in GoalRevisions, NEW n \in Nums, NEW cr \in Revisions, NEW outcome \in Outcomes,
             TerminateActiveCycle(g, op, outcome, n, gr, cr)
      PROVE  SlotHistoryKept(g)
  BY <1>0, <1>5, OpenCycleWriteKeepsHistory DEF TerminateActiveCycle, TypeOK
<1>6. ASSUME NEW gr \in GoalRevisions, NEW outcome \in Outcomes, NEW discard \in BOOLEAN,
             TerminateGoalReview(g, op, outcome, gr, discard)
      PROVE  SlotHistoryKept(g)
  BY <1>6 DEF TerminateGoalReview, SlotHistoryKept
<1>7. ASSUME NEW gr \in GoalRevisions, DeleteGoal(g, op, gr)
      PROVE  SlotHistoryKept(g)
  BY <1>0, <1>7 DEF DeleteGoal, SlotHistoryKept, TypeOK, EmptyGoal
<1>8. QED
  BY <1>1, <1>2, <1>3, <1>4, <1>5, <1>6, <1>7 DEF Transition

LEMMA StepKeepsHistory ==
  ASSUME IInv, NEW g \in Goals,
         DraftStep(g) \/ CycleStep(g) \/ (\E op \in Ops : Transition(g, op)) \/ AIStep(g)
  PROVE  SlotHistoryKept(g)
<1>0. TypeOK
  BY DEF IInv
<1>1. CASE DraftStep(g)
  BY <1>1 DEF DraftStep, CreateDraft, SaveDraft, SaveReview, EditDraft, AbandonDraft, SlotHistoryKept
<1>2. CASE CycleStep(g)
  <2>1. PICK n \in Nums : CycleOpen(g, n) /\ version' = version
                          /\ \A m \in Nums \ {n} : cycle'[g][m] = cycle[g][m]
    BY <1>2, CycleStepIs
  <2>2. QED
    BY <2>1, OpenCycleWriteKeepsHistory
<1>3. CASE AIStep(g)
  <2>1. CASE \E text \in Texts : ApplyActionAI(g, text)
    <3>1. running[g].cycle \in Nums
      BY <1>0, <2>1 DEF ApplyActionAI, TypeOK, Targets
    <3>2. QED
      BY <1>0, <2>1, <3>1, OpenCycleWriteKeepsHistory DEF ApplyActionAI, TypeOK
  <2>2. CASE ~\E text \in Texts : ApplyActionAI(g, text)
    BY <1>3, <2>2 DEF AIStep, BeginActionAI, BeginGoalRefine, EndAI, SlotHistoryKept
  <2>3. QED
    BY <2>1, <2>2
<1>4. QED
  BY <1>1, <1>2, <1>3, TransitionKeepsHistory

\* What happened stays: no transaction changes a cycle that was completed or
\* canceled, its texts included, or a goal version, but the deletion.
THEOREM HistoryStaysFrozen == Spec => HistoryFrozen
<1> DEFINE Kept == \A g \in Goals, n \in Nums :
         goal'[g].status = "gone" \/
            /\ cycle[g][n].status \in {"completed", "canceled"} => cycle'[g][n] = cycle[g][n]
            /\ version[g][n] # NoVersion => version'[g][n] = version[g][n]
<1>1. ASSUME IInv, Next PROVE Kept
  <2>1. CASE \E op \in Ops : ReceiptExpires(op)
    BY <2>1 DEF ReceiptExpires
  <2>2. ASSUME NEW g \in Goals, GoalStep(g) PROVE Kept
    <3>1. SlotHistoryKept(g) /\ \A h \in Goals \ {g} : SlotStays(h)
      BY <1>1, <2>2, StepKeepsHistory, OneGoal DEF GoalStep
    <3>2. QED
      BY <3>1 DEF SlotHistoryKept, SlotStays
  <2>3. QED
    BY <1>1, <2>1, <2>2 DEF Next
<1> HIDE DEF Kept
<1>2. IInv /\ [Next]_vars => [Kept]_vars
  BY <1>1
<1>3. (Spec => [][Kept]_vars) <=> (Spec => HistoryFrozen)
  BY DEF Kept, HistoryFrozen
<1>4. Spec => [][Kept]_vars
  BY AlwaysIInv, <1>2, PTL DEF Spec
<1>5. QED
  BY <1>3, <1>4

\* A request that the guards let through was not carried out before.
LEMMA NotYetApplied ==
  ASSUME IInv, NEW g \in Goals, goal[g].status \notin {"none", "gone"}, NEW req \in Requests,
         req.goal = g, req.kind # "start", req.kind = "delete" \/ req.goalRev = goal[g].revision
  PROVE  \A a \in applied : a.req # req
<1>1. goal[g].revision \in Nat
  BY CurrentContentIs
<1>2. QED
  BY <1>1 DEF IInv, AppliedFits, Spent

\* The transactions that end a review.
LEMMA ReviewEnds ==
  ASSUME IInv, NEW g \in Goals,
         DraftStep(g) \/ CycleStep(g) \/ (\E op \in Ops : Transition(g, op)) \/ AIStep(g),
         draft[g].kind = "review", draft'[g].kind # "review"
  PROVE  \E op \in Ops, gr \in GoalRevisions :
            \/ \E dr \in Revisions : ContinueReview(g, op, gr, dr)
            \/ \E outcome \in Outcomes, discard \in BOOLEAN : TerminateGoalReview(g, op, outcome, gr, discard)
            \/ DeleteGoal(g, op, gr)
<1>0. draft \in [Goals -> DraftRow] /\ SlotFits(g)
  BY DEF IInv, TypeOK
<1>1. ~DraftStep(g)
  <2>1. \A content \in Contents, dr \in Revisions : ~EditDraft(g, content, dr)
    <3>1. SUFFICES ASSUME NEW content \in Contents, NEW dr \in Revisions, EditDraft(g, content, dr)
                   PROVE  draft'[g].kind = draft[g].kind
      OBVIOUS
    <3>2. draft' = [draft EXCEPT ![g].content = content, ![g].revision = dr + 1]
      BY <3>1 DEF EditDraft
    <3>3. QED
      BY <1>0, <3>2 DEF DraftRow
  <2>2. QED
    BY <2>1 DEF DraftStep, CreateDraft, SaveDraft, SaveReview, AbandonDraft
<1>2. ~CycleStep(g)
  BY CycleStepIs
<1>3. ~AIStep(g)
  BY DEF AIStep, BeginActionAI, BeginGoalRefine, ApplyActionAI, EndAI
<1>4. goal[g].status = "goal_review"
  BY <1>0 DEF SlotFits, Drafts
<1>5. QED
  BY <1>1, <1>2, <1>3, <1>4 DEF Transition, StartGoal, CompleteCycle, ReplanCycle, TerminateActiveCycle, CycleOpen

\* A review that goes away with words its goal does not say.
SlotEditsKept(g) ==
    draft[g].kind = "review" /\ draft[g].content # CurrentContent(g) /\ draft'[g].kind # "review" =>
       \/ Aim(g)' = draft[g].content
       \/ \E a \in applied' :
             /\ a \notin applied /\ a.req.goal = g
             /\ \/ a.req.kind = "delete"
                \/ a.req.kind = "terminate_review" /\ a.req.discard

LEMMA StepKeepsEdits ==
  ASSUME IInv, NEW g \in Goals,
         DraftStep(g) \/ CycleStep(g) \/ (\E op \in Ops : Transition(g, op)) \/ AIStep(g)
  PROVE  SlotEditsKept(g)
<1> SUFFICES ASSUME draft[g].kind = "review", DraftDiffers(g), draft'[g].kind # "review"
             PROVE  \/ Aim(g)' = draft[g].content
                    \/ \E a \in applied' :
                          /\ a \notin applied /\ a.req.goal = g
                          /\ \/ a.req.kind = "delete"
                             \/ a.req.kind = "terminate_review" /\ a.req.discard
  BY DEF SlotEditsKept, DraftDiffers
<1>0. TypeOK /\ SlotFits(g)
  BY DEF IInv
<1>1. PICK op \in Ops, gr \in GoalRevisions :
         \/ \E dr \in Revisions : ContinueReview(g, op, gr, dr)
         \/ \E outcome \in Outcomes, discard \in BOOLEAN : TerminateGoalReview(g, op, outcome, gr, discard)
         \/ DeleteGoal(g, op, gr)
  BY ReviewEnds
<1>2. goal[g].status = "goal_review"
  BY <1>0 DEF SlotFits, Drafts
<1>3. goal[g].version \in Nums /\ goal[g] \in GoalRow /\ goal[g].next \in 1..MaxCycles + 1
  BY <1>2, CurrentContentIs
<1>4. CASE \E dr \in Revisions : ContinueReview(g, op, gr, dr)
  <2>0. goal[g].version + 1 \in Nums
    <3>1. goal[g].next <= MaxCycles
      BY <1>4 DEF ContinueReview, ContinueFrom
    <3>2. QED
      BY <1>0, <1>3, <3>1, LifecycleAssumption DEF SlotFits, GoalFits, Nums
  <2>1. /\ goal'[g].version = goal[g].version + 1
        /\ version'[g][goal[g].version + 1].content = draft[g].content
    BY <1>0, <1>3, <1>4, <2>0 DEF ContinueReview, ContinueFrom, NewVersion, TypeOK, GoalRow
  <2>2. goal'[g].version # 0
    BY <1>3, <2>1 DEF Nums
  <2>3. QED
    BY <2>1, <2>2 DEF Aim, CurrentContent
<1>5. ASSUME NEW outcome \in Outcomes, NEW discard \in BOOLEAN,
             TerminateGoalReview(g, op, outcome, gr, discard)
      PROVE  \E a \in applied' : /\ a \notin applied /\ a.req.goal = g
                                 /\ a.req.kind = "terminate_review" /\ a.req.discard
  <2> DEFINE req == TerminateReviewReq(g, outcome, gr, discard)
             new == [op |-> op, req |-> req, created |-> FALSE]
  <2>1. req \in Requests /\ req.goal = g /\ req.kind = "terminate_review" /\ req.goalRev = gr /\ req.discard
    BY <1>5 DEF TerminateReviewReq, TerminateRequests, GoalRevisions, Requests, TerminateGoalReview
  <2>2. goal[g].revision = gr /\ Record(op, req, FALSE)
    BY <1>5 DEF TerminateGoalReview
  <2> HIDE DEF req
  <2>3. \A a \in applied : a.req # req
    BY <1>2, <2>1, <2>2, NotYetApplied
  <2>4. new \in applied' /\ new \notin applied
    BY <2>2, <2>3 DEF Record
  <2>5. QED
    BY <2>1, <2>4
<1>6. CASE DeleteGoal(g, op, gr)
  <2> DEFINE req == DeleteReq(g, gr)
             new == [op |-> op, req |-> req, created |-> FALSE]
  <2>1. req \in Requests /\ req.goal = g /\ req.kind = "delete"
    BY <1>6 DEF DeleteReq, DeleteRequests, GoalRevisions, Requests
  <2>2. Record(op, req, FALSE)
    BY <1>6 DEF DeleteGoal
  <2> HIDE DEF req
  <2>3. \A a \in applied : a.req # req
    BY <1>2, <2>1, NotYetApplied
  <2>4. new \in applied' /\ new \notin applied
    BY <2>2, <2>3 DEF Record
  <2>5. QED
    BY <2>1, <2>4
<1>7. QED
  BY <1>1, <1>4, <1>5, <1>6

\* What the user wrote in a review is not lost by any transaction: it becomes
\* the current version, or the user confirmed in that very request that it be
\* discarded, or deleted the goal.
THEOREM ReviewEditsAreKept == Spec => ReviewEditsKept
<1> DEFINE Kept == \A g \in Goals :
         draft[g].kind = "review" /\ draft[g].content # CurrentContent(g)
            /\ draft'[g].kind # "review" =>
            \/ Aim(g)' = draft[g].content
            \/ \E a \in applied' :
                  /\ a \notin applied /\ a.req.goal = g
                  /\ \/ a.req.kind = "delete"
                     \/ a.req.kind = "terminate_review" /\ a.req.discard
<1>1. ASSUME IInv, Next PROVE Kept
  <2>1. CASE \E op \in Ops : ReceiptExpires(op)
    BY <2>1 DEF ReceiptExpires
  <2>2. ASSUME NEW g \in Goals, GoalStep(g) PROVE Kept
    <3>1. SlotEditsKept(g) /\ \A h \in Goals \ {g} : SlotStays(h)
      BY <1>1, <2>2, StepKeepsEdits, OneGoal DEF GoalStep
    <3>2. QED
      BY <3>1 DEF SlotEditsKept, SlotStays
  <2>3. QED
    BY <1>1, <2>1, <2>2 DEF Next
<1> HIDE DEF Kept
<1>2. IInv /\ [Next]_vars => [Kept]_vars
  BY <1>1
<1>3. (Spec => [][Kept]_vars) <=> (Spec => ReviewEditsKept)
  BY DEF Kept, ReviewEditsKept
<1>4. Spec => [][Kept]_vars
  BY AlwaysIInv, <1>2, PTL DEF Spec
<1>5. QED
  BY <1>3, <1>4

-----------------------------------------------------------------------------
(***************************************************************************)
(* The journey                                                             *)
(***************************************************************************)

\* The refinement mapping, component by component.
JourneyPhase == [g \in Goals |-> PhaseOf(goal[g].status)]
JourneyNumber == [g \in Goals |-> goal[g].next - 1]
JourneyAim == [g \in Goals |-> Aim(g)]
JourneyLesson == [g \in Goals |-> PreviousCompleted(g)]

LEMMA JourneyMoves ==
  ASSUME NEW g \in Goals, \A h \in Goals \ {g} : SlotStays(h)
  PROVE  /\ JourneyPhase' = [JourneyPhase EXCEPT ![g] = PhaseOf(goal'[g].status)]
         /\ JourneyNumber' = [JourneyNumber EXCEPT ![g] = goal'[g].next - 1]
         /\ JourneyAim' = [JourneyAim EXCEPT ![g] = Aim(g)']
         /\ JourneyLesson' = [JourneyLesson EXCEPT ![g] = PreviousCompleted(g)']
<1>1. \A h \in Goals \ {g} :
         /\ PhaseOf(goal'[h].status) = PhaseOf(goal[h].status) /\ goal'[h].next = goal[h].next
         /\ Aim(h)' = Aim(h) /\ PreviousCompleted(h)' = PreviousCompleted(h)
  BY DEF SlotStays, Aim, CurrentContent, PreviousCompleted
<1>2. JourneyPhase' = [JourneyPhase EXCEPT ![g] = PhaseOf(goal'[g].status)]
  BY <1>1 DEF JourneyPhase
<1>3. JourneyNumber' = [JourneyNumber EXCEPT ![g] = goal'[g].next - 1]
  BY <1>1 DEF JourneyNumber
<1>4. JourneyAim' = [JourneyAim EXCEPT ![g] = Aim(g)']
  BY <1>1 DEF JourneyAim
<1>5. JourneyLesson' = [JourneyLesson EXCEPT ![g] = PreviousCompleted(g)']
  BY <1>1 DEF JourneyLesson
<1>6. QED
  BY <1>2, <1>3, <1>4, <1>5

\* Steps of one goal as the journey names them.
LEMMA JourneyBegin ==
  ASSUME IInv, NEW g \in Goals, NEW op \in Ops, NEW dr \in Revisions, StartGoal(g, op, dr),
         \A h \in Goals \ {g} : SlotStays(h)
  PROVE  Journey!Begin(g)
<1>1. TypeOK /\ goal[g] = EmptyGoal("none") /\ draft[g].content \in Contents
  BY DEF IInv, SlotFits, Drafts, GoalFits, StartGoal
<1>2. 1 \in Nums /\ 0 \notin Nums
  BY LifecycleAssumption DEF Nums
<1>3. /\ goal'[g].status = "active_cycle" /\ goal'[g].next = 2 /\ goal'[g].version = 1
      /\ version'[g][1].content = draft[g].content
  BY <1>1, <1>2 DEF StartGoal, TypeOK, EmptyGoal
<1>4. Aim(g)' = draft[g].content /\ PreviousCompleted(g) = 0 /\ PreviousCompleted(g)' = 0
  BY <1>1, <1>2, <1>3 DEF Aim, CurrentContent, PreviousCompleted, EmptyGoal
<1>5. JourneyLesson' = JourneyLesson
  BY <1>4, JourneyMoves DEF JourneyLesson
<1>6. Journey!Progressing = Progressing
  <2>1. \A h \in Goals : PhaseOf(goal[h].status) \in {"acting", "reviewing"}
                          <=> goal[h].status \in {"active_cycle", "goal_review"}
    BY <1>1 DEF TypeOK, GoalRow, Statuses, PhaseOf
  <2>2. QED
    BY <2>1 DEF Journey!Progressing, Progressing
<1>7. Journey!Cardinality(Journey!Progressing) < MaxProgressingGoals
  <2>1. \A S : Journey!Cardinality(S) = Cardinality(S)
    BY Zenon DEF Journey!Cardinality, Cardinality
  <2>2. QED
    BY <1>6, <2>1 DEF StartGoal
<1>8. JourneyPhase[g] = "none"
  BY <1>1 DEF JourneyPhase, PhaseOf, EmptyGoal
<1>9. /\ JourneyPhase' = [JourneyPhase EXCEPT ![g] = "acting"]
      /\ JourneyNumber' = [JourneyNumber EXCEPT ![g] = 1]
      /\ JourneyAim' = [JourneyAim EXCEPT ![g] = draft[g].content]
  BY <1>3, <1>4, JourneyMoves DEF PhaseOf
<1>10. QED
  BY <1>1, <1>5, <1>7, <1>8, <1>9
     DEF Journey!Begin, JourneyPhase, JourneyNumber, JourneyAim, JourneyLesson

LEMMA JourneyReflect ==
  ASSUME IInv, NEW g \in Goals, NEW op \in Ops, NEW n \in Nums, NEW gr \in GoalRevisions,
         NEW cr \in Revisions, CompleteCycle(g, op, n, gr, cr), \A h \in Goals \ {g} : SlotStays(h)
  PROVE  Journey!Reflect(g)
<1>1. TypeOK /\ goal[g].status = "active_cycle" /\ goal[g] \in GoalRow
  BY DEF IInv, TypeOK, CompleteCycle, CycleOpen
<1>2. /\ goal'[g].status = "goal_review" /\ goal'[g].next = goal[g].next
      /\ goal'[g].version = goal[g].version /\ version' = version
  BY <1>1 DEF CompleteCycle, TypeOK, GoalRow
<1>3. Aim(g)' = Aim(g) /\ PreviousCompleted(g)' = 0
  BY <1>2 DEF Aim, CurrentContent, PreviousCompleted
<1>4. JourneyNumber' = JourneyNumber /\ JourneyAim' = JourneyAim
  BY <1>2, <1>3, JourneyMoves DEF JourneyNumber, JourneyAim
<1>5. /\ JourneyPhase[g] = "acting" /\ JourneyPhase' = [JourneyPhase EXCEPT ![g] = "reviewing"]
      /\ JourneyLesson' = [JourneyLesson EXCEPT ![g] = 0]
  BY <1>1, <1>2, <1>3, JourneyMoves DEF PhaseOf, JourneyPhase
<1>6. QED
  BY <1>4, <1>5 DEF Journey!Reflect, JourneyPhase, JourneyNumber, JourneyAim, JourneyLesson

LEMMA JourneyCarryOn ==
  ASSUME IInv, NEW g \in Goals, NEW op \in Ops, NEW gr \in GoalRevisions, NEW dr \in Revisions,
         ContinueReview(g, op, gr, dr), \A h \in Goals \ {g} : SlotStays(h)
  PROVE  Journey!CarryOn(g)
<1>1. TypeOK /\ SlotFits(g) /\ goal[g].status = "goal_review" /\ draft[g].kind = "review"
  BY DEF IInv, ContinueReview, ContinueFrom
<1>2. /\ goal[g].version \in Nums /\ CurrentContent(g) \in Contents /\ goal[g] \in GoalRow
      /\ goal[g].next \in 1..MaxCycles + 1 /\ goal[g].next - 1 \in Nums /\ draft[g].content \in Contents
  <2>1. draft[g].content \in Contents
    BY <1>1 DEF SlotFits, GoalFits
  <2>2. QED
    BY <1>1, <2>1, CurrentContentIs
<1>3. goal[g].next \in Nums /\ goal[g].next # goal[g].next - 1 /\ goal[g].version + 1 \in Nums
  <2>1. goal[g].next <= MaxCycles
    BY DEF ContinueReview, ContinueFrom
  <2>2. QED
    BY <1>1, <1>2, <2>1, LifecycleAssumption DEF SlotFits, GoalFits, Nums
<1>4. /\ goal'[g].status = "active_cycle" /\ goal'[g].next = goal[g].next + 1
      /\ cycle'[g][goal[g].next - 1] = cycle[g][goal[g].next - 1]
  BY <1>1, <1>2, <1>3 DEF ContinueReview, ContinueFrom, TypeOK, GoalRow
<1>5. Aim(g)' \in Contents
  <2>1. CASE DraftDiffers(g)
    <3>1. /\ goal'[g].version = goal[g].version + 1
          /\ version'[g][goal[g].version + 1].content = draft[g].content
      BY <1>1, <1>2, <1>3, <2>1 DEF ContinueReview, ContinueFrom, NewVersion, TypeOK, GoalRow
    <3>2. goal'[g].version # 0
      BY <1>2, <3>1 DEF Nums
    <3>3. QED
      BY <1>2, <3>1, <3>2 DEF Aim, CurrentContent
  <2>2. CASE ~DraftDiffers(g)
    <3>1. goal'[g].version = goal[g].version /\ version' = version
      BY <1>1, <1>2, <2>2 DEF ContinueReview, ContinueFrom, TypeOK, GoalRow, Nums
    <3>2. goal[g].version # 0
      BY <1>2 DEF Nums
    <3>3. QED
      BY <1>2, <3>1, <3>2 DEF Aim, CurrentContent
  <2>3. QED
    BY <2>1, <2>2
<1>6. PreviousCompleted(g)' = goal[g].next - 1
  <2>1. goal'[g].next - 2 = goal[g].next - 1
    BY <1>2, <1>4
  <2>2. cycle'[g][goal[g].next - 1].status = "completed"
    BY <1>1, <1>4 DEF SlotFits, Work
  <2>3. QED
    BY <1>2, <1>4, <2>1, <2>2 DEF PreviousCompleted
<1>7. /\ JourneyPhase[g] = "reviewing" /\ JourneyPhase' = [JourneyPhase EXCEPT ![g] = "acting"]
      /\ JourneyNumber' = [JourneyNumber EXCEPT ![g] = JourneyNumber[g] + 1]
  <2>1. goal'[g].next - 1 = goal[g].next - 1 + 1
    BY <1>2, <1>4
  <2>2. QED
    BY <1>1, <1>4, <2>1, JourneyMoves DEF PhaseOf, JourneyPhase, JourneyNumber
<1>8. /\ JourneyAim' = [JourneyAim EXCEPT ![g] = Aim(g)']
      /\ JourneyLesson' = [JourneyLesson EXCEPT ![g] = JourneyNumber[g]]
  BY <1>6, JourneyMoves DEF JourneyNumber
<1>9. QED
  BY <1>5, <1>7, <1>8 DEF Journey!CarryOn, JourneyPhase, JourneyNumber, JourneyAim, JourneyLesson

LEMMA JourneyReplan ==
  ASSUME IInv, NEW g \in Goals, NEW op \in Ops, NEW n \in Nums, NEW gr \in GoalRevisions,
         NEW cr \in Revisions, NEW sr \in Revisions, ReplanCycle(g, op, n, gr, cr, sr),
         \A h \in Goals \ {g} : SlotStays(h)
  PROVE  Journey!Replan(g)
<1>1. TypeOK /\ CycleOpen(g, n) /\ goal[g].status = "active_cycle" /\ goal[g] \in GoalRow
  BY DEF IInv, TypeOK, ReplanCycle, CycleOpen
<1>2. n = goal[g].next - 1 /\ goal[g].next \in 1..MaxCycles + 1 /\ cycle[g][n] \in CycleRow
  BY <1>1, OpenCycleIs, CurrentContentIs
<1>3. n + 1 \in Nums /\ n + 1 # n
  <2>1. n < MaxCycles
    BY DEF ReplanCycle
  <2>2. QED
    BY <2>1, LifecycleAssumption DEF Nums
<1>4. /\ goal'[g].status = "active_cycle" /\ goal'[g].next = goal[g].next + 1
      /\ goal'[g].version = goal[g].version /\ version' = version
      /\ cycle'[g][n].status = "canceled"
  BY <1>1, <1>2, <1>3 DEF ReplanCycle, Replan, Cancel, TypeOK, GoalRow, CycleRow
<1>5. Aim(g)' = Aim(g)
  BY <1>4 DEF Aim, CurrentContent
<1>6. PreviousCompleted(g)' = 0
  <2>1. goal'[g].next - 2 = n
    BY <1>2, <1>4
  <2>2. QED
    BY <1>4, <2>1 DEF PreviousCompleted
<1>7. JourneyPhase' = JourneyPhase /\ JourneyAim' = JourneyAim
  <2>1. PhaseOf(goal'[g].status) = PhaseOf(goal[g].status)
    BY <1>1, <1>4
  <2>2. /\ JourneyPhase' = [JourneyPhase EXCEPT ![g] = PhaseOf(goal[g].status)]
        /\ JourneyAim' = [JourneyAim EXCEPT ![g] = Aim(g)]
    BY <1>5, <2>1, JourneyMoves
  <2>3. [JourneyPhase EXCEPT ![g] = PhaseOf(goal[g].status)] = JourneyPhase
    BY DEF JourneyPhase
  <2>4. [JourneyAim EXCEPT ![g] = Aim(g)] = JourneyAim
    BY DEF JourneyAim
  <2>5. QED
    BY <2>2, <2>3, <2>4
<1>8. goal'[g].next - 1 = goal[g].next - 1 + 1
  BY <1>2, <1>4
<1>9. /\ JourneyPhase[g] = "acting" /\ JourneyNumber' = [JourneyNumber EXCEPT ![g] = JourneyNumber[g] + 1]
      /\ JourneyLesson' = [JourneyLesson EXCEPT ![g] = 0]
  BY <1>1, <1>6, <1>8, JourneyMoves DEF PhaseOf, JourneyPhase, JourneyNumber
<1>10. QED
  BY <1>7, <1>9 DEF Journey!Replan, JourneyPhase, JourneyNumber, JourneyAim, JourneyLesson

LEMMA JourneyFinish ==
  ASSUME IInv, NEW g \in Goals, goal[g].status \in {"active_cycle", "goal_review"},
         NEW outcome \in Outcomes, NEW r, goal' = [goal EXCEPT ![g] = Terminate(goal[g], outcome, r)],
         version' = version, \A h \in Goals \ {g} : SlotStays(h)
  PROVE  Journey!Finish(g)
<1>1. goal \in [Goals -> GoalRow] /\ outcome \in {"achieved", "ended"}
  BY DEF IInv, TypeOK, Outcomes
<1>2. /\ goal'[g].status = outcome /\ goal'[g].next = goal[g].next /\ goal'[g].version = goal[g].version
  BY <1>1 DEF Terminate, GoalRow
<1>3. Aim(g)' = Aim(g) /\ PreviousCompleted(g)' = 0 /\ PhaseOf(goal'[g].status) = "over"
  BY <1>1, <1>2 DEF Aim, CurrentContent, PreviousCompleted, PhaseOf
<1>4. JourneyNumber' = JourneyNumber /\ JourneyAim' = JourneyAim
  <2>1. /\ JourneyNumber' = [JourneyNumber EXCEPT ![g] = goal[g].next - 1]
        /\ JourneyAim' = [JourneyAim EXCEPT ![g] = Aim(g)]
    BY <1>2, <1>3, JourneyMoves
  <2>2. QED
    BY <2>1 DEF JourneyNumber, JourneyAim
<1>5. /\ JourneyPhase[g] \in {"acting", "reviewing"} /\ JourneyPhase' = [JourneyPhase EXCEPT ![g] = "over"]
      /\ JourneyLesson' = [JourneyLesson EXCEPT ![g] = 0]
  BY <1>3, JourneyMoves DEF PhaseOf, JourneyPhase
<1>6. QED
  BY <1>4, <1>5 DEF Journey!Finish, JourneyPhase, JourneyNumber, JourneyAim, JourneyLesson

LEMMA JourneyForget ==
  ASSUME IInv, NEW g \in Goals, goal[g].status # "gone",
         goal' = [goal EXCEPT ![g] = EmptyGoal("gone")], \A h \in Goals \ {g} : SlotStays(h)
  PROVE  Journey!Forget(g)
<1>1. goal \in [Goals -> GoalRow]
  BY DEF IInv, TypeOK
<1>2. goal'[g].status = "gone" /\ goal'[g].next - 1 = 0 /\ goal'[g].version = 0
  BY <1>1 DEF EmptyGoal
<1>3. Aim(g)' = NoContent /\ PreviousCompleted(g)' = 0 /\ PhaseOf(goal'[g].status) = "gone"
  BY <1>2 DEF Aim, PreviousCompleted, PhaseOf
<1>4. JourneyPhase[g] # "gone"
  BY <1>1 DEF JourneyPhase, PhaseOf
<1>5. /\ JourneyPhase' = [JourneyPhase EXCEPT ![g] = "gone"] /\ JourneyNumber' = [JourneyNumber EXCEPT ![g] = 0]
      /\ JourneyAim' = [JourneyAim EXCEPT ![g] = NoContent] /\ JourneyLesson' = [JourneyLesson EXCEPT ![g] = 0]
  BY <1>2, <1>3, JourneyMoves
<1>6. QED
  BY <1>4, <1>5 DEF Journey!Forget, JourneyPhase, JourneyNumber, JourneyAim, JourneyLesson

\* A step that neither moves a goal nor changes the status of a cycle.
LEMMA JourneyStutters ==
  ASSUME goal' = goal, version' = version,
         \A g \in Goals, n \in Nums : cycle'[g][n].status = cycle[g][n].status
  PROVE  UNCHANGED Journey!vars
<1>1. \A g \in Goals : Aim(g)' = Aim(g) /\ PreviousCompleted(g)' = PreviousCompleted(g)
  BY DEF Aim, CurrentContent, PreviousCompleted
<1>2. QED
  BY <1>1 DEF Journey!vars

LEMMA StepTravels ==
  ASSUME IInv, [Next]_vars
  PROVE  [Journey!Next]_(Journey!vars)
<1>0. TypeOK
  BY DEF IInv
<1>1. CASE UNCHANGED vars
  BY <1>1, JourneyStutters DEF vars
<1>2. ASSUME NEW g \in Goals, DraftStep(g) PROVE Journey!Next \/ UNCHANGED Journey!vars
  <2>1. CASE AbandonDraft(g)
    <3>1. goal[g].status # "gone"
      BY <2>1 DEF AbandonDraft, IInv, SlotFits, Drafts
    <3>2. \A h \in Goals \ {g} : SlotStays(h)
      BY <1>2, OneGoal
    <3>3. Journey!Forget(g)
      BY <2>1, <3>1, <3>2, JourneyForget DEF AbandonDraft
    <3>4. QED
      BY <3>3 DEF Journey!Next
  <2>2. CASE ~AbandonDraft(g)
    <3>1. UNCHANGED <<goal, version, cycle>>
      BY <1>2, <2>2 DEF DraftStep, CreateDraft, SaveDraft, SaveReview, EditDraft
    <3>2. QED
      BY <3>1, JourneyStutters
  <2>3. QED
    BY <2>1, <2>2
<1>3. ASSUME NEW g \in Goals, CycleStep(g) PROVE UNCHANGED Journey!vars
  <2>1. goal' = goal /\ version' = version
    BY <1>3, CycleStepIs
  <2>2. \A h \in Goals, m \in Nums : cycle'[h][m].status = cycle[h][m].status
    BY <1>3, CycleStepIs DEF CycleOpen
  <2>3. QED
    BY <2>1, <2>2, JourneyStutters
<1>4. ASSUME NEW g \in Goals, AIStep(g) PROVE UNCHANGED Journey!vars
  <2>1. goal' = goal /\ version' = version
    BY <1>4 DEF AIStep, BeginActionAI, BeginGoalRefine, ApplyActionAI, EndAI
  <2>2. \A h \in Goals, m \in Nums : cycle'[h][m].status = cycle[h][m].status
    <3>1. CASE \E text \in Texts : ApplyActionAI(g, text)
      <4>1. running[g].cycle \in Nums
        BY <1>0, <3>1 DEF ApplyActionAI, TypeOK, Targets
      <4>2. QED
        BY <1>0, <3>1, <4>1 DEF ApplyActionAI, ApplyAIAction, TypeOK, CycleRow
    <3>2. CASE ~\E text \in Texts : ApplyActionAI(g, text)
      BY <1>4, <3>2 DEF AIStep, BeginActionAI, BeginGoalRefine, EndAI
    <3>3. QED
      BY <3>1, <3>2
  <2>3. QED
    BY <2>1, <2>2, JourneyStutters
<1>5. ASSUME NEW g \in Goals, NEW op \in Ops, Transition(g, op) PROVE Journey!Next
  <2>0. \A h \in Goals \ {g} : SlotStays(h)
    BY <1>5, OneGoal
  <2>1. ASSUME NEW dr \in Revisions, StartGoal(g, op, dr) PROVE Journey!Begin(g)
    BY <2>0, <2>1, JourneyBegin
  <2>2. ASSUME NEW gr \in GoalRevisions, NEW dr \in Revisions, ContinueReview(g, op, gr, dr)
        PROVE  Journey!CarryOn(g)
    BY <2>0, <2>2, JourneyCarryOn
  <2>3. ASSUME NEW gr \in GoalRevisions, NEW n \in Nums, NEW cr \in Revisions,
               CompleteCycle(g, op, n, gr, cr)
        PROVE  Journey!Reflect(g)
    BY <2>0, <2>3, JourneyReflect
  <2>4. ASSUME NEW gr \in GoalRevisions, NEW n \in Nums, NEW cr \in Revisions, NEW sr \in Revisions,
               ReplanCycle(g, op, n, gr, cr, sr)
        PROVE  Journey!Replan(g)
    BY <2>0, <2>4, JourneyReplan
  <2>5. ASSUME NEW gr \in GoalRevisions, NEW n \in Nums, NEW cr \in Revisions, NEW outcome \in Outcomes,
               TerminateActiveCycle(g, op, outcome, n, gr, cr)
        PROVE  Journey!Finish(g)
    BY <2>0, <2>5, JourneyFinish DEF TerminateActiveCycle, CycleOpen
  <2>6. ASSUME NEW gr \in GoalRevisions, NEW outcome \in Outcomes, NEW discard \in BOOLEAN,
               TerminateGoalReview(g, op, outcome, gr, discard)
        PROVE  Journey!Finish(g)
    BY <2>0, <2>6, JourneyFinish DEF TerminateGoalReview
  <2>7. ASSUME NEW gr \in GoalRevisions, DeleteGoal(g, op, gr) PROVE Journey!Forget(g)
    BY <2>0, <2>7, JourneyForget DEF DeleteGoal
  <2>8. QED
    BY <1>5, <2>1, <2>2, <2>3, <2>4, <2>5, <2>6, <2>7 DEF Transition, Journey!Next
<1>6. ASSUME NEW op \in Ops, ReceiptExpires(op) PROVE UNCHANGED Journey!vars
  BY <1>6, JourneyStutters DEF ReceiptExpires
<1>7. QED
  BY <1>1, <1>2, <1>3, <1>4, <1>5, <1>6 DEF Next, GoalStep

\* Through its rows a goal travels as promised: one cycle at a time, reworded
\* only in a review, shown the Action of completed cycles only, and never back
\* once it is over or deleted.
THEOREM RowsImplementJourney == Spec => ImplementsJourney
<1>1. Init => Journey!Init
  BY DEF Init, Journey!Init, EmptyGoal, PhaseOf, Aim, PreviousCompleted
<1>2. IInv /\ [Next]_vars => [Journey!Next]_(Journey!vars)
  BY StepTravels
<1>3. QED
  BY <1>1, <1>2, AlwaysIInv, PTL DEF Spec, ImplementsJourney, Journey!Spec

-----------------------------------------------------------------------------
(***************************************************************************)
(* What is read back                                                       *)
(***************************************************************************)

\* The content revision of a cycle counts the edits of its frames.
Counted(c) == IsFiniteSet(Edits(c)) /\ c.content = Cardinality(Edits(c))

\* A cycle bears the receipt of the request that began it; one that replaced
\* another follows it, under the same version.
BeginningFits(g, n) ==
    LET c == cycle[g][n]
        p == cycle[g][n - 1]
    IN
    /\ Counted(c)
    /\ c.status = "absent" <=> c.startedBy = NoReceipt
    /\ c.startedBy # NoReceipt /\ c.startedBy.req.kind = "replan" =>
          n > 1 /\ p.status = "canceled" /\ p.reason = "replanned" /\ p.version = c.version

\* A version was made by an operation that also began a cycle.
MakerFits(g, v) ==
    version[g][v].by # NoReceipt =>
        \E n \in Nums : /\ cycle[g][n].startedBy # NoReceipt
                        /\ cycle[g][n].startedBy.op = version[g][v].by

\* A goal that is over is as the request that ended it left it.
EndFits(g) ==
    LET row == goal[g]
        req == row.terminal.req
    IN
    row.terminal # NoReceipt =>
       /\ row.status = req.outcome /\ row.revision = req.goalRev + 1
       /\ req.kind = "terminate_cycle" =>
             /\ cycle[g][req.cycle].status = "canceled"
             /\ cycle[g][req.cycle].reason = Reason(req.outcome)

ReceiptsFit(g) == EndFits(g) /\ \A n \in Nums : BeginningFits(g, n) /\ MakerFits(g, n)

\* The row that bears the receipt of a request that took effect.
Remembered(a) ==
    LET g == a.req.goal
        r == [op |-> a.op, req |-> a.req]
    IN
    IF a.req.kind = "delete" THEN receipt[a.op] # NoReceipt /\ receipt[a.op].req = a.req
    ELSE goal[g].status # "gone" =>
       /\ a.req.kind \in {"start", "continue", "replan"} =>
             /\ \E n \in Nums : cycle[g][n].startedBy = r
             /\ VersionCreated(g, a.op) = a.created
       /\ a.req.kind = "complete" => \E n \in Nums : cycle[g][n].completedBy = r
       /\ a.req.kind \in {"terminate_cycle", "terminate_review"} => goal[g].terminal = r

RInv == (\A g \in Goals : ReceiptsFit(g)) /\ \A a \in applied : Remembered(a)

\* What a step may do to the rows of g that does not delete them: begun cycles
\* keep who began them, receipts stay, and a new version is made by an operation
\* that begins its first cycle.
CycleGrows(g, n) ==
    LET c == cycle[g][n]
        d == cycle'[g][n]
        p == cycle'[g][n - 1]
    IN
    /\ Counted(d)
    /\ c.status # "absent" =>
          /\ d.status # "absent" /\ d.startedBy = c.startedBy /\ d.version = c.version
          /\ c.completedBy # NoReceipt => d.completedBy = c.completedBy
    /\ c.status = "canceled" => d = c
    /\ c.status = "absent" =>
          \/ d = c
          \/ /\ d.status # "absent" /\ d.startedBy # NoReceipt
             /\ d.startedBy.req.kind = "replan" =>
                   n > 1 /\ p.status = "canceled" /\ p.reason = "replanned" /\ p.version = d.version

VersionGrows(g, v) ==
    \/ version'[g][v] = version[g][v]
    \/ /\ version[g][v] = NoVersion /\ ~StartedBy(version'[g][v].by)
       /\ MakerFits(g, v)'

Grows(g) ==
    /\ goal[g].status = "gone" => goal'[g].status = "gone"
    /\ goal[g].terminal # NoReceipt => goal'[g].terminal = goal[g].terminal
    /\ EndFits(g)'
    /\ \A n \in Nums : CycleGrows(g, n) /\ VersionGrows(g, n)

Erased(g) ==
    /\ goal'[g] = EmptyGoal("gone")
    /\ \A n \in Nums : cycle'[g][n] = NoCycle /\ version'[g][n] = NoVersion

LEMMA NoCycleIsCounted == Counted(NoCycle)
<1>1. \A f \in Frames : NoCycle.rev[f] = 0
  BY DEF NoCycle, NewCycle
<1>2. Edits(NoCycle) = {}
  BY <1>1 DEF Edits
<1>3. NoCycle.content = 0
  BY DEF NoCycle, NewCycle
<1>4. QED
  BY <1>2, <1>3, FS_EmptySet DEF Counted

LEMMA RequestIs ==
  ASSUME TypeOK, NEW a \in applied
  PROVE  /\ a.op \in Ops /\ a.req \in Requests /\ a.req.goal \in Goals
         /\ [op |-> a.op, req |-> a.req] # NoReceipt
BY ReceiptsDiffer DEF TypeOK, Requests, StartRequests, CompleteRequests, TerminateRequests, DeleteRequests

LEMMA EmptyReceiptsFit ==
  ASSUME NEW g \in Goals, goal[g].terminal = NoReceipt,
         \A n \in Nums : cycle[g][n] = NoCycle /\ version[g][n] = NoVersion
  PROVE  ReceiptsFit(g)
BY NoCycleIsRow, NoCycleIsCounted DEF ReceiptsFit, EndFits, BeginningFits, MakerFits, NoVersion

LEMMA InitIsRInv == Init => RInv
<1> SUFFICES ASSUME Init PROVE RInv
  OBVIOUS
<1>1. ASSUME NEW g \in Goals PROVE ReceiptsFit(g)
  BY EmptyReceiptsFit DEF Init, EmptyGoal
<1>2. QED
  BY <1>1 DEF RInv, Init

LEMMA GrowthFits ==
  ASSUME IInv, RInv, NEW g \in Goals, Grows(g)
  PROVE  ReceiptsFit(g)'
<1>1. SlotFits(g) /\ ReceiptsFit(g) /\ TypeOK
  BY DEF IInv, RInv
<1>2. ASSUME NEW n \in Nums PROVE BeginningFits(g, n)'
  <2>1. CycleGrows(g, n) /\ BeginningFits(g, n) /\ (n > 1 => n - 1 \in Nums /\ CycleGrows(g, n - 1))
    BY <1>1, LifecycleAssumption DEF Grows, ReceiptsFit, Nums
  <2>2. CASE cycle[g][n].status # "absent"
    BY <2>1, <2>2 DEF CycleGrows, BeginningFits
  <2>3. CASE cycle[g][n].status = "absent"
    BY <2>1, <2>3 DEF CycleGrows, BeginningFits
  <2>4. QED
    BY <2>2, <2>3
<1>3. ASSUME NEW v \in Nums PROVE MakerFits(g, v)'
  <2>1. CASE version'[g][v] = version[g][v]
    <3>1. SUFFICES ASSUME version[g][v].by # NoReceipt PROVE MakerFits(g, v)'
      BY <2>1 DEF MakerFits
    <3>2. PICK n \in Nums : cycle[g][n].startedBy # NoReceipt /\ cycle[g][n].startedBy.op = version[g][v].by
      BY <1>1, <3>1 DEF ReceiptsFit, MakerFits
    <3>3. cycle'[g][n].startedBy = cycle[g][n].startedBy
      BY <1>1, <3>2 DEF Grows, CycleGrows, ReceiptsFit, BeginningFits
    <3>4. QED
      BY <2>1, <3>2, <3>3 DEF MakerFits
  <2>2. CASE version'[g][v] # version[g][v]
    BY <2>2 DEF Grows, VersionGrows
  <2>3. QED
    BY <2>1, <2>2
<1>4. QED
  BY <1>2, <1>3 DEF ReceiptsFit, Grows

LEMMA GrowthRemembers ==
  ASSUME IInv, RInv, NEW a \in applied, Grows(a.req.goal), a.req.kind # "delete"
  PROVE  Remembered(a)'
<1> DEFINE g == a.req.goal
           r == [op |-> a.op, req |-> a.req]
<1>1. a.op \in Ops /\ g \in Goals /\ r # NoReceipt /\ SlotFits(g) /\ ReceiptsFit(g) /\ Remembered(a)
  BY RequestIs DEF IInv, RInv
<1>2. SUFFICES ASSUME goal'[g].status # "gone" PROVE Remembered(a)'
  BY DEF Remembered
<1>3. goal[g].status # "gone"
  BY <1>2 DEF Grows
<1>4. ASSUME a.req.kind \in {"start", "continue", "replan"}
      PROVE  /\ \E n \in Nums : cycle'[g][n].startedBy = r
             /\ VersionCreated(g, a.op)' = a.created
  <2>1. PICK n \in Nums : cycle[g][n].startedBy = r
    BY <1>1, <1>3, <1>4 DEF Remembered
  <2>2. cycle'[g][n].startedBy = r
    BY <1>1, <2>1 DEF Grows, CycleGrows, ReceiptsFit, BeginningFits
  <2>3. StartedBy(a.op)
    BY <1>1, <2>1 DEF StartedBy
  <2>4. ASSUME NEW v \in Nums PROVE version'[g][v].by = a.op <=> version[g][v].by = a.op
    <3>1. CASE version'[g][v] = version[g][v]
      BY <3>1
    <3>2. CASE version'[g][v] # version[g][v]
      <4>1. version[g][v] = NoVersion /\ ~StartedBy(version'[g][v].by)
        BY <3>2 DEF Grows, VersionGrows
      <4>2. version'[g][v].by # a.op
        BY <2>3, <4>1
      <4>3. version[g][v].by # a.op
        BY <1>1, <4>1, LifecycleAssumption DEF NoVersion
      <4>4. QED
        BY <4>2, <4>3
    <3>3. QED
      BY <3>1, <3>2
  <2>5. VersionCreated(g, a.op) = a.created
    BY <1>1, <1>3, <1>4 DEF Remembered
  <2>6. VersionCreated(g, a.op)' = VersionCreated(g, a.op)
    BY <2>4, Zenon DEF VersionCreated
  <2>7. QED
    BY <2>2, <2>5, <2>6
<1>5. ASSUME a.req.kind = "complete" PROVE \E n \in Nums : cycle'[g][n].completedBy = r
  <2>1. PICK n \in Nums : cycle[g][n].completedBy = r
    BY <1>1, <1>3, <1>5 DEF Remembered
  <2>2. cycle[g][n].status = "completed"
    BY <1>1, <2>1 DEF SlotFits, CycleFits
  <2>3. cycle'[g][n].completedBy = r
    BY <1>1, <2>1, <2>2 DEF Grows, CycleGrows
  <2>4. QED
    BY <2>3
<1>6. ASSUME a.req.kind \in {"terminate_cycle", "terminate_review"} PROVE goal'[g].terminal = r
  BY <1>1, <1>3, <1>6 DEF Remembered, Grows
<1>7. QED
  BY <1>4, <1>5, <1>6 DEF Remembered

\* The receipt of a deletion stays bound to its request.
ReceiptsStay ==
    \A op \in Ops :
        receipt[op] # NoReceipt => receipt'[op] # NoReceipt /\ receipt'[op].req = receipt[op].req

\* What a step of g leaves behind of the request it carries out, if it does.
Effect(g) ==
    \/ NotRecorded
    \/ \E op \in Ops, req \in Requests, created \in BOOLEAN :
          /\ Record(op, req, created)
          /\ Remembered([op |-> op, req |-> req, created |-> created])'

LEMMA StepRemembers ==
  ASSUME IInv, IInv', RInv, NEW g \in Goals, \A h \in Goals \ {g} : SlotStays(h),
         Grows(g) \/ Erased(g), ReceiptsStay, Effect(g)
  PROVE  RInv'
<1>1. ASSUME NEW h \in Goals \ {g} PROVE Grows(h)
  <2>1. SlotStays(h) /\ SlotFits(h) /\ ReceiptsFit(h)
    BY DEF IInv, RInv
  <2>2. EndFits(h)'
    BY <2>1 DEF SlotStays, ReceiptsFit, EndFits
  <2>3. ASSUME NEW n \in Nums PROVE CycleGrows(h, n) /\ VersionGrows(h, n)
    BY <2>1 DEF SlotStays, CycleGrows, VersionGrows, ReceiptsFit, BeginningFits
  <2>4. QED
    BY <2>1, <2>2, <2>3 DEF SlotStays, Grows
<1>2. ASSUME NEW h \in Goals PROVE ReceiptsFit(h)'
  <2>1. CASE Grows(h)
    BY <2>1, GrowthFits
  <2>2. CASE Erased(h)
    <3>1. goal'[h].terminal = NoReceipt
      BY <2>2 DEF Erased, EmptyGoal
    <3>2. QED
      BY <2>2, <3>1, NoCycleIsRow, NoCycleIsCounted
         DEF Erased, ReceiptsFit, EndFits, BeginningFits, MakerFits, NoVersion
  <2>3. QED
    BY <1>1, <2>1, <2>2
<1>3. ASSUME NEW a \in applied PROVE Remembered(a)'
  <2>1. a.op \in Ops /\ a.req.goal \in Goals /\ [op |-> a.op, req |-> a.req] # NoReceipt /\ Remembered(a)
    BY RequestIs DEF IInv, RInv
  <2>2. CASE a.req.kind = "delete"
    BY <2>1, <2>2 DEF Remembered, ReceiptsStay
  <2>3. CASE a.req.kind # "delete" /\ Grows(a.req.goal)
    BY <2>3, GrowthRemembers
  <2>4. CASE a.req.kind # "delete" /\ Erased(a.req.goal)
    BY <2>4 DEF Erased, EmptyGoal, Remembered
  <2>5. QED
    BY <1>1, <2>1, <2>2, <2>3, <2>4
<1>4. \A a \in applied' : Remembered(a)'
  <2>1. CASE NotRecorded
    BY <1>3, <2>1 DEF NotRecorded
  <2>2. CASE ~NotRecorded
    BY <1>3, <2>2 DEF Effect, Record
  <2>3. QED
    BY <2>1, <2>2
<1>5. QED
  BY <1>2, <1>4 DEF RInv

\* An edit of one frame is one edit more.
LEMMA OneEditMore ==
  ASSUME NEW c \in CycleRow, NEW d \in CycleRow, NEW f \in Frames,
         d.rev = [c.rev EXCEPT ![f] = c.rev[f] + 1], d.content = c.content + 1, Counted(c)
  PROVE  Counted(d)
<1>1. c.rev \in [Frames -> Nat] /\ c.content \in Nat
  BY DEF CycleRow
<1> DEFINE new == <<f, c.rev[f] + 1>>
<1>2. Edits(d) = Edits(c) \cup {new}
  <2>1. ASSUME NEW e PROVE e \in Edits(d) <=> e \in Edits(c) \/ e = new
    <3>1. e \in Edits(d) <=> \E h \in Frames : \E k \in 1..d.rev[h] : e = <<h, k>>
      BY DEF Edits
    <3>2. e \in Edits(c) <=> \E h \in Frames : \E k \in 1..c.rev[h] : e = <<h, k>>
      BY DEF Edits
    <3>3. ASSUME NEW h \in Frames, NEW k
          PROVE  k \in 1..d.rev[h] <=> k \in 1..c.rev[h] \/ (h = f /\ k = c.rev[f] + 1)
      BY <1>1
    <3>4. QED
      BY <3>1, <3>2, <3>3
  <2>2. QED
    BY <2>1
<1>3. new \notin Edits(c)
  BY <1>1 DEF Edits
<1>4. IsFiniteSet(Edits(d)) /\ Cardinality(Edits(d)) = Cardinality(Edits(c)) + 1
  BY <1>2, <1>3, FS_AddElement DEF Counted
<1>5. QED
  BY <1>4 DEF Counted

\* A write of the open cycle that keeps who began it.
LEMMA OpenCycleGrows ==
  ASSUME IInv, RInv, NEW g \in Goals, NEW n \in Nums, NEW d, CycleOpen(g, n),
         cycle' = [cycle EXCEPT ![g][n] = d], Counted(d), d.status # "absent",
         d.startedBy = cycle[g][n].startedBy, d.version = cycle[g][n].version,
         version' = version
  PROVE  \A m \in Nums : CycleGrows(g, m) /\ VersionGrows(g, m)
<1>1. SlotFits(g) /\ ReceiptsFit(g) /\ cycle[g][n].status = "active" /\ cycle[g][n].completedBy = NoReceipt
  BY OpenCycleIs DEF IInv, RInv, CycleOpen
<1>2. cycle'[g][n] = d /\ \A m \in Nums \ {n} : cycle'[g][m] = cycle[g][m]
  BY DEF IInv, TypeOK
<1>3. ASSUME NEW m \in Nums PROVE CycleGrows(g, m)
  <2>1. Counted(cycle[g][m])
    BY <1>1 DEF ReceiptsFit, BeginningFits
  <2>2. CASE m = n
    BY <1>1, <1>2, <2>2 DEF CycleGrows
  <2>3. CASE m # n
    BY <1>2, <2>1, <2>3 DEF CycleGrows
  <2>4. QED
    BY <2>2, <2>3
<1>4. QED
  BY <1>3 DEF VersionGrows

\* A goal that is not over after a step ends with no receipt.
LEMMA GoesOn ==
  ASSUME IInv, NEW g \in Goals, goal[g].status \notin {"achieved", "ended"},
         goal'[g].terminal = goal[g].terminal
  PROVE  goal[g].terminal = NoReceipt /\ EndFits(g)'
<1>1. goal[g].terminal = NoReceipt
  BY DEF IInv, SlotFits, Drafts
<1>2. QED
  BY <1>1 DEF EndFits

\* What StepRemembers asks of a step of g.
Lasts(g) ==
    /\ Grows(g) \/ Erased(g)
    /\ ReceiptsStay
    /\ Effect(g)

LEMMA RowsUntouchedLast ==
  ASSUME IInv, RInv, NEW g \in Goals, UNCHANGED <<version, cycle, receipt>>, NotRecorded,
         goal'[g] = goal[g] \/ (goal'[g] = EmptyGoal("gone") /\ goal[g].terminal = NoReceipt)
  PROVE  Lasts(g)
<1>1. ReceiptsFit(g)
  BY DEF RInv
<1>2. EndFits(g)'
  <2>1. CASE goal'[g] = goal[g]
    BY <1>1, <2>1 DEF ReceiptsFit, EndFits
  <2>2. CASE goal'[g] = EmptyGoal("gone")
    BY <2>2 DEF EndFits, EmptyGoal
  <2>3. QED
    BY <2>1, <2>2
<1>3. \A n \in Nums : CycleGrows(g, n) /\ VersionGrows(g, n)
  BY <1>1 DEF CycleGrows, VersionGrows, ReceiptsFit, BeginningFits
<1>4. Grows(g)
  BY <1>2, <1>3 DEF Grows, EmptyGoal
<1>5. QED
  BY <1>4 DEF Lasts, Effect, ReceiptsStay

LEMMA DraftStepLasts ==
  ASSUME IInv, RInv, NEW g \in Goals, DraftStep(g)
  PROVE  Lasts(g)
<1>1. CASE AbandonDraft(g)
  <2>1. goal[g].terminal = NoReceipt
    BY <1>1 DEF AbandonDraft, IInv, SlotFits, Drafts
  <2>2. goal'[g] = EmptyGoal("gone")
    BY <1>1 DEF AbandonDraft, IInv, TypeOK
  <2>3. QED
    BY <1>1, <2>1, <2>2, RowsUntouchedLast DEF AbandonDraft
<1>2. CASE ~AbandonDraft(g)
  <2>1. UNCHANGED <<goal, version, cycle, receipt>> /\ NotRecorded
    BY <1>2 DEF DraftStep, CreateDraft, SaveDraft, SaveReview, EditDraft
  <2>2. QED
    BY <2>1, RowsUntouchedLast
<1>3. QED
  BY <1>1, <1>2

LEMMA EditLasts ==
  ASSUME IInv, RInv, NEW g \in Goals, NEW n \in Nums, NEW d \in CycleRow, CycleOpen(g, n),
         cycle' = [cycle EXCEPT ![g][n] = d], Counted(d), d.status = "active",
         d.startedBy = cycle[g][n].startedBy, d.version = cycle[g][n].version,
         UNCHANGED <<goal, version, receipt>>, NotRecorded
  PROVE  Lasts(g)
<1>1. \A m \in Nums : CycleGrows(g, m) /\ VersionGrows(g, m)
  BY OpenCycleGrows
<1>2. EndFits(g)'
  BY GoesOn DEF CycleOpen
<1>3. Grows(g)
  BY <1>1, <1>2 DEF Grows
<1>4. QED
  BY <1>3 DEF Lasts, Effect, ReceiptsStay

LEMMA SaveFrameLasts ==
  ASSUME IInv, RInv, NEW g \in Goals, NEW n \in Nums, NEW f \in Frames, NEW text \in Texts,
         NEW fr \in Revisions, SaveFrame(g, n, f, text, fr)
  PROVE  Lasts(g)
<1> DEFINE c == cycle[g][n]
           d == [c EXCEPT !.text = [c.text EXCEPT ![f] = text], !.rev = [c.rev EXCEPT ![f] = fr + 1],
                          !.content = c.content + 1, !.scheduled = c.scheduled,
                          !.scheduleRev = c.scheduleRev]
<1>1. /\ c \in CycleRow /\ cycle \in [Goals -> [Nums -> CycleRow]] /\ fr \in Nat /\ c.rev[f] = fr
      /\ Counted(c)
  BY DEF IInv, TypeOK, Revisions, SaveFrame, RInv, ReceiptsFit, BeginningFits
<1>2. /\ [c.text EXCEPT ![f] = text] \in [Frames -> Texts] /\ [c.rev EXCEPT ![f] = fr + 1] \in [Frames -> Nat]
      /\ c.content + 1 \in Nat /\ c.scheduled \in BOOLEAN /\ c.scheduleRev \in Nat
  BY <1>1 DEF CycleRow
<1>3. /\ d \in CycleRow /\ d.status = c.status /\ d.version = c.version /\ d.startedBy = c.startedBy
      /\ d.rev = [c.rev EXCEPT ![f] = c.rev[f] + 1] /\ d.content = c.content + 1
  BY <1>1, <1>2 DEF CycleRow
<1> DEFINE u == [c EXCEPT !.text = [c.text EXCEPT ![f] = text], !.rev = [c.rev EXCEPT ![f] = fr + 1],
                          !.content = c.content + 1]
<1>4. cycle' = [cycle EXCEPT ![g][n] = d]
  <2>1. cycle' = [cycle EXCEPT ![g] = [cycle[g] EXCEPT ![n] = u]]
    BY <1>1 DEF SaveFrame, CycleRow
  <2>2. u = d
    BY <1>1 DEF CycleRow
  <2>3. QED
    BY <2>1, <2>2
<1> HIDE DEF d
<1>5. Counted(d)
  BY <1>1, <1>3, OneEditMore
<1>6. CycleOpen(g, n) /\ c.status = "active" /\ UNCHANGED <<goal, version, receipt>> /\ NotRecorded
  BY DEF SaveFrame, CycleOpen
<1>7. QED
  BY <1>3, <1>4, <1>5, <1>6, EditLasts

LEMMA ChangeReviewScheduleLasts ==
  ASSUME IInv, RInv, NEW g \in Goals, NEW n \in Nums, NEW scheduled \in BOOLEAN, NEW sr \in Revisions,
         ChangeReviewSchedule(g, n, scheduled, sr)
  PROVE  Lasts(g)
<1> DEFINE c == cycle[g][n]
           d == [c EXCEPT !.text = c.text, !.rev = c.rev, !.content = c.content,
                          !.scheduled = scheduled, !.scheduleRev = sr + 1]
<1>1. c \in CycleRow /\ cycle \in [Goals -> [Nums -> CycleRow]] /\ sr + 1 \in Nat /\ Counted(c)
  BY DEF IInv, TypeOK, Revisions, RInv, ReceiptsFit, BeginningFits
<1>2. c.text \in [Frames -> Texts] /\ c.rev \in [Frames -> Nat] /\ c.content \in Nat
  BY <1>1 DEF CycleRow
<1>3. /\ d \in CycleRow /\ d.status = c.status /\ d.version = c.version /\ d.startedBy = c.startedBy
      /\ d.rev = c.rev /\ d.content = c.content
  BY <1>1, <1>2 DEF CycleRow
<1>4. cycle' = [cycle EXCEPT ![g][n] = d]
  BY <1>1 DEF ChangeReviewSchedule, CycleRow
<1> HIDE DEF d
<1>5. Counted(d)
  BY <1>1, <1>3 DEF Counted, Edits
<1>6. CycleOpen(g, n) /\ c.status = "active" /\ UNCHANGED <<goal, version, receipt>> /\ NotRecorded
  BY DEF ChangeReviewSchedule, CycleOpen
<1>7. QED
  BY <1>3, <1>4, <1>5, <1>6, EditLasts

LEMMA ApplyActionAILasts ==
  ASSUME IInv, RInv, NEW g \in Goals, NEW text \in Texts, ApplyActionAI(g, text)
  PROVE  Lasts(g)
<1> DEFINE n == running[g].cycle
           c == cycle[g][n]
           d == [c EXCEPT !.text = [c.text EXCEPT ![ActionFrame] = text],
                          !.rev = [c.rev EXCEPT ![ActionFrame] = c.rev[ActionFrame] + 1],
                          !.content = c.content + 1, !.scheduled = c.scheduled,
                          !.scheduleRev = c.scheduleRev]
<1>1. n \in Nums
  BY DEF ApplyActionAI, IInv, TypeOK, Targets
<1>2. c \in CycleRow /\ cycle \in [Goals -> [Nums -> CycleRow]] /\ ActionFrame \in Frames /\ Counted(c)
  BY <1>1, LifecycleAssumption DEF IInv, TypeOK, RInv, ReceiptsFit, BeginningFits
<1>3. /\ [c.text EXCEPT ![ActionFrame] = text] \in [Frames -> Texts]
      /\ [c.rev EXCEPT ![ActionFrame] = c.rev[ActionFrame] + 1] \in [Frames -> Nat]
      /\ c.content + 1 \in Nat /\ c.scheduled \in BOOLEAN /\ c.scheduleRev \in Nat
  BY <1>2 DEF CycleRow
<1>4. /\ d \in CycleRow /\ d.status = c.status /\ d.version = c.version /\ d.startedBy = c.startedBy
      /\ d.rev = [c.rev EXCEPT ![ActionFrame] = c.rev[ActionFrame] + 1] /\ d.content = c.content + 1
  BY <1>2, <1>3, ZenonT(40) DEF CycleRow
<1>5. cycle' = [cycle EXCEPT ![g][n] = d]
  BY <1>2 DEF ApplyActionAI, ApplyAIAction, CycleRow
<1> HIDE DEF d
<1>6. Counted(d)
  BY <1>2, <1>4, OneEditMore
<1>7. CycleOpen(g, n) /\ c.status = "active" /\ UNCHANGED <<goal, version, receipt>> /\ NotRecorded
  BY DEF ApplyActionAI, CycleOpen
<1>8. QED
  BY <1>1, <1>4, <1>5, <1>6, <1>7, EditLasts

LEMMA AIStepLasts ==
  ASSUME IInv, RInv, NEW g \in Goals, AIStep(g)
  PROVE  Lasts(g)
<1>1. CASE \E text \in Texts : ApplyActionAI(g, text)
  BY <1>1, ApplyActionAILasts
<1>2. CASE ~\E text \in Texts : ApplyActionAI(g, text)
  <2>1. UNCHANGED <<goal, version, cycle, receipt>> /\ NotRecorded
    BY <1>2 DEF AIStep, BeginActionAI, BeginGoalRefine, EndAI
  <2>2. QED
    BY <2>1, RowsUntouchedLast
<1>3. QED
  BY <1>1, <1>2

LEMMA NewCycleIsCounted ==
  ASSUME NEW v, NEW op, NEW req
  PROVE  /\ Counted(NewCycle(v, op, req)) /\ NewCycle(v, op, req).status = "active"
         /\ NewCycle(v, op, req).version = v
         /\ NewCycle(v, op, req).startedBy = [op |-> op, req |-> req]
<1>1. \A f \in Frames : NewCycle(v, op, req).rev[f] = 0
  BY DEF NewCycle
<1>2. Edits(NewCycle(v, op, req)) = {}
  BY <1>1 DEF Edits
<1>3. NewCycle(v, op, req).content = 0
  BY DEF NewCycle
<1>4. QED
  BY <1>2, <1>3, FS_EmptySet DEF Counted, NewCycle

\* Cycle n of g is begun, in place of the open one if the request is to replan.
BeginsCycle(g, n, v, op, req) ==
    /\ cycle[g][n].status = "absent" /\ cycle'[g][n] = NewCycle(v, op, req)
    /\ \A m \in Nums \ {n} :
          \/ cycle'[g][m] = cycle[g][m]
          \/ CycleOpen(g, m) /\ cycle'[g][m] = Cancel(cycle[g][m], "replanned")
    /\ req.kind = "replan" =>
          /\ n > 1 /\ cycle'[g][n - 1].version = v
          /\ cycle'[g][n - 1].status = "canceled" /\ cycle'[g][n - 1].reason = "replanned"

\* op makes a version of g if created says so, and changes no other.
MakesVersion(g, op, created) ==
    /\ created =>
          \E k \in Nums : /\ version[g][k] = NoVersion /\ version'[g][k].by = op
                         /\ \A m \in Nums \ {k} : version'[g][m] = version[g][m]
    /\ ~created => \A m \in Nums : version'[g][m] = version[g][m]

\* A transaction that begins a cycle under an operation that began none.
LEMMA BeginLasts ==
  ASSUME IInv, RInv, NEW g \in Goals, NEW n \in Nums, NEW op \in Ops, NEW req \in StartRequests,
         NEW created \in BOOLEAN, NEW v, Record(op, req, created), req.goal = g, ~StartedBy(op),
         BeginsCycle(g, n, v, op, req), MakesVersion(g, op, created),
         goal[g].status \notin {"achieved", "ended", "gone"},
         goal'[g].terminal = goal[g].terminal, receipt' = receipt
  PROVE  Lasts(g)
<1> DEFINE r == [op |-> op, req |-> req]
           new == NewCycle(v, op, req)
<1>1. SlotFits(g) /\ ReceiptsFit(g) /\ TypeOK
  BY DEF IInv, RInv
<1>2. r # NoReceipt
  BY ReceiptsDiffer DEF Requests
<1> USE DEF BeginsCycle, MakesVersion
<1>3. Counted(new) /\ new.status = "active" /\ new.version = v /\ new.startedBy = r
  BY NewCycleIsCounted
<1> HIDE DEF new
<1>4. ASSUME NEW m \in Nums PROVE CycleGrows(g, m)
  <2>1. CASE m = n
    BY <1>2, <1>3, <2>1 DEF CycleGrows, new
  <2>2. CASE m # n /\ cycle'[g][m] = cycle[g][m]
    BY <1>1, <2>2 DEF CycleGrows, ReceiptsFit, BeginningFits
  <2>3. CASE CycleOpen(g, m) /\ cycle'[g][m] = Cancel(cycle[g][m], "replanned")
    <3>1. cycle[g][m] \in CycleRow /\ cycle[g][m].status = "active" /\ Counted(cycle[g][m])
      BY <1>1, <2>3 DEF TypeOK, CycleOpen, ReceiptsFit, BeginningFits
    <3>2. /\ cycle'[g][m].status = "canceled" /\ cycle'[g][m].startedBy = cycle[g][m].startedBy
          /\ cycle'[g][m].version = cycle[g][m].version
          /\ cycle'[g][m].completedBy = cycle[g][m].completedBy
          /\ cycle'[g][m].rev = cycle[g][m].rev /\ cycle'[g][m].content = cycle[g][m].content
      BY <2>3, <3>1 DEF Cancel, CycleRow
    <3>3. Counted(cycle'[g][m])
      BY <3>1, <3>2 DEF Counted, Edits
    <3>4. QED
      BY <3>1, <3>2, <3>3 DEF CycleGrows
  <2>4. QED
    BY <2>1, <2>2, <2>3
<1>5. cycle'[g][n].startedBy # NoReceipt /\ cycle'[g][n].startedBy.op = op
  BY <1>2, <1>3 DEF new
<1>6. ASSUME NEW m \in Nums PROVE VersionGrows(g, m)
  <2>1. CASE version'[g][m] = version[g][m]
    BY <2>1 DEF VersionGrows
  <2>2. CASE version'[g][m] # version[g][m]
    <3>1. version[g][m] = NoVersion /\ version'[g][m].by = op
      BY <2>2
    <3>2. MakerFits(g, m)'
      BY <1>5, <3>1 DEF MakerFits
    <3>3. QED
      BY <3>1, <3>2 DEF VersionGrows
  <2>3. QED
    BY <2>1, <2>2
<1>7. Grows(g)
  BY <1>4, <1>6, GoesOn DEF Grows
<1>8. VersionCreated(g, op)' = created
  <2>1. CASE created
    BY <2>1, Zenon DEF VersionCreated
  <2>2. CASE ~created
    <3>1. op # NoReceipt
      BY LifecycleAssumption
    <3>2. ASSUME NEW m \in Nums PROVE version'[g][m].by # op
      <4>1. version'[g][m] = version[g][m] /\ MakerFits(g, m)
        BY <1>1, <2>2 DEF ReceiptsFit
      <4>2. QED
        BY <3>1, <4>1 DEF MakerFits, StartedBy
    <3>3. VersionCreated(g, op)' = FALSE
      BY <3>2, Zenon DEF VersionCreated
    <3>4. created = FALSE
      BY <2>2
    <3>5. QED
      BY <3>3, <3>4
  <2>3. QED
    BY <2>1, <2>2
<1>9. Remembered([op |-> op, req |-> req, created |-> created])'
  <2>1. req.kind \in {"start", "continue", "replan"}
    BY DEF StartRequests
  <2>2. cycle'[g][n].startedBy = r
    BY <1>3 DEF new
  <2>3. QED
    BY <1>8, <2>1, <2>2 DEF Remembered
<1>10. Effect(g)
  <2>1. req \in Requests
    BY DEF Requests
  <2>2. QED
    BY <1>9, <2>1 DEF Effect
<1>11. QED
  BY <1>7, <1>10 DEF Lasts, ReceiptsStay

LEMMA StartLasts ==
  ASSUME IInv, RInv, NEW g \in Goals, NEW op \in Ops, NEW dr \in Revisions, StartGoal(g, op, dr)
  PROVE  Lasts(g)
<1> DEFINE req == StartReq(g, dr)
<1>1. TypeOK /\ SlotFits(g)
  BY DEF IInv
<1>2. goal[g] = EmptyGoal("none")
  BY <1>1 DEF StartGoal, SlotFits, Drafts, GoalFits
<1>3. 1 \in Nums /\ req \in StartRequests /\ req.goal = g /\ req.kind = "start"
  BY LifecycleAssumption DEF Nums, StartReq, StartRequests, Revisions
<1>4. cycle[g][1].status = "absent" /\ version[g][1] = NoVersion
  BY <1>1, <1>2, <1>3 DEF SlotFits, Dense, EmptyGoal
<1>5. /\ cycle'[g][1] = NewCycle(1, op, req) /\ version'[g][1].by = op
      /\ \A m \in Nums \ {1} : cycle'[g][m] = cycle[g][m] /\ version'[g][m] = version[g][m]
      /\ goal'[g].terminal = NoReceipt
  BY <1>1, <1>3 DEF StartGoal, TypeOK, EmptyGoal
<1>6. goal[g].terminal = NoReceipt /\ goal[g].status = "none"
  BY <1>2 DEF EmptyGoal
<1>7. ~StartedBy(op) /\ Record(op, req, TRUE) /\ receipt' = receipt
  BY DEF StartGoal
<1> HIDE DEF req
<1>8. BeginsCycle(g, 1, 1, op, req) /\ MakesVersion(g, op, TRUE)
  BY <1>3, <1>4, <1>5 DEF BeginsCycle, MakesVersion
<1>9. QED
  BY <1>3, <1>5, <1>6, <1>7, <1>8, BeginLasts

LEMMA ContinueLasts ==
  ASSUME IInv, RInv, NEW g \in Goals, NEW op \in Ops, NEW gr \in GoalRevisions, NEW dr \in Revisions,
         ContinueReview(g, op, gr, dr)
  PROVE  Lasts(g)
<1> DEFINE req == ContinueReq(g, gr, dr)
           n == goal[g].next
           v == goal[g].version + (IF DraftDiffers(g) THEN 1 ELSE 0)
<1>1. TypeOK /\ SlotFits(g) /\ goal[g].status = "goal_review" /\ n <= MaxCycles
  BY DEF IInv, ContinueReview, ContinueFrom
<1>2. /\ n \in Nums /\ goal[g].version \in Nums /\ goal[g].version + 1 \in Nums
      /\ goal[g].version < goal[g].next
  BY <1>1, CurrentContentIs, LifecycleAssumption DEF Nums, SlotFits, GoalFits
<1>3. cycle[g][n].status = "absent" /\ version[g][goal[g].version + 1] = NoVersion
  BY <1>1, <1>2 DEF SlotFits, Dense, Nums
<1>4. req \in StartRequests /\ req.goal = g /\ req.kind = "continue"
  BY DEF ContinueReq, StartRequests, Revisions, GoalRevisions
<1>5. ~StartedBy(op) /\ Record(op, req, DraftDiffers(g)) /\ receipt' = receipt /\ DraftDiffers(g) \in BOOLEAN
  BY Zenon DEF ContinueReview, ContinueFrom, DraftDiffers
<1>6. /\ cycle'[g][n] = NewCycle(v, op, req) /\ \A m \in Nums \ {n} : cycle'[g][m] = cycle[g][m]
      /\ goal'[g].terminal = goal[g].terminal
  BY <1>1, <1>2 DEF ContinueReview, ContinueFrom, TypeOK, GoalRow
<1> HIDE DEF req, v
<1>7. MakesVersion(g, op, DraftDiffers(g))
  <2>1. CASE DraftDiffers(g)
    <3>1. /\ version'[g][goal[g].version + 1].by = op
          /\ \A m \in Nums \ {goal[g].version + 1} : version'[g][m] = version[g][m]
      BY <1>1, <1>2, <2>1 DEF ContinueReview, ContinueFrom, NewVersion, TypeOK
    <3>2. QED
      BY <1>2, <1>3, <2>1, <3>1 DEF MakesVersion
  <2>2. CASE ~DraftDiffers(g)
    BY <2>2 DEF ContinueReview, ContinueFrom, MakesVersion
  <2>3. QED
    BY <2>1, <2>2
<1>8. BeginsCycle(g, n, v, op, req)
  BY <1>3, <1>4, <1>6 DEF BeginsCycle
<1>9. QED
  BY <1>1, <1>2, <1>4, <1>5, <1>6, <1>7, <1>8, BeginLasts

LEMMA ReplanLasts ==
  ASSUME IInv, RInv, NEW g \in Goals, NEW op \in Ops, NEW n \in Nums, NEW gr \in GoalRevisions,
         NEW cr \in Revisions, NEW sr \in Revisions, ReplanCycle(g, op, n, gr, cr, sr)
  PROVE  Lasts(g)
<1> DEFINE req == ReplanReq(g, n, gr, cr, sr)
<1>1. TypeOK /\ SlotFits(g) /\ CycleOpen(g, n) /\ goal[g].status = "active_cycle" /\ n < MaxCycles
  BY DEF IInv, ReplanCycle, CycleOpen
<1>2. /\ n = goal[g].next - 1 /\ cycle[g][n] \in CycleRow /\ cycle[g][n].version = goal[g].version
      /\ goal[g] \in GoalRow /\ goal[g].next \in 1..MaxCycles + 1
  BY <1>1, OpenCycleIs, CurrentContentIs
<1>3. n + 1 \in Nums /\ n + 1 # n /\ n + 1 - 1 = n /\ n + 1 > 1
  BY <1>1, LifecycleAssumption DEF Nums
<1>4. cycle[g][n + 1].status = "absent"
  BY <1>1, <1>2, <1>3 DEF SlotFits, Dense, Nums
<1>5. req \in StartRequests /\ req.goal = g /\ req.kind = "replan"
  BY DEF ReplanReq, StartRequests, Revisions, GoalRevisions
<1>6. ~StartedBy(op) /\ Record(op, req, FALSE) /\ receipt' = receipt /\ version' = version
  BY DEF ReplanCycle
<1>7. /\ cycle'[g][n + 1] = NewCycle(goal[g].version, op, req)
      /\ cycle'[g][n] = Cancel(cycle[g][n], "replanned")
      /\ \A m \in Nums \ {n, n + 1} : cycle'[g][m] = cycle[g][m]
      /\ goal'[g].terminal = goal[g].terminal
  BY <1>1, <1>2, <1>3 DEF ReplanCycle, Replan, TypeOK, GoalRow
<1>8. /\ cycle'[g][n].version = goal[g].version /\ cycle'[g][n].status = "canceled"
      /\ cycle'[g][n].reason = "replanned"
  BY <1>2, <1>7 DEF Cancel, CycleRow
<1> HIDE DEF req
<1>9. PICK k \in Nums : k = n + 1
  BY <1>3
<1>10. BeginsCycle(g, k, goal[g].version, op, req)
  <2>1. ASSUME NEW m \in Nums \ {k}
        PROVE  \/ cycle'[g][m] = cycle[g][m]
               \/ CycleOpen(g, m) /\ cycle'[g][m] = Cancel(cycle[g][m], "replanned")
    BY <1>1, <1>7, <1>9, <2>1
  <2>2. k > 1 /\ k - 1 = n
    BY <1>3, <1>9
  <2>3. cycle[g][k].status = "absent" /\ cycle'[g][k] = NewCycle(goal[g].version, op, req)
    BY <1>4, <1>7, <1>9
  <2>4. QED
    BY <1>8, <2>1, <2>2, <2>3 DEF BeginsCycle
<1>11. MakesVersion(g, op, FALSE)
  BY <1>6 DEF MakesVersion
<1>12. QED
  BY <1>1, <1>5, <1>6, <1>7, <1>10, <1>11, BeginLasts

LEMMA CompleteLasts ==
  ASSUME IInv, RInv, NEW g \in Goals, NEW op \in Ops, NEW n \in Nums, NEW gr \in GoalRevisions,
         NEW cr \in Revisions, CompleteCycle(g, op, n, gr, cr)
  PROVE  Lasts(g)
<1> DEFINE req == CompleteReq(g, n, gr, cr)
           c == cycle[g][n]
           d == [c EXCEPT !.status = "completed", !.completedBy = [op |-> op, req |-> req]]
<1>1. TypeOK /\ CycleOpen(g, n) /\ goal[g].status = "active_cycle"
  BY DEF IInv, CompleteCycle, CycleOpen
<1>2. c \in CycleRow /\ goal[g] \in GoalRow /\ Counted(c)
  BY <1>1 DEF TypeOK, RInv, ReceiptsFit, BeginningFits
<1>3. /\ cycle' = [cycle EXCEPT ![g][n] = d] /\ goal'[g].terminal = goal[g].terminal
      /\ goal'[g].status = "goal_review"
      /\ version' = version /\ receipt' = receipt /\ Record(op, req, FALSE)
  BY <1>1, <1>2 DEF CompleteCycle, TypeOK, GoalRow
<1>4. req \in Requests /\ req.goal = g /\ req.kind = "complete"
  BY DEF CompleteReq, CompleteRequests, Revisions, GoalRevisions, Requests
<1> HIDE DEF req
<1>5. /\ d.status = "completed" /\ d.startedBy = c.startedBy /\ d.version = c.version
      /\ d.completedBy = [op |-> op, req |-> req] /\ d.rev = c.rev /\ d.content = c.content
  BY <1>2 DEF CycleRow
<1> HIDE DEF d
<1>6. Counted(d)
  BY <1>2, <1>5 DEF Counted, Edits
<1>7. \A m \in Nums : CycleGrows(g, m) /\ VersionGrows(g, m)
  BY <1>1, <1>3, <1>5, <1>6, OpenCycleGrows
<1>8. Grows(g)
  BY <1>1, <1>3, <1>7, GoesOn DEF Grows
<1>9. Remembered([op |-> op, req |-> req, created |-> FALSE])'
  <2>1. cycle'[g][n].completedBy = [op |-> op, req |-> req]
    BY <1>1, <1>3, <1>5 DEF TypeOK
  <2>2. QED
    BY <1>4, <2>1 DEF Remembered
<1>10. QED
  BY <1>3, <1>4, <1>8, <1>9 DEF Lasts, Effect, ReceiptsStay

LEMMA TerminateActiveCycleLasts ==
  ASSUME IInv, RInv, NEW g \in Goals, NEW op \in Ops, NEW n \in Nums, NEW gr \in GoalRevisions,
         NEW cr \in Revisions, NEW outcome \in Outcomes, TerminateActiveCycle(g, op, outcome, n, gr, cr)
  PROVE  Lasts(g)
<1> DEFINE req == TerminateCycleReq(g, outcome, n, gr, cr)
           r == [op |-> op, req |-> req]
           c == cycle[g][n]
           d == Cancel(c, Reason(outcome))
<1>1. /\ TypeOK /\ CycleOpen(g, n) /\ goal[g].status = "active_cycle" /\ goal[g].revision = gr
      /\ goal[g].terminal = NoReceipt
  BY DEF IInv, TerminateActiveCycle, CycleOpen, SlotFits, Drafts
<1>2. c \in CycleRow /\ goal[g] \in GoalRow /\ Counted(c)
  BY <1>1 DEF TypeOK, RInv, ReceiptsFit, BeginningFits
<1>3. /\ cycle' = [cycle EXCEPT ![g][n] = d] /\ goal'[g] = Terminate(goal[g], outcome, r)
      /\ version' = version /\ receipt' = receipt /\ Record(op, req, FALSE)
  BY <1>1 DEF TerminateActiveCycle, TypeOK
<1>4. /\ req \in Requests /\ req.goal = g /\ req.kind = "terminate_cycle" /\ req.goalRev = gr
      /\ req.cycle = n /\ req.outcome = outcome
  BY DEF TerminateCycleReq, TerminateRequests, Revisions, GoalRevisions, Requests
<1> HIDE DEF req
<1>5. /\ d.status = "canceled" /\ d.startedBy = c.startedBy /\ d.version = c.version
      /\ d.reason = Reason(outcome) /\ d.rev = c.rev /\ d.content = c.content
  BY <1>2 DEF CycleRow, Cancel
<1>6. goal'[g].terminal = r /\ goal'[g].status = outcome /\ goal'[g].revision = gr + 1
  BY <1>1, <1>2, <1>3 DEF Terminate, GoalRow
<1> HIDE DEF d
<1>7. Counted(d)
  BY <1>2, <1>5 DEF Counted, Edits
<1>8. \A m \in Nums : CycleGrows(g, m) /\ VersionGrows(g, m)
  BY <1>1, <1>3, <1>5, <1>7, OpenCycleGrows
<1>9. EndFits(g)'
  <2>1. cycle'[g][n] = d
    BY <1>1, <1>3 DEF TypeOK
  <2>2. Reason(outcome)' = Reason(outcome)
    OBVIOUS
  <2>3. QED
    BY <1>4, <1>5, <1>6, <2>1 DEF EndFits
<1>10. Grows(g)
  BY <1>1, <1>8, <1>9 DEF Grows
<1>11. Remembered([op |-> op, req |-> req, created |-> FALSE])'
  BY <1>4, <1>6 DEF Remembered
<1>12. QED
  BY <1>3, <1>4, <1>10, <1>11 DEF Lasts, Effect, ReceiptsStay

LEMMA TerminateGoalReviewLasts ==
  ASSUME IInv, RInv, NEW g \in Goals, NEW op \in Ops, NEW gr \in GoalRevisions,
         NEW outcome \in Outcomes, NEW discard \in BOOLEAN,
         TerminateGoalReview(g, op, outcome, gr, discard)
  PROVE  Lasts(g)
<1> DEFINE req == TerminateReviewReq(g, outcome, gr, discard)
           r == [op |-> op, req |-> req]
<1>1. /\ TypeOK /\ goal[g].status = "goal_review" /\ goal[g].revision = gr
      /\ goal[g].terminal = NoReceipt /\ goal[g] \in GoalRow
  BY DEF IInv, TypeOK, TerminateGoalReview, SlotFits, Drafts
<1>2. /\ goal'[g] = Terminate(goal[g], outcome, r) /\ cycle' = cycle
      /\ version' = version /\ receipt' = receipt /\ Record(op, req, FALSE)
  BY <1>1 DEF TerminateGoalReview, TypeOK
<1>3. /\ req \in Requests /\ req.goal = g /\ req.kind = "terminate_review" /\ req.goalRev = gr
      /\ req.outcome = outcome
  BY DEF TerminateReviewReq, TerminateRequests, Revisions, GoalRevisions, Requests
<1> HIDE DEF req
<1>4. goal'[g].terminal = r /\ goal'[g].status = outcome /\ goal'[g].revision = gr + 1
  BY <1>1, <1>2 DEF Terminate, GoalRow
<1>5. EndFits(g)'
  BY <1>3, <1>4 DEF EndFits
<1>6. \A m \in Nums : CycleGrows(g, m) /\ VersionGrows(g, m)
  BY <1>2 DEF RInv, ReceiptsFit, BeginningFits, CycleGrows, VersionGrows
<1>7. Grows(g)
  BY <1>1, <1>5, <1>6 DEF Grows
<1>8. Remembered([op |-> op, req |-> req, created |-> FALSE])'
  BY <1>3, <1>4 DEF Remembered
<1>9. QED
  BY <1>2, <1>3, <1>7, <1>8 DEF Lasts, Effect, ReceiptsStay

LEMMA DeleteLasts ==
  ASSUME IInv, RInv, NEW g \in Goals, NEW op \in Ops, NEW gr \in GoalRevisions, DeleteGoal(g, op, gr)
  PROVE  Lasts(g)
<1> DEFINE req == DeleteReq(g, gr)
<1>1. req \in Requests /\ req \in DeleteRequests /\ req.kind = "delete"
  BY DEF DeleteReq, DeleteRequests, GoalRevisions, Requests
<1>2. /\ receipt' = [receipt EXCEPT ![op] = [req |-> req, fresh |-> TRUE]]
      /\ receipt[op] # NoReceipt => receipt[op].req = req
      /\ receipt \in [Ops -> DeleteReceipts] /\ Record(op, req, FALSE)
  BY DEF DeleteGoal, Unanswered, IInv, TypeOK
<1>3. Erased(g)
  BY DEF DeleteGoal, IInv, TypeOK, Erased
<1> HIDE DEF req
<1>4. receipt'[op] # NoReceipt /\ receipt'[op].req = req
  <2>1. receipt'[op] \in [req: DeleteRequests, fresh: BOOLEAN] /\ receipt'[op].req = req
    BY <1>1, <1>2
  <2>2. QED
    BY <2>1, LifecycleAssumption
<1>5. ReceiptsStay
  BY <1>2, <1>4 DEF ReceiptsStay
<1>6. Remembered([op |-> op, req |-> req, created |-> FALSE])'
  BY <1>1, <1>4 DEF Remembered
<1>7. Effect(g)
  BY <1>1, <1>2, <1>6 DEF Effect
<1>8. QED
  BY <1>3, <1>5, <1>7 DEF Lasts

LEMMA NextKeepsRInv == IInv /\ IInv' /\ RInv /\ [Next]_vars => RInv'
<1> SUFFICES ASSUME IInv, IInv', RInv, [Next]_vars PROVE RInv'
  OBVIOUS
<1>1. CASE UNCHANGED vars
  <2>0. /\ goal' = goal /\ version' = version /\ cycle' = cycle /\ receipt' = receipt
        /\ applied' = applied
    BY <1>1 DEF vars
  <2>1. \A g \in Goals : ReceiptsFit(g)'
    <3> TAKE g \in Goals
    <3>1. ReceiptsFit(g)
      BY DEF RInv
    <3>2. EndFits(g)'
      BY <2>0, <3>1 DEF ReceiptsFit, EndFits
    <3>3. \A n \in Nums : BeginningFits(g, n)'
      BY <2>0, <3>1 DEF ReceiptsFit, BeginningFits
    <3>4. \A n \in Nums : MakerFits(g, n)'
      BY <2>0, <3>1 DEF ReceiptsFit, MakerFits
    <3>5. QED
      BY <3>2, <3>3, <3>4 DEF ReceiptsFit
  <2>2. \A a \in applied' : Remembered(a)'
    <3> TAKE a \in applied'
    <3>1. Remembered(a)
      BY <2>0 DEF RInv
    <3>2. VersionCreated(a.req.goal, a.op)' = VersionCreated(a.req.goal, a.op)
      BY <2>0 DEF VersionCreated
    <3>3. QED
      BY <2>0, <3>1, <3>2 DEF Remembered
  <2>3. QED
    BY <2>1, <2>2 DEF RInv
<1>2. ASSUME NEW g \in Goals,
             DraftStep(g) \/ CycleStep(g) \/ (\E op \in Ops : Transition(g, op)) \/ AIStep(g)
      PROVE  RInv'
  <2>1. \A h \in Goals \ {g} : SlotStays(h)
    BY <1>2, OneGoal
  <2>2. ASSUME DraftStep(g) PROVE Lasts(g)
    BY <2>2, DraftStepLasts
  <2>3. ASSUME CycleStep(g) PROVE Lasts(g)
    BY <2>3, SaveFrameLasts, ChangeReviewScheduleLasts DEF CycleStep
  <2>4. ASSUME AIStep(g) PROVE Lasts(g)
    BY <2>4, AIStepLasts
  <2>5. ASSUME NEW op \in Ops, Transition(g, op) PROVE Lasts(g)
    BY <2>5, StartLasts, ContinueLasts, CompleteLasts, ReplanLasts, TerminateActiveCycleLasts,
       TerminateGoalReviewLasts, DeleteLasts DEF Transition
  <2>6. Lasts(g) => RInv'
    BY <2>1, StepRemembers DEF Lasts
  <2>7. QED
    BY <1>2, <2>2, <2>3, <2>4, <2>5, <2>6
<1>3. ASSUME NEW op \in Ops, ReceiptExpires(op) PROVE RInv'
  <2>1. /\ goal' = goal /\ version' = version /\ cycle' = cycle /\ applied' = applied
        /\ receipt' = [receipt EXCEPT ![op].fresh = FALSE] /\ receipt[op] # NoReceipt
        /\ receipt \in [Ops -> DeleteReceipts]
    BY <1>3 DEF ReceiptExpires, NotRecorded, IInv, TypeOK
  <2>2. \A g \in Goals : ReceiptsFit(g)'
    <3> TAKE g \in Goals
    <3>1. ReceiptsFit(g)
      BY DEF RInv
    <3>2. EndFits(g)'
      BY <2>1, <3>1 DEF ReceiptsFit, EndFits
    <3>3. \A n \in Nums : BeginningFits(g, n)' /\ MakerFits(g, n)'
      BY <2>1, <3>1 DEF ReceiptsFit, BeginningFits, MakerFits
    <3>4. QED
      BY <3>2, <3>3 DEF ReceiptsFit
  <2>3. ReceiptsStay
    <3>1. receipt[op] \in [req: DeleteRequests, fresh: BOOLEAN]
      BY <2>1 DEF DeleteReceipts
    <3>2. receipt'[op] \in [req: DeleteRequests, fresh: BOOLEAN] /\ receipt'[op].req = receipt[op].req
      BY <2>1, <3>1
    <3>3. receipt'[op] # NoReceipt
      BY <3>2, LifecycleAssumption
    <3>4. QED
      BY <2>1, <3>2, <3>3 DEF ReceiptsStay
  <2>4. \A a \in applied' : Remembered(a)'
    <3> TAKE a \in applied'
    <3>1. Remembered(a) /\ a.op \in Ops
      BY <2>1, RequestIs DEF RInv, IInv
    <3>2. VersionCreated(a.req.goal, a.op)' = VersionCreated(a.req.goal, a.op)
      BY <2>1 DEF VersionCreated
    <3>3. QED
      BY <2>1, <2>3, <3>1, <3>2 DEF Remembered, ReceiptsStay
  <2>5. QED
    BY <2>2, <2>4 DEF RInv
<1>4. QED
  BY <1>1, <1>2, <1>3 DEF Next, GoalStep

LEMMA AlwaysRInv == Spec => []RInv
BY AlwaysIInv, InitIsRInv, NextKeepsRInv, PTL DEF Spec

\* The rows the joins look for are there, one of each.
LEMMA ViewIsValid ==
  ASSUME IInv, NEW g \in Goals
  PROVE  GoalViewValid(g)
<1>1. SlotFits(g)
  BY DEF IInv
<1>2. ASSUME goal[g].status = "active_cycle" PROVE ActiveCycles(g) = {goal[g].next - 1}
  BY <1>1, <1>2 DEF SlotFits, Work, ActiveCycles
<1>3. goal[g].status = "active_cycle" => \E n \in Nums : ActiveCycles(g) = {n}
  BY <1>1, <1>2 DEF SlotFits, Work
<1>4. QED
  BY <1>1, <1>3 DEF SlotFits, Work, Drafts, GoalViewValid

LEMMA CycleIsReadable ==
  ASSUME IInv, RInv, NEW g \in Goals, NEW n \in Nums, cycle[g][n].status # "absent"
  PROVE  CycleViewValid(g, n)
<1>1. SlotFits(g) /\ ReceiptsFit(g) /\ goal[g] \in GoalRow
  BY DEF IInv, RInv, TypeOK
<1>2. cycle[g][n].content = Cardinality(Edits(cycle[g][n]))
  BY <1>1 DEF ReceiptsFit, BeginningFits, Counted
<1>3. cycle[g][n].version \in 1..goal[g].version /\ cycle[g][n].version \in Nums
  BY <1>1, LifecycleAssumption DEF SlotFits, CycleFits, GoalRow, Nums
<1>4. /\ version[g][cycle[g][n].version] # NoVersion
      /\ version[g][cycle[g][n].version].content.body # BlankBody
  BY <1>1, <1>3 DEF SlotFits, Dense, VersionFits, GoalRow
<1>5. QED
  BY <1>1, <1>2, <1>3, <1>4 DEF SlotFits, CycleFits, CycleViewValid

\* Whatever happened to a goal, its views load: the current work is found and
\* is one, and each of its cycles passes validateCycleView, with a content
\* revision that is the sum of its frame revisions.
THEOREM HistoryStaysReadable == Spec => []HistoryReadable
<1>1. ASSUME IInv, RInv PROVE HistoryReadable
  <2>1. ASSUME NEW g \in Goals, NEW n \in Nums, n < goal[g].next PROVE CycleViewValid(g, n)
    BY <1>1, <2>1, CycleIsReadable DEF IInv, SlotFits, Dense
  <2>2. QED
    BY <1>1, <2>1, ViewIsValid DEF HistoryReadable
<1>2. QED
  BY <1>1, AlwaysIInv, AlwaysRInv, PTL

LEMMA ReplanIsReplayed ==
  ASSUME IInv, RInv, NEW g \in Goals, NEW n \in Nums, cycle[g][n].startedBy # NoReceipt,
         cycle[g][n].startedBy.req.kind = "replan"
  PROVE  ReplanReplay(g, n)
<1>1. SlotFits(g) /\ BeginningFits(g, n)
  BY DEF IInv, RInv, ReceiptsFit
<1>2. n > 1 /\ n - 1 \in Nums /\ cycle[g][n - 1].status = "canceled"
      /\ cycle[g][n - 1].reason = "replanned" /\ cycle[g][n - 1].version = cycle[g][n].version
  BY <1>1, LifecycleAssumption DEF BeginningFits, Nums
<1>3. CycleViewValid(g, n - 1)
  BY <1>2, CycleIsReadable
<1>4. ASSUME cycle[g][n].status = "active"
      PROVE  goal[g].status = "active_cycle" /\ ActiveCycles(g) = {n}
  BY <1>1, <1>4 DEF SlotFits, Work, ActiveCycles
<1>5. QED
  BY <1>2, <1>3, <1>4 DEF ReplanReplay

LEMMA CompleteIsReplayed ==
  ASSUME IInv, RInv, NEW g \in Goals, NEW n \in Nums, cycle[g][n].completedBy # NoReceipt
  PROVE  CompleteReplay(g, n) <=> ~SignalEdited(g, n)
<1>1. SlotFits(g)
  BY DEF IInv
<1>2. cycle[g][n].status = "completed"
  BY <1>1 DEF SlotFits, CycleFits
<1>3. GoalViewValid(g) /\ CycleViewValid(g, n)
  BY <1>2, ViewIsValid, CycleIsReadable
<1>4. ReviewOpen(g, n) => goal[g].status = "goal_review" /\ draft[g].base = cycle[g][n].version
  BY <1>1 DEF SlotFits, Drafts, Work, ReviewOpen
<1>5. QED
  BY <1>2, <1>3, <1>4 DEF CompleteReplay, SignalEdited

LEMMA TerminateIsReplayed ==
  ASSUME IInv, RInv, NEW g \in Goals, goal[g].terminal # NoReceipt
  PROVE  TerminateReplay(g, goal[g].terminal.req)
<1> DEFINE req == goal[g].terminal.req
<1>1. EndFits(g)
  BY DEF RInv, ReceiptsFit
<1>2. req.kind = "terminate_cycle" => req.cycle \in Nums
  BY DEF IInv, TypeOK, GoalRow, Receipts, TerminateRequests
<1>3. ASSUME req.kind = "terminate_cycle" PROVE CycleViewValid(g, req.cycle)
  BY <1>1, <1>2, <1>3, CycleIsReadable DEF EndFits
<1>4. QED
  BY <1>1, <1>3 DEF EndFits, TerminateReplay

\* A request that took effect can be answered again as long as its goal
\* exists: the row it made still bears its operation id, and the rows the
\* answer is read from pass the checks of the replay. A CompleteCycle fails
\* these checks while, and only while, the success signal of the review it
\* opened is edited. The key of a deletion stays bound to its request, which
\* finds the receipt until it expires and no goal from then on.
THEOREM ReplaysStayAnswered == Spec => []ReplaysAnswered
<1>1. ASSUME IInv, RInv PROVE ReplaysAnswered
  <2> SUFFICES ASSUME NEW a \in applied
      PROVE LET g == a.req.goal
                r == [op |-> a.op, req |-> a.req]
            IN  IF a.req.kind = "delete"
                THEN DeleteReplay(a.op, a.req)
                ELSE goal[g].status # "gone" =>
                  CASE a.req.kind \in {"start", "continue", "replan"} ->
                          \E n \in Nums :
                             /\ cycle[g][n].startedBy = r
                             /\ CycleViewValid(g, n)
                             /\ VersionCreated(g, a.op) = a.created
                             /\ a.req.kind = "replan" => ReplanReplay(g, n)
                    [] a.req.kind = "complete" ->
                          \E n \in Nums :
                             /\ cycle[g][n].completedBy = r
                             /\ CompleteReplay(g, n) <=> ~SignalEdited(g, n)
                    [] OTHER -> goal[g].terminal = r /\ TerminateReplay(g, a.req)
    BY DEF ReplaysAnswered
  <2> DEFINE g == a.req.goal
             r == [op |-> a.op, req |-> a.req]
  <2>1. a.op \in Ops /\ a.req \in Requests /\ g \in Goals /\ r # NoReceipt /\ Remembered(a)
    BY <1>1, RequestIs DEF IInv, RInv
  <2>2. CASE a.req.kind = "delete" \/ goal[g].status = "gone"
    <3>1. a.req.kind = "delete" => goal[g].status = "gone"
      BY <1>1 DEF IInv, AppliedFits, Spent
    <3>2. a.req.kind = "delete" => DeleteReplay(a.op, a.req)
      BY <2>1, <3>1 DEF Remembered, DeleteReplay
    <3>3. QED
      BY <2>2, <3>2
  <2>3. CASE goal[g].status # "gone" /\ a.req.kind \in {"start", "continue", "replan"}
    <3>1. PICK n \in Nums : cycle[g][n].startedBy = r
      BY <2>1, <2>3 DEF Remembered
    <3>2. cycle[g][n].status # "absent" /\ r.req.kind = a.req.kind
      BY <1>1, <2>1, <3>1 DEF RInv, ReceiptsFit, BeginningFits
    <3>3. CycleViewValid(g, n)
      BY <1>1, <2>1, <3>2, CycleIsReadable
    <3>4. a.req.kind = "replan" => ReplanReplay(g, n)
      BY <1>1, <2>1, <3>1, <3>2, ReplanIsReplayed
    <3>5. VersionCreated(g, a.op) = a.created
      BY <2>1, <2>3 DEF Remembered
    <3>6. QED
      BY <2>3, <3>1, <3>3, <3>4, <3>5
  <2>4. CASE goal[g].status # "gone" /\ a.req.kind = "complete"
    <3>1. PICK n \in Nums : cycle[g][n].completedBy = r
      BY <2>1, <2>4 DEF Remembered
    <3>2. CompleteReplay(g, n) <=> ~SignalEdited(g, n)
      BY <1>1, <2>1, <3>1, CompleteIsReplayed
    <3>3. QED
      BY <2>4, <3>1, <3>2
  <2>5. CASE goal[g].status # "gone" /\ a.req.kind \in {"terminate_cycle", "terminate_review"}
    <3>1. goal[g].terminal = r
      BY <2>1, <2>5 DEF Remembered
    <3>2. TerminateReplay(g, a.req)
      BY <1>1, <2>1, <3>1, TerminateIsReplayed
    <3>3. QED
      BY <2>5, <3>1, <3>2
  <2>6. a.req.kind \in {"start", "continue", "replan", "complete", "terminate_cycle",
                        "terminate_review", "delete"}
    BY <2>1 DEF Requests, StartRequests, CompleteRequests, TerminateRequests, DeleteRequests
  <2>7. QED
    BY <2>2, <2>3, <2>4, <2>5, <2>6
<1>2. QED
  BY <1>1, AlwaysIInv, AlwaysRInv, PTL

=============================================================================
