----------------------- MODULE AIOperationLedger_proofs -----------------------
(***************************************************************************)
(* The transactions of the AI operations implement the cost ledger: every  *)
(* one that moves a budget column is one ledger step, every other one is   *)
(* none.                                                                   *)
(*                                                                         *)
(*   Begin           Accept, which releases what it recovered              *)
(*   Replay          Release of what it recovered                          *)
(*   FinishNormally  Settle                                                *)
(*   SettleLate      SettleLate, or nothing when the cost is no longer     *)
(*                   awaited                                               *)
(*   DeleteGoal      Release of what runs on the goal                      *)
(*   DeleteAccount   Absorb of what runs and of what awaits its cost       *)
(***************************************************************************)
EXTENDS AIOperation_proofs

Entry == [x \in Gens |-> EntryOf(x)]

\* Where the invariant puts an operation.
LEMMA EntryIs ==
  ASSUME IInv, NEW x \in Gens, pc[x] # "idle"
  PROVE  /\ EntryOf(x) = [place |-> PlaceOf(x), kind |-> snap[x].kind, month |-> MonthOfGen(x)]
         /\ AwaitsCost(x) => PlaceOf(x) = IF gen[x] = "running" THEN "reserved" ELSE "exposed"
         /\ ~AwaitsCost(x) => PlaceOf(x) = fate[x]
BY DEF IInv, ExposureKept, EntryOf, PlaceOf

LEMMA RunningAwaits ==
  ASSUME IInv, NEW x \in Gens, gen[x] = "running"
  PROVE  /\ pc[x] # "idle" /\ AwaitsCost(x) /\ fate[x] = "open" /\ EntryOf(x).place = "reserved"
         /\ EntryOf(x).kind = snap[x].kind /\ EntryOf(x).month = MonthOfGen(x)
<1>1. pc[x] # "idle" /\ AwaitsCost(x)
  BY DEF IInv, OperationsFit, OperationFits, Accepted, AwaitsCost
<1>2. QED
  BY <1>1, EntryIs DEF IInv, ExposureKept

LEMMA ExposedAwaits ==
  ASSUME IInv, NEW x \in Gens, AwaitsCost(x), gen[x] # "running"
  PROVE  /\ pc[x] # "idle" /\ fate[x] = "open" /\ EntryOf(x).place = "exposed"
         /\ EntryOf(x).kind = snap[x].kind /\ EntryOf(x).month = MonthOfGen(x)
<1>1. pc[x] # "idle"
  BY DEF IInv, OperationsFit, OperationFits, AwaitsCost, NoUsage
<1>2. QED
  BY <1>1, EntryIs DEF IInv, ExposureKept

\* The instance counts as this module does.
LEMMA SameCardinality == \A S : Ledger!Cardinality(S) = Cardinality(S)
BY Zenon DEF Ledger!Cardinality, Cardinality

\* The ledger's amount of the operations of S that are in place p is the sum
\* the code computes over them.
LEMMA WorthIsSum ==
  ASSUME NEW S \in SUBSET Gens, NEW T \in SUBSET S, NEW p,
         \A x \in S : EntryOf(x).place = p <=> x \in T,
         \A x \in T : EntryOf(x).kind = snap[x].kind /\ EntryOf(x).month = MonthOfGen(x)
  PROVE  \A m \in Months : Ledger!Worth(S, p, m) = SumReservations(T, m)
<1>1. \A k \in Kinds, m \in Months :
        Ledger!In(S, p, k, m) = {x \in T : snap[x].kind = k /\ MonthOfGen(x) = m}
  BY DEF Ledger!In
<1> TAKE m \in Months
<1>2. /\ Ledger!In(S, p, "goal_refine", m) = {x \in T : snap[x].kind = "goal_refine" /\ MonthOfGen(x) = m}
      /\ Ledger!In(S, p, "action", m) = {x \in T : snap[x].kind = "action" /\ MonthOfGen(x) = m}
  BY <1>1 DEF Kinds
<1>3. QED
  BY <1>2, SameCardinality DEF Ledger!Worth, SumReservations

LEMMA WithoutIsRecovered ==
  ASSUME IInv, NEW E \in SUBSET Gens, \A x \in E : gen[x] = "running"
  PROVE  Ledger!Without(E) = RecoveredReserved(E)
<1>1. \A m \in Months : Ledger!Worth(E, "reserved", m) = SumReservations(E, m)
  BY RunningAwaits, WorthIsSum
<1>2. QED
  BY <1>1 DEF Ledger!Without, RecoveredReserved

\* A step that leaves the requests, the fates and what runs as they are.
LEMMA EntryStays ==
  ASSUME NEW x \in Gens, snap'[x] = snap[x], pc'[x] = "idle" <=> pc[x] = "idle",
         fate'[x] = fate[x], gen'[x] = "running" <=> gen[x] = "running"
  PROVE  EntryOf(x)' = EntryOf(x)
BY DEF EntryOf, PlaceOf, MonthOfGen

-----------------------------------------------------------------------------

LEMMA InitIsLedgerInit == Init => Ledger!Init
<1> SUFFICES ASSUME Init PROVE Ledger!Init
  OBVIOUS
<1>1. MonthOf[0] \in Months
  BY AIAssumption DEF Times
<1>2. \A x \in Gens : EntryOf(x) \in [place : {"none"}, kind : Ledger!Kinds, month : Months]
  BY <1>1 DEF Init, EntryOf, Ledger!Kinds
<1>3. QED
  BY <1>2 DEF Init, Ledger!Init

\* The entries once the running operations of E were recovered.
LEMMA MovedIs ==
  ASSUME IInv, NEW E \in SUBSET Gens, \A x \in E : gen[x] = "running",
         UNCHANGED <<snap, pc, fate>>,
         \A x \in Gens : gen'[x] = "running" <=> gen[x] = "running" /\ x \notin E
  PROVE  Entry' = Ledger!Moved(E, "exposed")
<1>1. ASSUME NEW x \in E PROVE EntryOf(x)' = [EntryOf(x) EXCEPT !.place = "exposed"]
  BY <1>1, RunningAwaits DEF EntryOf, PlaceOf, MonthOfGen
<1>2. ASSUME NEW x \in Gens \ E PROVE EntryOf(x)' = EntryOf(x)
  BY <1>2, EntryStays
<1>3. QED
  BY <1>1, <1>2 DEF Entry, Ledger!Moved

LEMMA ReleaseStep ==
  ASSUME IInv, NEW E \in SUBSET Gens, \A x \in E : gen[x] = "running",
         UNCHANGED <<snap, pc, fate, actual, unattributed>>,
         reserved' = RecoveredReserved(E),
         \A x \in Gens : gen'[x] = "running" <=> gen[x] = "running" /\ x \notin E
  PROVE  Ledger!Release(E)
<1>1. \A x \in E : EntryOf(x).place = "reserved"
  BY RunningAwaits
<1>2. Entry' = Ledger!Moved(E, "exposed")
  BY MovedIs
<1>3. QED
  BY <1>1, <1>2, WithoutIsRecovered DEF Ledger!Release, Entry

LEMMA BeginStep ==
  ASSUME IInv, NEW x \in Gens, NEW g \in Goals, NEW k \in Kinds, NEW t \in Readings,
         Begin(x, g, k, t)
  PROVE  Ledger!Accept(x, k, MonthOf[t], Expired(Owner[g], t))
<1> DEFINE E == Expired(Owner[g], t)
           m == MonthOf[t]
<1>1. /\ TypeOK /\ E \in SUBSET Gens /\ \A y \in E : gen[y] = "running"
      /\ x \notin E /\ pc[x] = "idle" /\ fate[x] = "open"
  BY DEF IInv, OperationsFit, OperationFits, Expired, Begin
<1>2. /\ \A y \in E : EntryOf(y).place = "reserved" /\ pc[y] # "idle"
      /\ EntryOf(x).place = "none"
  BY <1>1, RunningAwaits DEF EntryOf
<1>3. Ledger!Without(E) = RecoveredReserved(E)
  BY <1>1, WithoutIsRecovered
<1>4. EntryOf(x)' = [place |-> "reserved", kind |-> k, month |-> m]
  <2>1. snap'[x].kind = k /\ snap'[x].at = t /\ pc'[x] = "provider" /\ fate'[x] = "open"
    BY <1>1 DEF Begin, TypeOK
  <2>2. gen'[x] = "running"
    BY <1>1 DEF Begin, RecoveredGen
  <2>3. QED
    BY <2>1, <2>2 DEF EntryOf, PlaceOf, MonthOfGen
<1>5. ASSUME NEW y \in Gens, y # x
      PROVE  EntryOf(y)' = IF y \in E THEN [EntryOf(y) EXCEPT !.place = "exposed"] ELSE EntryOf(y)
  <2>1. /\ pc'[y] = pc[y] /\ snap'[y] = snap[y] /\ fate'[y] = fate[y]
        /\ gen'[y] = IF y \in E THEN "failed" ELSE gen[y]
    BY <1>1, <1>5 DEF Begin, TypeOK, RecoveredGen
  <2>2. CASE y \in E
    BY <1>1, <2>1, <2>2, RunningAwaits DEF EntryOf, PlaceOf, MonthOfGen
  <2>3. CASE y \notin E
    BY <2>1, <2>3, EntryStays
  <2>4. QED
    BY <2>2, <2>3
<1>6. Entry' = [Ledger!Moved(E, "exposed") EXCEPT ![x] = [place |-> "reserved", kind |-> k, month |-> m]]
  BY <1>1, <1>4, <1>5 DEF Entry, Ledger!Moved
<1>7. Ledger!Affordable(k, m, E)
  BY <1>3 DEF Begin, Affordable, Ledger!Affordable
<1>8. reserved' = [RecoveredReserved(E) EXCEPT ![m] = @ + Reservation[k]] /\ UNCHANGED <<actual, unattributed>>
  BY DEF Begin
<1>9. QED
  BY <1>1, <1>2, <1>3, <1>6, <1>7, <1>8 DEF Ledger!Accept, Entry

LEMMA ReplayStep ==
  ASSUME IInv, NEW x \in Gens, NEW t \in Readings, Replay(x, t)
  PROVE  Ledger!Release(Expired(UserOf(x), t))
<1>1. Expired(UserOf(x), t) \in SUBSET Gens /\ \A y \in Expired(UserOf(x), t) : gen[y] = "running"
  BY DEF Expired
<1>2. QED
  BY <1>1, ReleaseStep DEF Replay, RecoveredGen, request

LEMMA DeleteGoalStep ==
  ASSUME IInv, NEW g \in Goals, NEW t \in Readings, DeleteGoal(g, t)
  PROVE  Ledger!Release(RunningOn(g))
<1>1. RunningOn(g) \in SUBSET Gens /\ \A y \in RunningOn(g) : gen[y] = "running"
  BY DEF RunningOn
<1>2. \A y \in Gens : gen'[y] = "running" <=> gen[y] = "running" /\ y \notin RunningOn(g)
  BY DEF DeleteGoal, RunningOn
<1>3. QED
  BY <1>1, <1>2, ReleaseStep DEF DeleteGoal, request

LEMMA FinishStep ==
  ASSUME IInv, NEW x \in Gens, FinishNormally(x)
  PROVE  Ledger!Settle(x)
<1>1. TypeOK /\ gen[x] = "running" /\ pc[x] = "located"
  BY DEF IInv, FinishNormally, LocksHold
<1>2. EntryOf(x).place = "reserved" /\ EntryOf(x).kind = snap[x].kind /\ EntryOf(x).month = MonthOfGen(x)
  BY <1>1, RunningAwaits
<1>3. answer[x].cost \in 0..Reservation[snap[x].kind]
  BY <1>1, CostFits
<1>4. EntryOf(x)' = [EntryOf(x) EXCEPT !.place = "charged"]
  BY <1>1 DEF FinishNormally, TypeOK, EntryOf, PlaceOf, MonthOfGen
<1>5. ASSUME NEW y \in Gens, y # x PROVE EntryOf(y)' = EntryOf(y)
  <2>1. pc'[y] = pc[y] /\ snap'[y] = snap[y] /\ fate'[y] = fate[y] /\ gen'[y] = gen[y]
    BY <1>1, <1>5 DEF FinishNormally, TypeOK
  <2>2. QED
    BY <2>1, EntryStays
<1>6. Entry' = Ledger!Moved({x}, "charged")
  BY <1>4, <1>5 DEF Entry, Ledger!Moved
<1>7. QED
  BY <1>2, <1>3, <1>6 DEF FinishNormally, ActualWith, Ledger!Settle, Entry

LEMMA SettleLateStep ==
  ASSUME IInv, NEW x \in Gens, SettleLate(x)
  PROVE  Ledger!SettleLate(x) \/ UNCHANGED Ledger!vars
<1>1. TypeOK /\ gen[x] # "running" /\ pc[x] # "idle" /\ pc'[x] # "idle"
  BY SettleLateKeeps DEF IInv, TypeOK, SettleLate
<1>2. \A y \in Gens : y # x => pc'[y] = pc[y] /\ snap'[y] = snap[y] /\ fate'[y] = fate[y] /\ gen'[y] = gen[y]
  BY <1>1 DEF SettleLate, TypeOK
<1>3. \A y \in Gens : y # x => EntryOf(y)' = EntryOf(y)
  BY <1>2, EntryStays
<1>4. CASE AwaitsCost(x)
  <2>1. EntryOf(x).place = "exposed" /\ EntryOf(x).kind = snap[x].kind /\ EntryOf(x).month = MonthOfGen(x)
    BY <1>1, <1>4, ExposedAwaits
  <2>2. answer[x].cost \in 0..Reservation[snap[x].kind]
    BY <1>1, CostFits
  <2>3. EntryOf(x)' = [EntryOf(x) EXCEPT !.place = "late"]
    BY <1>1, <1>4 DEF SettleLate, TypeOK, EntryOf, PlaceOf, MonthOfGen
  <2>4. Entry' = Ledger!Moved({x}, "late")
    BY <1>3, <2>3 DEF Entry, Ledger!Moved
  <2>5. QED
    BY <1>4, <2>1, <2>2, <2>4 DEF SettleLate, ActualWith, Ledger!SettleLate, Entry
<1>5. CASE ~AwaitsCost(x)
  <2>1. EntryOf(x)' = EntryOf(x)
    BY <1>1, <1>5, EntryStays DEF SettleLate
  <2>2. QED
    BY <1>3, <1>5, <2>1 DEF SettleLate, Ledger!vars
<1>6. QED
  BY <1>4, <1>5

LEMMA DeleteAccountStep ==
  ASSUME IInv, NEW u \in Users, DeleteAccount(u)
  PROVE  \E S \in SUBSET Gens : Ledger!Absorb(S)
<1> DEFINE Mine == {x \in Gens : pc[x] # "idle" /\ UserOf(x) = u}
           R == {x \in Mine : gen[x] = "running"}
           X == ReleasedExposures(Mine)
<1>1. TypeOK /\ R \in SUBSET Gens /\ X \in SUBSET Gens /\ R \cup X \in SUBSET Gens
  BY DEF IInv, ReleasedExposures
<1>2. \A x \in R : EntryOf(x).place = "reserved" /\ EntryOf(x).kind = snap[x].kind
                     /\ EntryOf(x).month = MonthOfGen(x) /\ pc[x] # "idle"
  BY RunningAwaits
<1>3. \A x \in X : EntryOf(x).place = "exposed" /\ EntryOf(x).kind = snap[x].kind
                     /\ EntryOf(x).month = MonthOfGen(x) /\ pc[x] # "idle"
  BY ExposedAwaits DEF ReleasedExposures, AwaitsCost
<1>4. \A m \in Months : Ledger!Worth(R \cup X, "reserved", m) = SumReservations(R, m)
  <2>1. /\ \A x \in R \cup X : EntryOf(x).place = "reserved" <=> x \in R
        /\ \A x \in R : EntryOf(x).kind = snap[x].kind /\ EntryOf(x).month = MonthOfGen(x)
    BY <1>2, <1>3
  <2>2. R \cup X \in SUBSET Gens /\ R \in SUBSET (R \cup X)
    BY <1>1
  <2>3. QED
    BY <2>1, <2>2, WorthIsSum
<1>5. \A m \in Months : Ledger!Worth(R \cup X, "exposed", m) = SumReservations(X, m)
  <2>1. /\ \A x \in R \cup X : EntryOf(x).place = "exposed" <=> x \in X
        /\ \A x \in X : EntryOf(x).kind = snap[x].kind /\ EntryOf(x).month = MonthOfGen(x)
    BY <1>2, <1>3
  <2>2. R \cup X \in SUBSET Gens /\ X \in SUBSET (R \cup X)
    BY <1>1
  <2>3. QED
    BY <2>1, <2>2, WorthIsSum
<1>6. Ledger!Without(R \cup X) = RecoveredReserved(R)
  BY <1>4 DEF Ledger!Without, RecoveredReserved
<1>7. /\ \A x \in Gens : /\ snap'[x] = snap[x] /\ pc'[x] = pc[x]
                         /\ fate'[x] = IF x \in R \cup X THEN "absorbed" ELSE fate[x]
                         /\ gen'[x] = IF x \in Mine THEN "absent" ELSE gen[x]
      /\ reserved' = RecoveredReserved(R)
      /\ unattributed' = [m \in Months |-> unattributed[m] + SumReservations(R, m) + SumReservations(X, m)]
      /\ actual' = actual
  BY DEF DeleteAccount, request
<1>8. ASSUME NEW x \in Gens
      PROVE  EntryOf(x)' = IF x \in R \cup X THEN [EntryOf(x) EXCEPT !.place = "absorbed"] ELSE EntryOf(x)
  <2>1. CASE x \in R \cup X
    BY <1>2, <1>3, <1>7, <2>1 DEF EntryOf, PlaceOf, MonthOfGen
  <2>2. CASE x \notin R \cup X /\ x \notin Mine
    BY <1>7, <2>2, EntryStays
  <2>3. CASE x \notin R \cup X /\ x \in Mine
    <3>1. fate[x] # "open"
      BY <2>3 DEF IInv, ExposureKept, ReleasedExposures, AwaitsCost
    <3>2. QED
      BY <1>7, <2>3, <3>1 DEF EntryOf, PlaceOf, MonthOfGen
  <2>4. QED
    BY <2>1, <2>2, <2>3
<1>9. Entry' = Ledger!Moved(R \cup X, "absorbed")
  BY <1>8 DEF Entry, Ledger!Moved
<1> HIDE DEF Mine, R, X
<1>10. Ledger!Absorb(R \cup X)
  <2>1. \A x \in R \cup X : Entry[x].place \in {"reserved", "exposed"}
    BY <1>1, <1>2, <1>3 DEF Entry
  <2>2. unattributed' = [m \in Months |-> unattributed[m] + Ledger!Worth(R \cup X, "reserved", m)
                                                       + Ledger!Worth(R \cup X, "exposed", m)]
    BY <1>4, <1>5, <1>7
  <2>3. reserved' = Ledger!Without(R \cup X) /\ actual' = actual
    BY <1>6, <1>7
  <2>4. QED
    BY <1>9, <2>1, <2>2, <2>3, Zenon DEF Ledger!Absorb, Entry
<1>11. QED
  BY <1>1, <1>10

\* A step that is none of the ledger's.
LEMMA OtherStep ==
  ASSUME UNCHANGED <<reserved, actual, unattributed>>,
         \A x \in Gens : EntryOf(x)' = EntryOf(x)
  PROVE  UNCHANGED Ledger!vars
BY DEF Ledger!vars

LEMMA RequestStepIs ==
  ASSUME IInv, NEW x \in Gens, RequestStep(x) \/ Crash(x)
  PROVE  Ledger!Next \/ UNCHANGED Ledger!vars
<1>1. CASE FinishNormally(x)
  BY <1>1, FinishStep DEF Ledger!Next
<1>2. CASE SettleLate(x)
  BY <1>2, SettleLateStep DEF Ledger!Next
<1>3. CASE \/ \E cost \in 0..Reservation[snap[x].kind], ok \in BOOLEAN : ProviderReturns(x, cost, ok)
           \/ Locate(x) \/ FinishWithoutUser(x) \/ Crash(x)
  <2>1. UNCHANGED <<rows, snap, fate>>
    BY <1>3 DEF ProviderReturns, Locate, FinishWithoutUser, Crash
  <2>2. \A y \in Gens : pc'[y] = "idle" <=> pc[y] = "idle"
    BY <1>3 DEF IInv, TypeOK, ProviderReturns, Locate, FinishWithoutUser, Crash
  <2>3. \A y \in Gens : EntryOf(y)' = EntryOf(y)
    BY <2>1, <2>2, EntryStays DEF rows
  <2>4. QED
    BY <2>1, <2>3, OtherStep DEF rows
<1>4. QED
  BY <1>1, <1>2, <1>3 DEF RequestStep

LEMMA TargetsStepIs ==
  ASSUME IInv, TargetsNext
  PROVE  Ledger!Next \/ UNCHANGED Ledger!vars
<1>1. CASE \E g \in Goals, t \in Readings : DeleteGoal(g, t)
  <2>1. PICK g \in Goals, t \in Readings : DeleteGoal(g, t)
    BY <1>1
  <2>2. RunningOn(g) \in SUBSET Gens
    BY DEF RunningOn
  <2>3. QED
    BY <2>1, <2>2, DeleteGoalStep DEF Ledger!Next
<1>2. CASE ~\E g \in Goals, t \in Readings : DeleteGoal(g, t)
  <2>1. TargetStep
    BY TargetsNextIsTargetStep
  <2>2. reserved' = reserved
    BY <1>2 DEF TargetsNext, AdoptGoalSuggestion, CreateDraft, SaveContent, StartGoal, AbandonDraft,
                CompleteCycle, ReplanCycle, ContinueReview, Terminate, Cleanup
  <2>3. \A x \in Gens : gen[x] = "running" => gen'[x] = "running"
    <3>1. \/ gen' = gen
          \/ \E x \in Gens : AdoptGoalSuggestion(x)
          \/ \E g \in Goals, t \in Readings : RunningOn(g) = {} /\ DropDraftGens(g, t)
      BY <1>2 DEF TargetsNext, CreateDraft, SaveContent, StartGoal, AbandonDraft,
                  CompleteCycle, ReplanCycle, ContinueReview, Terminate, Cleanup
    <3>2. CASE \E x \in Gens : AdoptGoalSuggestion(x)
      BY <3>2 DEF AdoptGoalSuggestion, IInv, TypeOK
    <3>3. CASE \E g \in Goals, t \in Readings : RunningOn(g) = {} /\ DropDraftGens(g, t)
      BY <3>3 DEF DropDraftGens, RunningOn, DraftGens
    <3>4. QED
      BY <3>1, <3>2, <3>3
  <2>4. \A x \in Gens : EntryOf(x)' = EntryOf(x)
    BY <2>1, <2>3, EntryStays DEF TargetStep, request
  <2>5. QED
    BY <2>1, <2>2, <2>4, OtherStep DEF TargetStep
<1>3. QED
  BY <1>1, <1>2

LEMMA StepIsLedgerStep == IInv /\ [Next]_vars => Ledger!Next \/ UNCHANGED Ledger!vars
<1> SUFFICES ASSUME IInv, [Next]_vars PROVE Ledger!Next \/ UNCHANGED Ledger!vars
  OBVIOUS
<1>1. CASE \E x \in Gens, g \in Goals, k \in Kinds, t \in Readings : Begin(x, g, k, t)
  <2>1. PICK x \in Gens, g \in Goals, k \in Kinds, t \in Readings : Begin(x, g, k, t)
    BY <1>1
  <2>2. MonthOf[t] \in Months /\ Expired(Owner[g], t) \in SUBSET Gens /\ k \in Ledger!Kinds
    BY AIAssumption DEF Readings, Expired, Kinds, Ledger!Kinds
  <2>3. QED
    BY <2>1, <2>2, BeginStep DEF Ledger!Next
<1>2. CASE \E x \in Gens, t \in Readings : Replay(x, t)
  <2>1. PICK x \in Gens, t \in Readings : Replay(x, t)
    BY <1>2
  <2>2. Expired(UserOf(x), t) \in SUBSET Gens
    BY DEF Expired
  <2>3. QED
    BY <2>1, <2>2, ReplayStep DEF Ledger!Next
<1>3. CASE \E x \in Gens : (pc[x] # "idle" /\ RequestStep(x)) \/ Crash(x)
  BY <1>3, RequestStepIs
<1>4. CASE TargetsNext
  BY <1>4, TargetsStepIs
<1>5. CASE \E u \in Users : DeleteAccount(u)
  BY <1>5, DeleteAccountStep DEF Ledger!Next
<1>6. CASE Tick \/ UNCHANGED vars
  <2>1. UNCHANGED <<gen, reserved, actual, unattributed, pc, snap, fate>>
    BY <1>6 DEF Tick, rows, request, vars
  <2>2. \A x \in Gens : EntryOf(x)' = EntryOf(x)
    BY <2>1, EntryStays
  <2>3. QED
    BY <2>1, <2>2, OtherStep
<1>7. QED
  BY <1>1, <1>2, <1>3, <1>4, <1>5, <1>6, NextCases

\* The AI operations implement the cost ledger: whatever the order of answers,
\* lease recoveries, deletions and retries, an operation is charged, settled
\* late or absorbed once, and the budget columns move by its amount and no other.
THEOREM OperationsImplementLedger == Spec => LedgerSpec
<1>1. Init => Ledger!Init
  BY InitIsLedgerInit
<1>2. IInv /\ [Next]_vars => [Ledger!Next]_(Ledger!vars)
  BY StepIsLedgerStep
<1>3. QED
  BY <1>1, <1>2, SpecKeepsIInv, PTL DEF Spec, LedgerSpec, Ledger!Spec

-----------------------------------------------------------------------------
(***************************************************************************)
(* What is proved of the ledger holds of the columns the code keeps        *)
(***************************************************************************)

Proved == INSTANCE AILedger_proofs WITH
              Budget <- MonthlyBudget, entry <- [x \in Gens |-> EntryOf(x)]

LEMMA ProvedConstants == Proved!LedgerConstants
<1>1. Proved!IsFiniteSet(Gens)
  BY AIAssumption, Zenon DEF Proved!IsFiniteSet, IsFiniteSet
<1>2. Reservation \in [Proved!Kinds -> Nat] /\ MonthlyBudget \in Nat
  BY AIAssumption DEF Proved!Kinds, Kinds
<1>3. QED
  BY <1>1, <1>2 DEF Proved!LedgerConstants

LEMMA SameKinds == Ledger!Kinds = Proved!Kinds
BY DEF Ledger!Kinds, Proved!Kinds

LEMMA SameIn ==
  \A S, p, k, m : Ledger!In(S, p, k, m) = Proved!In(S, p, k, m)
BY Zenon DEF Ledger!In, Proved!In

LEMMA SameWorth ==
  \A S, p, m : Ledger!Worth(S, p, m) = Proved!Worth(S, p, m)
BY SameIn, ZenonT(40) DEF Ledger!Worth, Proved!Worth, Ledger!Cardinality, Proved!Cardinality

LEMMA SameInit == Ledger!Init => Proved!Init
BY SameKinds, Zenon DEF Ledger!Init, Proved!Init

LEMMA SameNext == Ledger!Next => Proved!Next
<1>1. \A E : Ledger!Without(E) = Proved!Without(E)
  BY SameWorth DEF Ledger!Without, Proved!Without
<1>2. \A E, q : Ledger!Moved(E, q) = Proved!Moved(E, q)
  BY Zenon DEF Ledger!Moved, Proved!Moved
<1>3. ASSUME NEW E, Ledger!Release(E) PROVE Proved!Release(E)
  BY <1>1, <1>2, <1>3, Zenon DEF Ledger!Release, Proved!Release
<1>4. ASSUME NEW E, Ledger!Absorb(E) PROVE Proved!Absorb(E)
  BY <1>1, <1>2, <1>4, SameWorth DEF Ledger!Absorb, Proved!Absorb
<1>5. ASSUME NEW x, NEW k, NEW m, NEW E, Ledger!Accept(x, k, m, E) PROVE Proved!Accept(x, k, m, E)
  BY <1>1, <1>2, <1>5 DEF Ledger!Accept, Proved!Accept, Ledger!Affordable, Proved!Affordable
<1>6. ASSUME NEW x, Ledger!Settle(x) PROVE Proved!Settle(x)
  BY <1>2, <1>6, Zenon DEF Ledger!Settle, Proved!Settle
<1>7. ASSUME NEW x, Ledger!SettleLate(x) PROVE Proved!SettleLate(x)
  BY <1>2, <1>7, Zenon DEF Ledger!SettleLate, Proved!SettleLate
<1>8. QED
  BY <1>3, <1>4, <1>5, <1>6, <1>7, SameKinds, Zenon DEF Ledger!Next, Proved!Next

LEMMA SpecIsProvedSpec == Spec => Proved!Spec
<1>1. Ledger!Init => Proved!Init
  BY SameInit
<1>2. [Ledger!Next]_(Ledger!vars) => [Proved!Next]_(Proved!vars)
  BY SameNext, Zenon DEF Ledger!vars, Proved!vars
<1>3. QED
  BY <1>1, <1>2, OperationsImplementLedger, PTL DEF LedgerSpec, Ledger!Spec, Proved!Spec

\* In every state the reserved cost of a month is the maximum cost of what
\* runs, and its unattributed cost that of what went with its account.
THEOREM OperationsBalanced == Spec => []Balanced
<1>1. Proved!Spec => []Proved!Balanced
  BY ProvedConstants, Proved!LedgerBalanced
<1>2. Proved!Balanced => Balanced
  BY SameWorth DEF Balanced, Ledger!Balanced, Proved!Balanced
<1>3. QED
  BY <1>1, <1>2, SpecIsProvedSpec, PTL

\* However operations, recoveries, deletions and late answers interleave, a
\* month counts more than its budget only by costs that became known after
\* their reservation had been given back, or went with their account.
THEOREM OperationsWithinBudget == Spec => []WithinBudget
<1>1. Proved!Spec => []Proved!WithinBudget
  BY ProvedConstants, Proved!LedgerWithinBudget
<1>2. Proved!WithinBudget => WithinBudget
  BY SameWorth DEF WithinBudget, Ledger!WithinBudget, Proved!WithinBudget
<1>3. QED
  BY <1>1, <1>2, SpecIsProvedSpec, PTL
==============================================================================
