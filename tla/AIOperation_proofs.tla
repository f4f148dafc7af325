-------------------------- MODULE AIOperation_proofs --------------------------
(***************************************************************************)
(* Invariants of the AI operations, for any goals, operations, months and  *)
(* costs: an operation's usage event is kept as long as its cost is        *)
(* unknown, and a running generation is the only one on a current target.  *)
(***************************************************************************)
EXTENDS AIOperation, FiniteSetTheorems, TLAPS

\* What belongs to an operation before and after its request is accepted.
\* Only an accepted operation has rows, a running one has its usage event as
\* Begin left it, and one that was found ended does not run again.
OperationFits(x) ==
    /\ pc[x] = "idle" =>
          /\ gen[x] = "absent" /\ usage[x] = NoUsage
          /\ fate[x] = "open" /\ answer[x] = NoAnswer
    /\ pc[x] # "idle" =>
          snap[x] \in Snap /\ answer[x].cost <= Reservation[snap[x].kind]
    /\ gen[x] = "running" => Accepted(x)
    /\ pc[x] = "late" => gen[x] # "running"

OperationsFit == \A x \in Gens : OperationFits(x)

IInv == TypeOK /\ OperationsFit /\ ExposureKept /\ RunningTargetCurrent

-----------------------------------------------------------------------------

LEMMA ReservationIsNat == \A k \in Kinds : Reservation[k] \in Nat
BY AIAssumption

LEMMA CountIsNat ==
  ASSUME NEW S \in SUBSET Gens
  PROVE  IsFiniteSet(S) /\ Cardinality(S) \in Nat
BY AIAssumption, FS_Subset, FS_CardinalityType

LEMMA SumIsNat ==
  ASSUME NEW S \in SUBSET Gens, NEW m
  PROVE  SumReservations(S, m) \in Nat
<1> DEFINE InKind(k) == {x \in S : snap[x].kind = k /\ MonthOfGen(x) = m}
<1>1. Cardinality(InKind("goal_refine")) \in Nat /\ Cardinality(InKind("action")) \in Nat
  BY CountIsNat
<1>2. Reservation["goal_refine"] \in Nat /\ Reservation["action"] \in Nat
  BY ReservationIsNat DEF Kinds
<1>3. \A r, c \in Nat : r * c \in Nat
  OBVIOUS
<1>4. QED
  BY <1>1, <1>2, <1>3 DEF SumReservations

LEMMA InitIsIInv == Init => IInv
<1> SUFFICES ASSUME Init PROVE IInv
  OBVIOUS
<1>1. TypeOK
  BY AIAssumption DEF Init, TypeOK, Times, NoUsage, Usage, NoAnswer, GenStatuses, PCs, Phases
<1>2. OperationsFit
  BY DEF Init, OperationsFit, OperationFits
<1>3. ExposureKept /\ RunningTargetCurrent
  BY DEF Init, ExposureKept, RunningTargetCurrent
<1>4. QED
  BY <1>1, <1>2, <1>3 DEF IInv

-----------------------------------------------------------------------------
(***************************************************************************)
(* Transactions that recover, accept or finalize operations                *)
(***************************************************************************)

LEMMA ReservedFits ==
  ASSUME TypeOK, NEW E \in SUBSET Gens, \A m \in Months : reserved[m] >= SumReservations(E, m)
  PROVE  RecoveredReserved(E) \in [Months -> Nat]
<1>1. \A m \in Months : SumReservations(E, m) \in Nat
  BY SumIsNat
<1>2. QED
  BY <1>1 DEF RecoveredReserved, TypeOK

\* Recovering the running operations of E fails them and keeps their events.
LEMMA RecoveryFits ==
  ASSUME IInv, NEW E \in SUBSET Gens, CanRecover(E),
         \A x \in E : gen[x] = "running"
  PROVE  /\ RecoveredGen(E) \in [Gens -> GenStatuses]
         /\ RecoveredUsage(E) \in [Gens -> Usage]
         /\ RecoveredReserved(E) \in [Months -> Nat]
         /\ \A x \in Gens : /\ RecoveredUsage(E)[x].final = usage[x].final
                            /\ RecoveredUsage(E)[x].status = "absent" <=> usage[x].status = "absent"
<1>1. TypeOK
  BY DEF IInv
<1>2. RecoveredReserved(E) \in [Months -> Nat]
  BY <1>1, ReservedFits DEF CanRecover
<1>4. RecoveredGen(E) \in [Gens -> GenStatuses]
  BY <1>1 DEF RecoveredGen, TypeOK, GenStatuses
<1>5. RecoveredUsage(E) \in [Gens -> Usage]
  <2>1. ASSUME NEW x \in Gens
        PROVE  (IF x \in E THEN [usage[x] EXCEPT !.status = "closed"] ELSE usage[x]) \in Usage
    <3>1. usage[x] \in Usage
      BY <1>1 DEF TypeOK
    <3>2. [usage[x] EXCEPT !.status = "closed"] \in Usage
      BY <3>1 DEF Usage
    <3>3. QED
      BY <3>1, <3>2
  <2>2. QED
    BY <2>1 DEF RecoveredUsage
<1>6. \A x \in Gens : /\ RecoveredUsage(E)[x].final = usage[x].final
                      /\ RecoveredUsage(E)[x].status = "absent" <=> usage[x].status = "absent"
  BY <1>1 DEF RecoveredUsage, CanRecover, Accepted, TypeOK, Usage
<1>7. QED
  BY <1>2, <1>4, <1>5, <1>6

LEMMA BeginKeeps ==
  ASSUME IInv, NEW x \in Gens, NEW g \in Goals, NEW k \in Kinds, NEW t \in Readings,
         Begin(x, g, k, t)
  PROVE  IInv'
<1> DEFINE u == Owner[g]
           E == Expired(u, t)
           m == MonthOf[t]
           new == [goal |-> g, kind |-> k, epoch |-> goal[g].epoch,
                   rev |-> goal[g].rev, at |-> t]
<1>1. /\ TypeOK /\ OperationsFit /\ ExposureKept /\ RunningTargetCurrent
      /\ t \in Times /\ m \in Months /\ new \in Snap
  BY AIAssumption DEF IInv, Readings, TypeOK, Snap, Times
<1>2. E \in SUBSET Gens /\ \A y \in E : gen[y] = "running"
  BY DEF Expired
<1>3. CanRecover(E) /\ x \notin E /\ OperationFits(x) /\ pc[x] = "idle"
  BY <1>1, <1>2 DEF Begin, OperationsFit, OperationFits
<1>4. /\ RecoveredGen(E) \in [Gens -> GenStatuses]
      /\ RecoveredUsage(E) \in [Gens -> Usage]
      /\ RecoveredReserved(E) \in [Months -> Nat]
      /\ \A y \in Gens :
            /\ RecoveredUsage(E)[y].final = usage[y].final
            /\ RecoveredUsage(E)[y].status = "absent" <=> usage[y].status = "absent"
  BY <1>2, <1>3, RecoveryFits
<1>5. TypeOK'
  BY <1>1, <1>4, ReservationIsNat DEF Begin, TypeOK, Usage, GenStatuses, PCs
<1>6. OperationsFit'
  <2> SUFFICES ASSUME NEW y \in Gens PROVE OperationFits(y)'
    BY DEF OperationsFit
  <2>1. CASE y = x
    BY <1>1, <1>3, <1>4, <2>1, ReservationIsNat
       DEF Begin, OperationFits, TypeOK, Accepted, Snap, NoAnswer
  <2>2. CASE y # x
    <3>1. /\ pc'[y] = pc[y] /\ snap'[y] = snap[y] /\ answer'[y] = answer[y] /\ fate'[y] = fate[y]
          /\ gen'[y] = IF y \in E THEN "failed" ELSE gen[y]
          /\ usage'[y] = IF y \in E THEN [usage[y] EXCEPT !.status = "closed"] ELSE usage[y]
      BY <1>1, <2>2 DEF Begin, TypeOK, RecoveredGen, RecoveredUsage
    <3>2. QED
      BY <1>1, <1>2, <3>1 DEF OperationsFit, OperationFits, Accepted
  <2>3. QED
    BY <2>1, <2>2
<1>7. ExposureKept'
  BY <1>1, <1>3, <1>4 DEF Begin, ExposureKept, AwaitsCost, OperationFits, TypeOK
<1>8. RunningTargetCurrent'
  <2>1. ASSUME NEW y \in Gens, gen'[y] = "running"
        PROVE  /\ y = x \/ (gen[y] = "running" /\ y \notin E /\ y # x /\ snap'[y] = snap[y])
               /\ y = x => snap'[y] = new
    BY <1>1, <2>1 DEF Begin, RecoveredGen, TypeOK
  <2>2. ASSUME NEW y \in Gens, gen'[y] = "running", y # x
        PROVE  snap[y].goal # g
    BY <2>1, <2>2 DEF Begin, RunningOn
  <2>3. QED
    BY <1>1, <2>1, <2>2
       DEF Begin, RunningTargetCurrent, TypeOK, UserOf, OnCurrent, Startable, Kinds
<1>9. QED
  BY <1>5, <1>6, <1>7, <1>8 DEF IInv

LEMMA ReplayKeeps ==
  ASSUME IInv, NEW x \in Gens, NEW t \in Readings, Replay(x, t)
  PROVE  IInv'
<1> DEFINE E == Expired(UserOf(x), t)
<1>1. TypeOK /\ OperationsFit /\ ExposureKept /\ RunningTargetCurrent
  BY DEF IInv
<1>2. E \in SUBSET Gens /\ (\A y \in E : gen[y] = "running") /\ CanRecover(E)
  BY DEF Expired, Replay
<1>3. /\ RecoveredGen(E) \in [Gens -> GenStatuses]
      /\ RecoveredUsage(E) \in [Gens -> Usage]
      /\ RecoveredReserved(E) \in [Months -> Nat]
      /\ \A y \in Gens :
            /\ RecoveredUsage(E)[y].final = usage[y].final
            /\ RecoveredUsage(E)[y].status = "absent" <=> usage[y].status = "absent"
  BY <1>2, RecoveryFits
<1>4. TypeOK'
  BY <1>1, <1>3 DEF Replay, TypeOK, request
<1>5. OperationsFit'
  BY <1>1, <1>2
     DEF Replay, request, OperationsFit, OperationFits, RecoveredGen, RecoveredUsage, Accepted
<1>6. ExposureKept'
  BY <1>1, <1>3 DEF Replay, request, ExposureKept, AwaitsCost
<1>7. RunningTargetCurrent'
  BY <1>1 DEF Replay, request, RunningTargetCurrent, RecoveredGen, UserOf, OnCurrent, Startable
<1>8. QED
  BY <1>4, <1>5, <1>6, <1>7 DEF IInv

\* A step of the request goroutine that writes no row.
RequestOnly(x, p) ==
    /\ p = "late" => gen[x] # "running"
    /\ pc' = [pc EXCEPT ![x] = p]
    /\ \/ answer' = answer
       \/ \E cost \in 0..Reservation[snap[x].kind], ok \in BOOLEAN :
              answer' = [answer EXCEPT ![x] = [cost |-> cost, ok |-> ok]]
    /\ UNCHANGED <<now, rows, snap, fate>>

LEMMA RequestOnlyKeeps ==
  ASSUME IInv, NEW x \in Gens, NEW p \in PCs \ {"idle"}, pc[x] # "idle", RequestOnly(x, p)
  PROVE  IInv'
<1>1. TypeOK /\ OperationsFit /\ ExposureKept /\ RunningTargetCurrent /\ OperationFits(x)
  BY DEF IInv, OperationsFit
<1>2. snap[x] \in Snap
  BY <1>1 DEF OperationFits
<1>3. Reservation[snap[x].kind] \in Nat
  BY <1>2, ReservationIsNat DEF Snap
<1>4. /\ answer' \in [Gens -> [cost : Nat, ok : BOOLEAN]]
      /\ answer'[x].cost <= Reservation[snap[x].kind]
      /\ \A y \in Gens \ {x} : answer'[y] = answer[y]
  <2>1. CASE answer' = answer
    BY <1>1, <2>1 DEF TypeOK, OperationFits
  <2>2. ASSUME NEW cost \in 0..Reservation[snap[x].kind], NEW ok \in BOOLEAN,
               answer' = [answer EXCEPT ![x] = [cost |-> cost, ok |-> ok]]
        PROVE  /\ answer' \in [Gens -> [cost : Nat, ok : BOOLEAN]]
               /\ answer'[x].cost <= Reservation[snap[x].kind]
               /\ \A y \in Gens \ {x} : answer'[y] = answer[y]
    BY <1>1, <1>3, <2>2 DEF TypeOK
  <2>3. QED
    BY <2>1, <2>2 DEF RequestOnly
<1>5. TypeOK'
  BY <1>1, <1>4 DEF RequestOnly, rows, TypeOK
<1>6. OperationsFit'
  BY <1>1, <1>2, <1>4 DEF RequestOnly, rows, TypeOK, OperationsFit, OperationFits, Accepted
<1>7. ExposureKept'
  BY <1>1 DEF RequestOnly, rows, TypeOK, ExposureKept, AwaitsCost
<1>8. RunningTargetCurrent'
  BY <1>1 DEF RequestOnly, rows, RunningTargetCurrent, UserOf, OnCurrent, Startable
<1>9. QED
  BY <1>5, <1>6, <1>7, <1>8 DEF IInv

LEMMA RequestKeeps ==
  ASSUME IInv, NEW x \in Gens,
         \/ \E cost \in 0..Reservation[snap[x].kind], ok \in BOOLEAN : ProviderReturns(x, cost, ok)
         \/ Crash(x) \/ Locate(x) \/ FinishWithoutUser(x)
  PROVE  IInv'
<1>1. CASE \E cost \in 0..Reservation[snap[x].kind], ok \in BOOLEAN : ProviderReturns(x, cost, ok)
  <2>1. RequestOnly(x, "answered") /\ pc[x] # "idle"
    BY <1>1 DEF ProviderReturns, RequestOnly
  <2>2. QED
    BY <2>1, RequestOnlyKeeps DEF PCs
<1>2. CASE Crash(x)
  <2>1. pc[x] # "idle" /\ OperationFits(x)
    BY <1>2 DEF Crash, IInv, OperationsFit
  <2>2. 0 \in 0..Reservation[snap[x].kind] /\ FALSE \in BOOLEAN
    BY <2>1, ReservationIsNat DEF OperationFits, Snap
  <2>3. RequestOnly(x, "lost")
    BY <1>2, <2>2 DEF Crash, RequestOnly, NoAnswer
  <2>4. QED
    BY <2>1, <2>3, RequestOnlyKeeps DEF PCs
<1>3. CASE Locate(x)
  <2>1. pc[x] # "idle"
    BY <1>3 DEF Locate
  <2>2. PICK p \in {"located", "late"} : RequestOnly(x, p)
    BY <1>3 DEF Locate, RequestOnly
  <2>3. QED
    BY <2>1, <2>2, RequestOnlyKeeps DEF PCs
<1>4. CASE FinishWithoutUser(x)
  <2>1. RequestOnly(x, "done") /\ pc[x] # "idle"
    BY <1>4 DEF FinishWithoutUser, RequestOnly
  <2>2. QED
    BY <2>1, RequestOnlyKeeps DEF PCs
<1>5. QED
  BY <1>1, <1>2, <1>3, <1>4

\* An edit of the content of one goal.
LEMMA EditIsGoal ==
  ASSUME TypeOK, NEW h \in Goals, goal' = [goal EXCEPT ![h].rev = @ + 1]
  PROVE  /\ goal' \in [Goals -> [phase : Phases, epoch : Nat, rev : Nat]]
         /\ \A g \in Goals : goal'[g].phase = goal[g].phase /\ goal'[g].epoch = goal[g].epoch
<1>1. goal \in [Goals -> [phase : Phases, epoch : Nat, rev : Nat]]
  BY DEF TypeOK
<1>2. \A g \in Goals : goal'[g] \in [phase : Phases, epoch : Nat, rev : Nat]
  <2>1. TAKE g \in Goals
  <2>2. /\ goal'[g].phase = goal[g].phase /\ goal'[g].epoch = goal[g].epoch
        /\ goal'[g].rev \in {goal[g].rev, goal[g].rev + 1}
        /\ goal'[g] = [phase |-> goal'[g].phase, epoch |-> goal'[g].epoch, rev |-> goal'[g].rev]
    BY <1>1
  <2>3. QED
    BY <1>1, <2>2
<1>3. QED
  BY <1>1, <1>2

LEMMA ClosedIsUsage ==
  ASSUME TypeOK, NEW x \in Gens,
         usage' = [usage EXCEPT ![x].status = "closed", ![x].final = TRUE]
  PROVE  /\ usage' \in [Gens -> Usage] /\ usage'[x].final = TRUE
         /\ \A y \in Gens \ {x} : usage'[y] = usage[y]
<1>1. usage[x] \in Usage
  BY DEF TypeOK
<1>2. [usage[x] EXCEPT !.status = "closed", !.final = TRUE] \in Usage
  BY <1>1 DEF Usage
<1>3. QED
  BY <1>1, <1>2 DEF TypeOK, Usage

\* What one operation's finalization does to the budget of its month.
LEMMA CostFits ==
  ASSUME IInv, NEW x \in Gens, pc[x] # "idle"
  PROVE  /\ MonthOfGen(x) \in Months /\ snap[x] \in Snap
         /\ answer[x].cost \in 0..Reservation[snap[x].kind]
         /\ Reservation[snap[x].kind] \in Nat
         /\ ActualWith(x) \in [Months -> Nat]
<1>1. TypeOK /\ OperationFits(x)
  BY DEF IInv, OperationsFit
<1>2. snap[x] \in Snap /\ answer[x].cost \in Nat /\ answer[x].cost <= Reservation[snap[x].kind]
  BY <1>1 DEF OperationFits, TypeOK
<1>3. Reservation[snap[x].kind] \in Nat /\ MonthOfGen(x) \in Months
  BY <1>2, AIAssumption DEF Snap, MonthOfGen
<1>4. QED
  BY <1>1, <1>2, <1>3 DEF ActualWith, TypeOK

LEMMA FinishNormallyKeeps ==
  ASSUME IInv, NEW x \in Gens, FinishNormally(x)
  PROVE  IInv'
<1> DEFINE m == MonthOfGen(x)
           r == Reservation[snap[x].kind]
<1>1. TypeOK /\ OperationsFit /\ ExposureKept /\ RunningTargetCurrent
  BY DEF IInv
<1>2. /\ m \in Months /\ snap[x] \in Snap /\ r \in Nat /\ ActualWith(x) \in [Months -> Nat]
      /\ pc[x] = "located"
  BY CostFits DEF FinishNormally
<1>3. PICK s \in {"succeeded", "failed"} : gen' = [gen EXCEPT ![x] = s]
  BY DEF FinishNormally
<1>4. /\ goal' \in [Goals -> [phase : Phases, epoch : Nat, rev : Nat]]
      /\ \A g \in Goals : goal'[g].phase = goal[g].phase /\ goal'[g].epoch = goal[g].epoch
  <2>1. goal' = goal \/ goal' = [goal EXCEPT ![snap[x].goal].rev = @ + 1]
    BY DEF FinishNormally
  <2>2. QED
    <3>1. snap[x].goal \in Goals
      BY <1>2 DEF Snap
    <3>2. CASE goal' = goal
      BY <1>1, <3>2 DEF TypeOK
    <3>3. QED
      BY <1>1, <2>1, <3>1, <3>2, EditIsGoal
<1>5. reserved' \in [Months -> Nat]
  BY <1>1, <1>2 DEF FinishNormally, TypeOK
<1>6. /\ usage' \in [Gens -> Usage] /\ usage'[x].final = TRUE
      /\ \A y \in Gens \ {x} : usage'[y] = usage[y]
  BY <1>1, ClosedIsUsage DEF FinishNormally, TypeOK
<1>7. TypeOK'
  BY <1>1, <1>2, <1>3, <1>4, <1>5, <1>6 DEF FinishNormally, TypeOK, GenStatuses, PCs
<1>8. OperationsFit'
  BY <1>1, <1>2, <1>3, <1>6
     DEF FinishNormally, TypeOK, OperationsFit, OperationFits, Accepted
<1>9. ExposureKept'
  BY <1>1, <1>2, <1>6 DEF FinishNormally, TypeOK, ExposureKept, AwaitsCost
<1>10. RunningTargetCurrent'
  <2>1. \A y \in Gens : gen'[y] = "running" => gen[y] = "running" /\ snap[y] \in Snap
    BY <1>1, <1>3 DEF TypeOK, OperationsFit, OperationFits
  <2>2. userRow' = userRow /\ snap' = snap
    BY DEF FinishNormally
  <2>3. ASSUME NEW y \in Gens, gen'[y] = "running"
        PROVE  /\ userRow'[UserOf(y)'] /\ OnCurrent(y)'
               /\ Startable(snap[y].kind, snap[y].goal)'
    <3>1. snap[y].goal \in Goals
      BY <2>1, <2>3 DEF Snap
    <3>2. /\ goal'[snap[y].goal].phase = goal[snap[y].goal].phase
          /\ goal'[snap[y].goal].epoch = goal[snap[y].goal].epoch
      BY <1>4, <3>1
    <3>3. userRow[UserOf(y)] /\ OnCurrent(y) /\ Startable(snap[y].kind, snap[y].goal)
      BY <1>1, <2>1, <2>3 DEF RunningTargetCurrent
    <3>4. QED
      BY <2>2, <3>2, <3>3 DEF UserOf, OnCurrent, Startable
  <2>4. ASSUME NEW y \in Gens, NEW z \in Gens, gen'[y] = "running", gen'[z] = "running",
               snap'[z].goal = snap'[y].goal
        PROVE  z = y
    BY <1>1, <2>1, <2>2, <2>4 DEF RunningTargetCurrent
  <2>5. QED
    BY <2>2, <2>3, <2>4 DEF RunningTargetCurrent
<1>11. QED
  BY <1>7, <1>8, <1>9, <1>10 DEF IInv

LEMMA SettleLateKeeps ==
  ASSUME IInv, NEW x \in Gens, SettleLate(x)
  PROVE  IInv' /\ gen[x] # "running"
<1>1. TypeOK /\ OperationsFit /\ ExposureKept /\ RunningTargetCurrent
  BY DEF IInv
<1>2. /\ pc[x] # "idle" /\ snap[x] \in Snap /\ ActualWith(x) \in [Months -> Nat]
  BY CostFits DEF SettleLate
<1>3. gen[x] # "running"
  BY <1>1 DEF SettleLate, OperationsFit, OperationFits, RunningTargetCurrent, LocksHold
<1>4. TypeOK'
  <2>1. usage' \in [Gens -> Usage] /\ actual' \in [Months -> Nat]
    <3>1. CASE AwaitsCost(x)
      BY <1>1, <1>2, <3>1, ClosedIsUsage DEF SettleLate
    <3>2. CASE ~AwaitsCost(x)
      BY <1>1, <3>2 DEF SettleLate, TypeOK
    <3>3. QED
      BY <3>1, <3>2
  <2>2. pc' \in [Gens -> PCs] /\ fate' \in [Gens -> {"open", "charged", "late", "absorbed"}]
    BY <1>1 DEF SettleLate, TypeOK, PCs
  <2>3. QED
    BY <1>1, <2>1, <2>2 DEF SettleLate, TypeOK
<1>5. OperationsFit'
  <2>1. /\ pc'[x] = "done" /\ gen' = gen /\ snap' = snap /\ answer' = answer
        /\ \A y \in Gens \ {x} : /\ pc'[y] = pc[y] /\ usage'[y] = usage[y]
                                 /\ fate'[y] = fate[y]
    BY <1>1 DEF SettleLate, TypeOK
  <2>2. OperationFits(x)'
    BY <1>1, <1>2, <1>3, <2>1 DEF OperationsFit, OperationFits
  <2>3. ASSUME NEW y \in Gens \ {x} PROVE OperationFits(y)'
    BY <1>1, <2>1 DEF OperationsFit, OperationFits, Accepted
  <2>4. QED
    BY <2>2, <2>3 DEF OperationsFit
<1>6. ExposureKept'
  BY <1>1, <1>2 DEF SettleLate, TypeOK, Usage, ExposureKept, AwaitsCost
<1>7. RunningTargetCurrent'
  BY <1>1 DEF SettleLate, RunningTargetCurrent, UserOf, OnCurrent, Startable
<1>8. QED
  BY <1>3, <1>4, <1>5, <1>6, <1>7 DEF IInv

-----------------------------------------------------------------------------
(***************************************************************************)
(* Transitions of drafts, cycles and goals                                 *)
(***************************************************************************)

\* A transition of the targets of the operations: it leaves the requests, the
\* costs that are awaited and the targets of what still runs alone.
TargetStep ==
    /\ goal' \in [Goals -> [phase : Phases, epoch : Nat, rev : Nat]]
    /\ gen' \in [Gens -> GenStatuses]
    /\ usage' \in [Gens -> Usage]
    /\ reserved' \in [Months -> Nat]
    /\ UNCHANGED <<now, userRow, actual, unattributed, request, fate>>
    /\ \A x \in Gens :
          /\ pc[x] = "idle" => gen'[x] = gen[x] /\ usage'[x] = usage[x]
          /\ AwaitsCost(x)' <=> AwaitsCost(x)
          /\ gen'[x] = "running" =>
                /\ gen[x] = "running"
                /\ usage'[x].status = usage[x].status /\ usage'[x].final = usage[x].final
                /\ goal'[snap[x].goal].phase = goal[snap[x].goal].phase
                /\ goal'[snap[x].goal].epoch = goal[snap[x].goal].epoch

LEMMA TargetStepKeeps == IInv /\ TargetStep => IInv'
<1> SUFFICES ASSUME IInv, TargetStep PROVE IInv'
  OBVIOUS
<1>1. TypeOK /\ OperationsFit /\ ExposureKept /\ RunningTargetCurrent
  BY DEF IInv
<1>2. TypeOK'
  BY <1>1 DEF TargetStep, request, TypeOK
<1>3. OperationsFit'
  BY <1>1 DEF TargetStep, request, OperationsFit, OperationFits, Accepted
<1>4. ExposureKept'
  BY <1>1 DEF TargetStep, request, ExposureKept
<1>5. RunningTargetCurrent'
  BY <1>1 DEF TargetStep, request, RunningTargetCurrent, UserOf, OnCurrent, Startable
<1>6. QED
  BY <1>2, <1>3, <1>4, <1>5 DEF IInv

\* Only an accepted operation has a generation or a usage event.
LEMMA RowsAreAccepted ==
  ASSUME IInv, NEW x \in Gens, gen[x] # "absent" \/ usage[x].status # "absent"
  PROVE  pc[x] # "idle" /\ snap[x] \in Snap /\ UserOf(x) \in Users
<1>1. OperationFits(x)
  BY DEF IInv, OperationsFit
<1>2. pc[x] # "idle" /\ snap[x] \in Snap
  BY <1>1 DEF OperationFits, NoUsage
<1>3. QED
  BY <1>2, AIAssumption DEF UserOf, Snap

\* A transition that only replaces the target of g, on which nothing runs.
LEMMA OneGoalStep ==
  ASSUME IInv, NEW g \in Goals, NEW w \in [phase : Phases, epoch : Nat, rev : Nat],
         goal' = [goal EXCEPT ![g] = w],
         \/ w.phase = goal[g].phase /\ w.epoch = goal[g].epoch
         \/ RunningOn(g) = {}
  PROVE  /\ goal' \in [Goals -> [phase : Phases, epoch : Nat, rev : Nat]]
         /\ \A x \in Gens : gen[x] = "running" =>
               /\ goal'[snap[x].goal].phase = goal[snap[x].goal].phase
               /\ goal'[snap[x].goal].epoch = goal[snap[x].goal].epoch
<1>1. goal \in [Goals -> [phase : Phases, epoch : Nat, rev : Nat]]
  BY DEF IInv, TypeOK
<1>2. ASSUME NEW x \in Gens, gen[x] = "running"
      PROVE  snap[x].goal \in Goals /\ (snap[x].goal = g => RunningOn(g) # {})
  BY <1>2, RowsAreAccepted DEF RunningOn, Snap
<1>3. QED
  BY <1>1, <1>2

\* The shapes in which the actions write one goal.
LEMMA GoalWrites ==
  ASSUME IInv, NEW g \in Goals
  PROVE  /\ \A p \in Phases : \E w \in [phase : Phases, epoch : Nat, rev : Nat] :
               [goal EXCEPT ![g].phase = p] = [goal EXCEPT ![g] = w]
         /\ \A p \in Phases : Moves(g, p) =>
               \E w \in [phase : Phases, epoch : Nat, rev : Nat] : goal' = [goal EXCEPT ![g] = w]
         /\ \E w \in [phase : Phases, epoch : Nat, rev : Nat] :
               /\ [goal EXCEPT ![g].rev = @ + 1] = [goal EXCEPT ![g] = w]
               /\ w.phase = goal[g].phase /\ w.epoch = goal[g].epoch
<1>1. goal[g] \in [phase : Phases, epoch : Nat, rev : Nat]
  BY DEF IInv, TypeOK
<1>2. \A p \in Phases : /\ [goal[g] EXCEPT !.phase = p] \in [phase : Phases, epoch : Nat, rev : Nat]
                         /\ [phase |-> p, epoch |-> goal[g].epoch + 1, rev |-> 0]
                               \in [phase : Phases, epoch : Nat, rev : Nat]
  BY <1>1
<1>3. /\ [goal[g] EXCEPT !.rev = @ + 1] \in [phase : Phases, epoch : Nat, rev : Nat]
      /\ [goal[g] EXCEPT !.rev = @ + 1].phase = goal[g].phase
      /\ [goal[g] EXCEPT !.rev = @ + 1].epoch = goal[g].epoch
  BY <1>1
<1>4. QED
  BY <1>2, <1>3 DEF Moves

\* A usage event that is kept or deleted still says whether it awaits its cost.
LEMMA ScrubbedFits ==
  ASSUME TypeOK, NEW x \in Gens, NEW t
  PROVE  /\ Scrubbed(x, t) \in Usage
         /\ Scrubbed(x, t).status # "absent" /\ ~Scrubbed(x, t).final <=> AwaitsCost(x)
<1>1. usage[x] \in Usage
  BY DEF TypeOK
<1>2. [usage[x] EXCEPT !.goalId = NoGoal, !.redacted = TRUE] \in Usage
  BY <1>1 DEF Usage
<1>3. NoUsage \in Usage
  BY DEF NoUsage, Usage
<1>4. QED
  BY <1>1, <1>2, <1>3 DEF Scrubbed, AwaitsCost, Usage, NoUsage

LEMMA AttachedFits ==
  ASSUME IInv, NEW g \in Goals, RunningOn(g) = {}, usage' = Attached(g)
  PROVE  /\ usage' \in [Gens -> Usage]
         /\ \A x \in Gens :
              /\ AwaitsCost(x)' <=> AwaitsCost(x)
              /\ pc[x] = "idle" => usage'[x] = usage[x]
              /\ gen[x] = "running" => usage'[x] = usage[x]
<1>1. usage \in [Gens -> Usage]
  BY DEF IInv, TypeOK
<1>2. \A x \in Gens : [usage[x] EXCEPT !.goalId = g] \in Usage
  BY <1>1 DEF Usage
<1>3. \A x \in Gens : pc[x] = "idle" \/ gen[x] = "running" => x \notin DraftGens(g)
  BY RowsAreAccepted DEF DraftGens, RunningOn
<1>4. \A x \in Gens : usage'[x] = usage[x] \/ usage'[x] = [usage[x] EXCEPT !.goalId = g]
  BY DEF Attached
<1>5. QED
  BY <1>1, <1>2, <1>3, <1>4 DEF Attached, AwaitsCost, Usage

LEMMA DropFits ==
  ASSUME IInv, NEW g \in Goals, NEW t, RunningOn(g) = {}, DropDraftGens(g, t)
  PROVE  /\ gen' \in [Gens -> GenStatuses] /\ usage' \in [Gens -> Usage]
         /\ \A x \in Gens :
              /\ AwaitsCost(x)' <=> AwaitsCost(x)
              /\ pc[x] = "idle" => gen'[x] = gen[x] /\ usage'[x] = usage[x]
              /\ gen'[x] = "running" => gen[x] = "running" /\ usage'[x] = usage[x]
<1>1. TypeOK
  BY DEF IInv
<1>2. gen' \in [Gens -> GenStatuses]
  BY <1>1 DEF DropDraftGens, TypeOK, GenStatuses
<1>3. usage' \in [Gens -> Usage]
  BY <1>1, ScrubbedFits DEF DropDraftGens, TypeOK
<1>4. \A x \in Gens : AwaitsCost(x)' <=> AwaitsCost(x)
  BY <1>1, ScrubbedFits DEF DropDraftGens, AwaitsCost
<1>5. \A x \in Gens : pc[x] = "idle" => x \notin DraftGens(g)
  BY RowsAreAccepted DEF DraftGens
<1>6. QED
  BY <1>2, <1>3, <1>4, <1>5 DEF DropDraftGens

LEMMA GoalTransitionKeeps ==
  ASSUME IInv, NEW g \in Goals, NEW t \in Readings,
         \/ CreateDraft(g) \/ StartGoal(g) \/ AbandonDraft(g, t) \/ CompleteCycle(g)
         \/ ReplanCycle(g) \/ ContinueReview(g) \/ Terminate(g, t)
  PROVE  TargetStep
<1>1. TypeOK /\ RunningTargetCurrent
  BY DEF IInv
<1>2. RunningOn(g) = {}
  BY <1>1 DEF CreateDraft, StartGoal, AbandonDraft, CompleteCycle, ReplanCycle,
              ContinueReview, Terminate, RunningOn, RunningTargetCurrent, OnCurrent
<1>3. \E w \in [phase : Phases, epoch : Nat, rev : Nat] : goal' = [goal EXCEPT ![g] = w]
  <2>1. \E p \in Phases : Moves(g, p) \/ goal' = [goal EXCEPT ![g].phase = p]
    BY DEF CreateDraft, StartGoal, AbandonDraft, CompleteCycle, ReplanCycle,
           ContinueReview, Terminate, Phases
  <2>2. PICK p \in Phases : Moves(g, p) \/ goal' = [goal EXCEPT ![g].phase = p]
    BY <2>1
  <2>3. CASE Moves(g, p)
    BY <2>3, GoalWrites
  <2>4. CASE goal' = [goal EXCEPT ![g].phase = p]
    <3>1. \A q \in Phases : \E w \in [phase : Phases, epoch : Nat, rev : Nat] :
             [goal EXCEPT ![g].phase = q] = [goal EXCEPT ![g] = w]
      BY GoalWrites, Zenon
    <3>2. PICK w \in [phase : Phases, epoch : Nat, rev : Nat] :
             [goal EXCEPT ![g].phase = p] = [goal EXCEPT ![g] = w]
      BY <3>1, Zenon
    <3>3. QED
      BY <2>4, <3>2, Zenon
  <2>5. QED
    BY <2>2, <2>3, <2>4
<1>4. /\ goal' \in [Goals -> [phase : Phases, epoch : Nat, rev : Nat]]
      /\ \A x \in Gens : gen[x] = "running" =>
            /\ goal'[snap[x].goal].phase = goal[snap[x].goal].phase
            /\ goal'[snap[x].goal].epoch = goal[snap[x].goal].epoch
  BY <1>2, <1>3, OneGoalStep
<1>5. /\ gen' \in [Gens -> GenStatuses] /\ usage' \in [Gens -> Usage]
      /\ \A x \in Gens :
            /\ AwaitsCost(x)' <=> AwaitsCost(x)
            /\ pc[x] = "idle" => gen'[x] = gen[x] /\ usage'[x] = usage[x]
            /\ gen'[x] = "running" => gen[x] = "running" /\ usage'[x] = usage[x]
  <2>1. CASE gen' = gen /\ usage' = usage
    BY <1>1, <2>1 DEF TypeOK, AwaitsCost
  <2>2. CASE gen' = gen /\ usage' = Attached(g)
    BY <1>1, <1>2, <2>2, AttachedFits DEF TypeOK
  <2>3. CASE DropDraftGens(g, t)
    BY <1>2, <2>3, DropFits
  <2>4. QED
    BY <2>1, <2>2, <2>3 DEF CreateDraft, StartGoal, AbandonDraft, CompleteCycle, ReplanCycle,
                            ContinueReview, Terminate
<1>6. UNCHANGED <<now, userRow, actual, unattributed, request, fate, reserved>>
  BY DEF CreateDraft, StartGoal, AbandonDraft, CompleteCycle, ReplanCycle, ContinueReview, Terminate
<1>7. QED
  BY <1>1, <1>4, <1>5, <1>6 DEF TargetStep, TypeOK

LEMMA EditKeeps ==
  ASSUME IInv,
         \/ \E g \in Goals, frame \in {"action", "other"} : SaveContent(g, frame)
         \/ \E x \in Gens : AdoptGoalSuggestion(x)
  PROVE  TargetStep
<1>1. TypeOK
  BY DEF IInv
<1>2. PICK g \in Goals : goal' = [goal EXCEPT ![g].rev = @ + 1]
  <2>1. CASE \E g \in Goals, frame \in {"action", "other"} : SaveContent(g, frame)
    BY <2>1 DEF SaveContent
  <2>2. CASE \E x \in Gens : AdoptGoalSuggestion(x)
    BY <2>2, RowsAreAccepted DEF AdoptGoalSuggestion, Snap
  <2>3. QED
    BY <2>1, <2>2
<1>3. /\ goal' \in [Goals -> [phase : Phases, epoch : Nat, rev : Nat]]
      /\ \A x \in Gens : gen[x] = "running" =>
            /\ goal'[snap[x].goal].phase = goal[snap[x].goal].phase
            /\ goal'[snap[x].goal].epoch = goal[snap[x].goal].epoch
  <2>1. PICK w \in [phase : Phases, epoch : Nat, rev : Nat] :
           /\ goal' = [goal EXCEPT ![g] = w]
           /\ w.phase = goal[g].phase /\ w.epoch = goal[g].epoch
    BY <1>2, GoalWrites
  <2>2. QED
    BY <2>1, OneGoalStep
<1>4. /\ gen' \in [Gens -> GenStatuses]
      /\ \A x \in Gens : /\ pc[x] = "idle" => gen'[x] = gen[x]
                         /\ gen'[x] = "running" => gen[x] = "running"
  BY <1>1, RowsAreAccepted, ZenonT(40) DEF SaveContent, AdoptGoalSuggestion, TypeOK, GenStatuses
<1>5. UNCHANGED <<now, userRow, usage, reserved, actual, unattributed, request, fate>>
  BY DEF SaveContent, AdoptGoalSuggestion
<1>6. QED
  BY <1>1, <1>3, <1>4, <1>5 DEF TargetStep, TypeOK, AwaitsCost

LEMMA DeleteGoalKeeps ==
  ASSUME IInv, NEW g \in Goals, NEW t \in Readings, DeleteGoal(g, t)
  PROVE  TargetStep
<1> DEFINE R == RunningOn(g)
<1>1. TypeOK /\ R \in SUBSET Gens
  BY DEF IInv, RunningOn
<1>2. reserved' \in [Months -> Nat]
  BY <1>1, ReservedFits DEF DeleteGoal
<1>3. gen' \in [Gens -> GenStatuses]
  BY <1>1 DEF DeleteGoal, TypeOK, GenStatuses
<1>4. \A x \in R : /\ [usage[x] EXCEPT !.goalId = NoGoal, !.status = "closed", !.redacted = TRUE] \in Usage
                   /\ [usage[x] EXCEPT !.goalId = NoGoal, !.status = "closed",
                                       !.redacted = TRUE].status = "closed"
                   /\ [usage[x] EXCEPT !.goalId = NoGoal, !.status = "closed",
                                       !.redacted = TRUE].final = usage[x].final
                   /\ usage[x].status = "accepted"
  <2> TAKE x \in R
  <2>1. usage[x] \in Usage
    BY <1>1 DEF TypeOK
  <2>2. usage[x].status = "accepted"
    BY DEF DeleteGoal, Accepted
  <2>3. QED
    BY <2>1, <2>2 DEF Usage
<1>5. usage' \in [Gens -> Usage]
  BY <1>1, <1>4, ScrubbedFits DEF DeleteGoal, TypeOK
<1>6. \A x \in Gens : AwaitsCost(x)' <=> AwaitsCost(x)
  BY <1>1, <1>4, ScrubbedFits DEF DeleteGoal, AwaitsCost
<1>7. ASSUME NEW x \in Gens, pc[x] = "idle" PROVE gen'[x] = gen[x] /\ usage'[x] = usage[x]
  BY <1>7, RowsAreAccepted DEF DeleteGoal, RunningOn
<1>8. goal[g] \in [phase : Phases, epoch : Nat, rev : Nat]
  BY <1>1 DEF TypeOK
<1>9. goal' \in [Goals -> [phase : Phases, epoch : Nat, rev : Nat]]
  BY <1>1, <1>8 DEF DeleteGoal, TypeOK, Phases
<1>10. ASSUME NEW x \in Gens, gen'[x] = "running"
       PROVE  gen[x] = "running" /\ snap[x].goal # g /\ snap[x].goal \in Goals
  BY <1>1, <1>10, RowsAreAccepted DEF DeleteGoal, TypeOK, Snap
<1>11. ASSUME NEW x \in Gens, gen'[x] = "running"
       PROVE  /\ usage'[x].status = usage[x].status /\ usage'[x].final = usage[x].final
  <2>1. Accepted(x) /\ x \notin R
    BY <1>10, <1>11 DEF IInv, OperationsFit, OperationFits, RunningOn
  <2>2. Scrubbed(x, t).status = usage[x].status /\ Scrubbed(x, t).final = usage[x].final
    BY <1>1, <2>1 DEF Scrubbed, Accepted, TypeOK, Usage
  <2>3. QED
    BY <2>1, <2>2 DEF DeleteGoal
<1>12. QED
  BY <1>1, <1>2, <1>3, <1>5, <1>6, <1>7, <1>9, <1>10, <1>11 DEF TargetStep, DeleteGoal, TypeOK

\* Retention cleanup, and the clock.
LEMMA CleanupKeeps ==
  ASSUME IInv, NEW t \in Readings, Cleanup(t)
  PROVE  TargetStep
<1>1. TypeOK /\ OperationsFit
  BY DEF IInv
<1>2. PICK S \in SUBSET {x \in Gens : Removable(x, t)} :
         usage' = [x \in Gens |-> IF x \in S THEN NoUsage ELSE usage[x]]
  BY DEF Cleanup
<1>3. \A x \in S : usage[x].status # "absent" /\ usage[x].final
  BY <1>2 DEF Removable
<1>4. usage' \in [Gens -> Usage]
  BY <1>1, <1>2 DEF TypeOK, NoUsage, Usage
<1>5. \A x \in Gens : /\ gen[x] = "running" => x \notin S
                      /\ pc[x] = "idle" => x \notin S
                      /\ AwaitsCost(x)' <=> AwaitsCost(x)
  BY <1>1, <1>2, <1>3, RowsAreAccepted DEF OperationsFit, OperationFits, Accepted, AwaitsCost, NoUsage
<1>6. QED
  BY <1>1, <1>2, <1>4, <1>5 DEF TargetStep, Cleanup, TypeOK

LEMMA TickKeeps == IInv /\ Tick => IInv'
<1> SUFFICES ASSUME IInv, Tick PROVE IInv'
  OBVIOUS
<1>1. now' \in Times
  BY AIAssumption DEF IInv, TypeOK, Tick, Times
<1>2. QED
  BY <1>1 DEF Tick, rows, request, IInv, TypeOK, OperationsFit, OperationFits, Accepted, ExposureKept,
              AwaitsCost, RunningTargetCurrent, UserOf, OnCurrent, Startable

LEMMA DeleteAccountKeeps ==
  ASSUME IInv, NEW u \in Users, DeleteAccount(u)
  PROVE  IInv'
<1> DEFINE Mine == {x \in Gens : pc[x] # "idle" /\ UserOf(x) = u}
           R == {x \in Mine : gen[x] = "running"}
           Exposed == ReleasedExposures(Mine)
<1>1. /\ TypeOK /\ OperationsFit /\ ExposureKept /\ RunningTargetCurrent
      /\ R \in SUBSET Gens /\ Exposed \in SUBSET Gens
  BY DEF IInv, ReleasedExposures
<1>2. \A m \in Months : SumReservations(R, m) \in Nat /\ SumReservations(Exposed, m) \in Nat
  BY <1>1, SumIsNat
<1>3. reserved' \in [Months -> Nat] /\ unattributed' \in [Months -> Nat]
  <2>1. reserved' \in [Months -> Nat]
    BY <1>1, ReservedFits DEF DeleteAccount
  <2>2. unattributed' = [m \in Months |->
            unattributed[m] + SumReservations(R, m) + SumReservations(Exposed, m)]
    BY DEF DeleteAccount
  <2>3. unattributed \in [Months -> Nat]
    BY <1>1 DEF TypeOK
  <2>4. \A a, b, c \in Nat : a + b + c \in Nat
    OBVIOUS
  <2> HIDE DEF R, Exposed
  <2>5. QED
    BY <1>2, <2>1, <2>2, <2>3, <2>4
<1>4. goal' \in [Goals -> [phase : Phases, epoch : Nat, rev : Nat]]
  <2>1. \A g \in Goals : [goal[g] EXCEPT !.phase = "gone"] \in [phase : Phases, epoch : Nat, rev : Nat]
    BY <1>1 DEF TypeOK, Phases
  <2>2. QED
    BY <1>1, <2>1 DEF DeleteAccount, TypeOK
<1>5. usage' \in [Gens -> Usage]
  BY <1>1 DEF DeleteAccount, TypeOK, NoUsage, Usage
<1>6. gen' \in [Gens -> GenStatuses] /\ fate' \in [Gens -> {"open", "charged", "late", "absorbed"}]
  BY <1>1 DEF DeleteAccount, TypeOK, GenStatuses
<1>7. TypeOK'
  BY <1>1, <1>3, <1>4, <1>5, <1>6 DEF DeleteAccount, request, TypeOK
<1>8. \A x \in Gens : /\ x \in R \/ x \in Exposed <=> x \in Mine /\ AwaitsCost(x)
                      /\ snap'[x] = snap[x] /\ pc'[x] = pc[x]
                      /\ gen'[x] = IF x \in Mine THEN "absent" ELSE gen[x]
                      /\ usage'[x] = IF x \in Mine THEN NoUsage ELSE usage[x]
                      /\ fate'[x] = IF x \in R \cup Exposed THEN "absorbed" ELSE fate[x]
  BY <1>1 DEF DeleteAccount, request, OperationsFit, OperationFits, Accepted, AwaitsCost,
              ReleasedExposures
<1>9. OperationsFit'
  BY <1>1, <1>8 DEF DeleteAccount, request, OperationsFit, OperationFits, Accepted
<1>10. ExposureKept'
  <2>1. SUFFICES ASSUME NEW x \in Gens, pc[x] # "idle"
                 PROVE  fate'[x] = "open" <=> AwaitsCost(x)'
    BY <1>8 DEF ExposureKept
  <2>2. fate[x] = "open" <=> AwaitsCost(x)
    BY <1>1, <2>1 DEF ExposureKept
  <2>3. CASE x \in Mine
    <3>1. usage'[x] = NoUsage /\ fate'[x] = IF x \in R \cup Exposed THEN "absorbed" ELSE fate[x]
      BY <1>8, <2>3
    <3>2. ~AwaitsCost(x)'
      BY <3>1 DEF AwaitsCost, NoUsage
    <3>3. AwaitsCost(x) => x \in R \cup Exposed
      BY <1>8, <2>3
    <3>4. QED
      BY <2>2, <3>1, <3>2, <3>3
  <2>4. CASE x \notin Mine
    BY <1>8, <2>2, <2>4 DEF AwaitsCost
  <2>5. QED
    BY <2>3, <2>4
<1>11. RunningTargetCurrent'
  <2>1. ASSUME NEW x \in Gens, gen'[x] = "running"
        PROVE  /\ gen[x] = "running" /\ Owner[snap[x].goal] # u
               /\ snap[x].goal \in Goals /\ UserOf(x) \in Users
    BY <1>8, <2>1, RowsAreAccepted DEF UserOf, Snap
  <2>2. ASSUME NEW x \in Gens, gen'[x] = "running"
        PROVE  goal'[snap[x].goal] = goal[snap[x].goal] /\ userRow'[UserOf(x)] = userRow[UserOf(x)]
    BY <1>1, <2>1, <2>2 DEF DeleteAccount, UserOf, TypeOK
  <2>3. QED
    <3>1. SUFFICES ASSUME NEW x \in Gens, gen'[x] = "running"
                   PROVE  /\ userRow[UserOf(x)]' /\ OnCurrent(x)'
                          /\ Startable(snap[x].kind, snap[x].goal)'
                          /\ \A y \in Gens :
                                gen'[y] = "running" /\ snap'[y].goal = snap'[x].goal => y = x
      BY DEF RunningTargetCurrent
    <3>2. snap' = snap
      BY DEF DeleteAccount, request
    <3>3. QED
      BY <1>1, <2>1, <2>2, <3>1, <3>2 DEF RunningTargetCurrent, UserOf, OnCurrent, Startable
<1>12. QED
  BY <1>7, <1>9, <1>10, <1>11 DEF IInv

-----------------------------------------------------------------------------
(***************************************************************************)
(* The inductive invariant                                                 *)
(***************************************************************************)

LEMMA RequestStepKeeps ==
  ASSUME IInv, NEW x \in Gens, RequestStep(x)
  PROVE  IInv'
<1>1. CASE FinishNormally(x)
  BY <1>1, FinishNormallyKeeps
<1>2. CASE SettleLate(x)
  BY <1>2, SettleLateKeeps
<1>3. CASE \/ \E cost \in 0..Reservation[snap[x].kind], ok \in BOOLEAN : ProviderReturns(x, cost, ok)
           \/ Locate(x) \/ FinishWithoutUser(x)
  BY <1>3, RequestKeeps
<1>4. QED
  BY <1>1, <1>2, <1>3 DEF RequestStep

\* The steps that touch the targets only.
TargetsNext ==
    \/ \E x \in Gens : AdoptGoalSuggestion(x)
    \/ \E g \in Goals : CreateDraft(g)
    \/ \E g \in Goals, frame \in {"action", "other"} : SaveContent(g, frame)
    \/ \E g \in Goals : StartGoal(g)
    \/ \E g \in Goals, t \in Readings : AbandonDraft(g, t)
    \/ \E g \in Goals : CompleteCycle(g)
    \/ \E g \in Goals : ReplanCycle(g)
    \/ \E g \in Goals : ContinueReview(g)
    \/ \E g \in Goals, t \in Readings : Terminate(g, t)
    \/ \E g \in Goals, t \in Readings : DeleteGoal(g, t)
    \/ \E t \in Readings : Cleanup(t)

LEMMA TargetsNextIsTargetStep == IInv /\ TargetsNext => TargetStep
<1> SUFFICES ASSUME IInv, TargetsNext PROVE TargetStep
  OBVIOUS
<1>1. now \in Readings
  BY AIAssumption DEF IInv, TypeOK, Readings, Times
<1>2. CASE \/ \E g \in Goals, frame \in {"action", "other"} : SaveContent(g, frame)
           \/ \E x \in Gens : AdoptGoalSuggestion(x)
  BY <1>2, EditKeeps
<1>3. CASE \E g \in Goals, t \in Readings : DeleteGoal(g, t)
  BY <1>3, DeleteGoalKeeps
<1>4. CASE \E t \in Readings : Cleanup(t)
  BY <1>4, CleanupKeeps
<1>5. CASE \E g \in Goals : \/ CreateDraft(g) \/ StartGoal(g) \/ CompleteCycle(g)
                            \/ ReplanCycle(g) \/ ContinueReview(g)
  BY <1>1, <1>5, GoalTransitionKeeps
<1>6. CASE \E g \in Goals, t \in Readings : AbandonDraft(g, t) \/ Terminate(g, t)
  BY <1>6, GoalTransitionKeeps
<1>7. QED
  BY <1>2, <1>3, <1>4, <1>5, <1>6 DEF TargetsNext

\* Next, by the parts the proofs treat together.
LEMMA NextCases ==
  ASSUME Next
  PROVE  \/ \E x \in Gens, g \in Goals, k \in Kinds, t \in Readings : Begin(x, g, k, t)
         \/ \E x \in Gens, t \in Readings : Replay(x, t)
         \/ \E x \in Gens : pc[x] # "idle" /\ RequestStep(x)
         \/ \E x \in Gens : Crash(x)
         \/ TargetsNext
         \/ \E u \in Users : DeleteAccount(u)
         \/ Tick
BY Zenon DEF Next, TargetsNext

LEMMA StutterKeeps == IInv /\ UNCHANGED vars => IInv'
BY DEF vars, IInv, TypeOK, OperationsFit, OperationFits, Accepted, ExposureKept, AwaitsCost,
       RunningTargetCurrent, UserOf, OnCurrent, Startable

LEMMA NextKeepsIInv == IInv /\ [Next]_vars => IInv'
<1> SUFFICES ASSUME IInv, [Next]_vars PROVE IInv'
  OBVIOUS
<1>1. CASE \E x \in Gens, g \in Goals, k \in Kinds, t \in Readings : Begin(x, g, k, t)
  BY <1>1, BeginKeeps
<1>2. CASE \E x \in Gens, t \in Readings : Replay(x, t)
  BY <1>2, ReplayKeeps
<1>3. CASE \E x \in Gens : pc[x] # "idle" /\ RequestStep(x)
  BY <1>3, RequestStepKeeps
<1>4. CASE \E x \in Gens : Crash(x)
  BY <1>4, RequestKeeps
<1>5. CASE TargetsNext
  BY <1>5, TargetsNextIsTargetStep, TargetStepKeeps
<1>6. CASE \E u \in Users : DeleteAccount(u)
  BY <1>6, DeleteAccountKeeps
<1>7. CASE Tick
  BY <1>7, TickKeeps
<1>8. CASE UNCHANGED vars
  BY <1>8, StutterKeeps
<1>9. QED
  BY <1>1, <1>2, <1>3, <1>4, <1>5, <1>6, <1>7, <1>8, NextCases

LEMMA SpecKeepsIInv == Spec => []IInv
BY InitIsIInv, NextKeepsIInv, PTL DEF Spec

\* Every row, budget column and request of the AI operations keeps its type;
\* above all no reserved, actual or unattributed amount ever becomes negative.
THEOREM OperationTypeCorrect == Spec => []TypeOK
<1>1. IInv => TypeOK
  BY DEF IInv
<1>2. QED
  BY <1>1, SpecKeepsIInv, PTL

\* As long as the cost of an accepted operation is unknown, its usage event is
\* there to receive it, and once it is counted no event waits for it any more.
THEOREM ExposureAlwaysKept == Spec => []ExposureKept
<1>1. IInv => ExposureKept
  BY DEF IInv
<1>2. QED
  BY <1>1, SpecKeepsIInv, PTL

\* A running generation is the only one of its goal, and is about the current
\* draft or active cycle of a living user.
THEOREM RunningTargetAlwaysCurrent == Spec => []RunningTargetCurrent
<1>1. IInv => RunningTargetCurrent
  BY DEF IInv
<1>2. QED
  BY <1>1, SpecKeepsIInv, PTL

-----------------------------------------------------------------------------
(***************************************************************************)
(* The rolling quota. The quota is counted over usage events, which clean- *)
(* up and deletions remove, at clock readings that are up to Skew old. The *)
(* event of a living user's operation is missing only once no reading that *)
(* is still in use can count it, as long as Skew is at most the margin.    *)
(***************************************************************************)

EventsRetained ==
    \A x \in Gens :
        pc[x] # "idle" /\ userRow[UserOf(x)] /\ usage[x].status = "absent"
            => QuotaRetainUntil(x) <= now

QInv == IInv /\ EventsRetained /\ RollingQuota

\* The operations of u accepted in the window that ends at s.
InWindow(u, s) ==
    {x \in Gens : /\ pc[x] # "idle"
                  /\ UserOf(x) = u
                  /\ snap[x].at \in (s - Window + 1)..s}

LEMMA DueAtReadingIsDue ==
  ASSUME IInv, NEW x \in Gens, NEW t \in Readings, usage[x].status # "absent",
         QuotaRetainUntil(x) <= t
  PROVE  QuotaRetainUntil(x) <= now
<1>1. snap[x] \in Snap
  BY RowsAreAccepted
<1>2. t \in Times /\ t <= now /\ now \in Times
  BY DEF Readings, IInv, TypeOK
<1>3. QED
  BY <1>1, <1>2, AIAssumption DEF QuotaRetainUntil, Snap, Times

LEMMA ScrubbedIsDue ==
  ASSUME IInv, NEW x \in Gens, NEW t \in Readings,
         usage[x].status # "absent", Scrubbed(x, t).status = "absent"
  PROVE  QuotaRetainUntil(x) <= now
<1>1. QuotaRetainUntil(x) <= t \/ Scrubbed(x, t) = [usage[x] EXCEPT !.goalId = NoGoal, !.redacted = TRUE]
  BY DEF Scrubbed
<1>2. [usage[x] EXCEPT !.goalId = NoGoal, !.redacted = TRUE].status = usage[x].status
  BY DEF IInv, TypeOK, Usage
<1>3. QED
  BY <1>1, <1>2, DueAtReadingIsDue

\* No transition of the targets and no cleanup removes an event too early.
LEMMA TargetsRetain ==
  ASSUME IInv, TargetsNext, NEW x \in Gens, usage[x].status # "absent", usage'[x].status = "absent"
  PROVE  QuotaRetainUntil(x) <= now
<1>1. TypeOK
  BY DEF IInv
<1>2. \/ usage' = usage
      \/ \E g \in Goals : usage' = Attached(g)
      \/ \E g \in Goals, t \in Readings : DropDraftGens(g, t)
      \/ \E g \in Goals, t \in Readings : DeleteGoal(g, t)
      \/ \E t \in Readings : Cleanup(t)
  BY DEF TargetsNext, AdoptGoalSuggestion, CreateDraft, SaveContent, StartGoal, AbandonDraft,
         CompleteCycle, ReplanCycle, ContinueReview, Terminate
<1>3. ASSUME NEW g \in Goals, usage' = Attached(g) PROVE FALSE
  <2>1. usage'[x] = usage[x] \/ usage'[x] = [usage[x] EXCEPT !.goalId = g]
    BY <1>3 DEF Attached
  <2>2. [usage[x] EXCEPT !.goalId = g].status = usage[x].status
    BY <1>1 DEF TypeOK, Usage
  <2>3. QED
    BY <2>1, <2>2
<1>4. ASSUME NEW g \in Goals, NEW t \in Readings, DropDraftGens(g, t)
      PROVE  QuotaRetainUntil(x) <= now
  BY <1>4, ScrubbedIsDue DEF DropDraftGens
<1>5. ASSUME NEW g \in Goals, NEW t \in Readings, DeleteGoal(g, t)
      PROVE  QuotaRetainUntil(x) <= now
  <2>1. [usage[x] EXCEPT !.goalId = NoGoal, !.status = "closed", !.redacted = TRUE].status = "closed"
    BY <1>1 DEF TypeOK, Usage
  <2>2. QED
    BY <1>5, <2>1, ScrubbedIsDue DEF DeleteGoal
<1>6. ASSUME NEW t \in Readings, Cleanup(t)
      PROVE  QuotaRetainUntil(x) <= now
  <2>1. Removable(x, t)
    BY <1>6 DEF Cleanup
  <2>2. QED
    BY <2>1, DueAtReadingIsDue DEF Removable
<1>7. QED
  BY <1>2, <1>3, <1>4, <1>5, <1>6

\* A step that accepts nothing keeps the counted operations.
LEMMA QuietKeepsQuota ==
  ASSUME RollingQuota, snap' = snap, \A x \in Gens : pc'[x] = "idle" <=> pc[x] = "idle"
  PROVE  RollingQuota'
<1>1. \A u \in Users, s \in Times :
        {x \in Gens : pc'[x] # "idle" /\ UserOf(x)' = u /\ snap'[x].at \in (s - Window + 1)..s}
          = {x \in Gens : pc[x] # "idle" /\ UserOf(x) = u /\ snap[x].at \in (s - Window + 1)..s}
  BY DEF UserOf
<1>2. QED
  BY <1>1 DEF RollingQuota

LEMMA QuietRetains ==
  ASSUME IInv, EventsRetained, snap' = snap, now' \in Times, now <= now',
         \A x \in Gens :
            /\ pc'[x] = "idle" <=> pc[x] = "idle"
            /\ userRow'[UserOf(x)] => userRow[UserOf(x)]
            /\ usage[x].status # "absent" /\ usage'[x].status = "absent" /\ userRow'[UserOf(x)]
                  => QuotaRetainUntil(x) <= now
  PROVE  EventsRetained'
<1>1. SUFFICES ASSUME NEW x \in Gens, pc[x] # "idle", userRow'[UserOf(x)], usage'[x].status = "absent"
               PROVE  QuotaRetainUntil(x) <= now'
  BY DEF EventsRetained, QuotaRetainUntil, UserOf
<1>2. QuotaRetainUntil(x) <= now
  BY <1>1 DEF EventsRetained
<1>3. snap[x] \in Snap /\ now \in Times
  BY <1>1 DEF IInv, TypeOK, OperationsFit, OperationFits
<1>4. QED
  BY <1>2, <1>3, AIAssumption DEF QuotaRetainUntil, Snap, Times

LEMMA BeginRetains ==
  ASSUME IInv, EventsRetained, NEW x \in Gens, NEW g \in Goals, NEW k \in Kinds, NEW t \in Readings,
         Begin(x, g, k, t)
  PROVE  EventsRetained'
<1> DEFINE E == Expired(Owner[g], t)
<1>1. TypeOK /\ E \in SUBSET Gens /\ (\A y \in E : gen[y] = "running") /\ CanRecover(E)
  BY DEF IInv, Expired, Begin
<1>2. usage'[x].status = "accepted"
  BY <1>1 DEF Begin, RecoveredUsage
<1>3. ASSUME NEW y \in Gens, y # x
      PROVE  /\ pc'[y] = pc[y] /\ snap'[y] = snap[y] /\ userRow' = userRow /\ now' = now
             /\ usage'[y].status = "absent" <=> usage[y].status = "absent"
  <2>1. pc'[y] = pc[y] /\ snap'[y] = snap[y] /\ userRow' = userRow /\ now' = now
        /\ usage'[y] = RecoveredUsage(E)[y]
    BY <1>1, <1>3 DEF Begin, TypeOK, RecoveredUsage
  <2>2. QED
    BY <1>1, <2>1, RecoveryFits
<1>4. QED
  BY <1>2, <1>3 DEF EventsRetained, QuotaRetainUntil, UserOf

\* The quota check of Begin counts every operation of a window it adds to.
LEMMA BeginKeepsQuota ==
  ASSUME Skew <= Margin, IInv, EventsRetained, RollingQuota,
         NEW x \in Gens, NEW g \in Goals, NEW k \in Kinds, NEW t \in Readings,
         Begin(x, g, k, t)
  PROVE  RollingQuota'
<1>1. SUFFICES ASSUME NEW u \in Users, NEW s \in Times
               PROVE  Cardinality(InWindow(u, s)') <= MaxOps
  BY DEF RollingQuota, InWindow
<1>2. /\ TypeOK /\ pc[x] = "idle" /\ t \in Times /\ now \in Times /\ t <= now /\ now <= t + Skew
      /\ snap'[x].goal = g /\ snap'[x].at = t /\ pc'[x] = "provider"
      /\ \A y \in Gens \ {x} : pc'[y] = pc[y] /\ snap'[y] = snap[y]
  BY DEF IInv, TypeOK, Begin, Readings
<1>3. InWindow(u, s) \in SUBSET Gens /\ x \notin InWindow(u, s)
  BY <1>2 DEF InWindow
<1>4. Cardinality(InWindow(u, s)) <= MaxOps
  BY DEF RollingQuota, InWindow
<1>5. CASE ~(u = Owner[g] /\ t \in (s - Window + 1)..s)
  <2>1. InWindow(u, s)' = InWindow(u, s)
    BY <1>2, <1>3, <1>5 DEF InWindow, UserOf
  <2>2. QED
    BY <1>4, <2>1
<1>6. CASE u = Owner[g] /\ t \in (s - Window + 1)..s
  <2> DEFINE Counted == {y \in Gens : /\ usage[y].status # "absent"
                                      /\ UserOf(y) = u
                                      /\ snap[y].at > t - Window}
  <2>1. InWindow(u, s)' = InWindow(u, s) \cup {x}
    BY <1>2, <1>3, <1>6 DEF InWindow, UserOf
  <2>2. ASSUME NEW y \in InWindow(u, s) PROVE y \in Counted
    <3>1. y \in Gens /\ pc[y] # "idle" /\ UserOf(y) = u /\ snap[y] \in Snap
          /\ snap[y].at > s - Window /\ s - Window >= t - Window
      BY <1>6, <2>2, AIAssumption DEF InWindow, IInv, OperationsFit, OperationFits, Times, Snap
    <3>2. userRow[u]
      BY <1>6 DEF Begin
    <3>3. ~(QuotaRetainUntil(y) <= now)
      <4>1. now \in Nat /\ t \in Nat /\ snap[y].at \in Nat /\ s \in Nat
        BY <1>2, <3>1 DEF Times, Snap
      <4>2. Window \in Nat /\ Margin \in Nat /\ Skew \in Nat /\ Skew <= Margin
        BY AIAssumption
      <4>3. now < snap[y].at + Window + Margin
        BY <1>2, <3>1, <4>1, <4>2
      <4>4. QED
        BY <4>1, <4>2, <4>3 DEF QuotaRetainUntil
    <3>4. usage[y].status # "absent"
      BY <3>1, <3>2, <3>3 DEF EventsRetained
    <3>5. snap[y].at > t - Window
      BY <1>2, <3>1, AIAssumption DEF Times, Snap
    <3>6. QED
      BY <3>1, <3>4, <3>5
  <2>3. Cardinality(Counted) < MaxOps
    BY <1>6 DEF Begin, RollingUsage
  <2>4. IsFiniteSet(InWindow(u, s)) /\ IsFiniteSet(Counted)
        /\ Cardinality(InWindow(u, s)) \in Nat /\ Cardinality(Counted) \in Nat
    BY <1>3, CountIsNat
  <2>5. Cardinality(InWindow(u, s)) <= Cardinality(Counted)
    BY <2>2, <2>4, FS_Subset
  <2>6. Cardinality(InWindow(u, s) \cup {x}) = Cardinality(InWindow(u, s)) + 1
    BY <1>3, <2>4, FS_AddElement
  <2> HIDE DEF Counted
  <2>7. QED
    BY <2>1, <2>3, <2>4, <2>5, <2>6, AIAssumption
<1>7. QED
  BY <1>5, <1>6

LEMMA OtherStepKeepsQuota ==
  ASSUME IInv, EventsRetained, RollingQuota,
         \/ \E x \in Gens, t \in Readings : Replay(x, t)
         \/ \E x \in Gens : pc[x] # "idle" /\ RequestStep(x)
         \/ \E x \in Gens : Crash(x)
         \/ TargetsNext
         \/ \E u \in Users : DeleteAccount(u)
         \/ Tick
         \/ UNCHANGED vars
  PROVE  EventsRetained' /\ RollingQuota'
<1>1. TypeOK /\ now \in Times
  BY DEF IInv, TypeOK
<1>2. SUFFICES /\ snap' = snap /\ now' \in Times /\ now <= now'
               /\ \A x \in Gens :
                    /\ pc'[x] = "idle" <=> pc[x] = "idle"
                    /\ userRow'[UserOf(x)] => userRow[UserOf(x)]
                    /\ usage[x].status # "absent" /\ usage'[x].status = "absent" /\ userRow'[UserOf(x)]
                          => QuotaRetainUntil(x) <= now
  BY QuietKeepsQuota, QuietRetains
<1>3. now <= now
  BY <1>1 DEF Times
<1>4. CASE \E x \in Gens, t \in Readings : Replay(x, t)
  <2>1. PICK x \in Gens, t \in Readings : Replay(x, t)
    BY <1>4
  <2>2. Expired(UserOf(x), t) \in SUBSET Gens /\ \A y \in Expired(UserOf(x), t) : gen[y] = "running"
    BY DEF Expired
  <2>3. \A y \in Gens : usage'[y].status = "absent" <=> usage[y].status = "absent"
    BY <2>1, <2>2, RecoveryFits DEF Replay
  <2>4. QED
    BY <1>1, <1>3, <2>1, <2>3 DEF Replay, request
<1>5. CASE (\E x \in Gens : pc[x] # "idle" /\ RequestStep(x)) \/ \E x \in Gens : Crash(x)
  <2>1. PICK x \in Gens : pc[x] # "idle" /\ (RequestStep(x) \/ Crash(x))
    BY <1>5 DEF Crash
  <2>2. snap' = snap /\ now' = now /\ userRow' = userRow
    BY <2>1, Zenon DEF RequestStep, ProviderReturns, Locate, FinishNormally, SettleLate, FinishWithoutUser,
                Crash, rows
  <2>3. \E p \in PCs \ {"idle"} : pc' = [pc EXCEPT ![x] = p]
    <3>1. {"answered", "lost", "located", "late", "done"} \subseteq PCs \ {"idle"}
      BY DEF PCs
    <3>2. QED
      BY <2>1, <3>1 DEF RequestStep, ProviderReturns, Locate, FinishNormally, SettleLate, FinishWithoutUser, Crash
  <2>4. usage' = usage \/ usage' = [usage EXCEPT ![x].status = "closed", ![x].final = TRUE]
    BY <2>1, Zenon DEF RequestStep, ProviderReturns, Locate, FinishNormally, SettleLate, FinishWithoutUser,
                Crash, rows
  <2>5. \A y \in Gens : usage[y].status # "absent" => usage'[y].status # "absent"
    <3>1. CASE usage' = usage
      BY <3>1
    <3>2. CASE usage' = [usage EXCEPT ![x].status = "closed", ![x].final = TRUE]
      <4>1. usage \in [Gens -> Usage]
        BY <1>1 DEF TypeOK
      <4>2. ASSUME NEW y \in Gens, y # x PROVE usage'[y] = usage[y]
        BY <3>2, <4>1, <4>2
      <4>3. usage[x] \in Usage
        BY <4>1
      <4>4. usage'[x] = [usage[x] EXCEPT !.status = "closed", !.final = TRUE]
        BY <3>2, <4>1
      <4>5. usage'[x].status = "closed"
        BY <4>3, <4>4 DEF Usage
      <4>6. QED
        BY <4>2, <4>5
    <3>3. QED
      BY <2>4, <3>1, <3>2
  <2>6. QED
    BY <1>1, <1>3, <2>1, <2>2, <2>3, <2>5 DEF TypeOK
<1>6. CASE TargetsNext
  <2>1. TargetStep
    BY <1>6, TargetsNextIsTargetStep
  <2>2. QED
    BY <1>1, <1>3, <1>6, <2>1, TargetsRetain DEF TargetStep, request
<1>7. CASE \E u \in Users : DeleteAccount(u)
  <2>1. PICK u \in Users : DeleteAccount(u)
    BY <1>7
  <2>2. /\ snap' = snap /\ pc' = pc /\ now' = now /\ userRow' = [userRow EXCEPT ![u] = FALSE]
        /\ \A x \in Gens : usage'[x] = usage[x] \/ (pc[x] # "idle" /\ UserOf(x) = u)
    BY <2>1 DEF DeleteAccount, request
  <2>3. QED
    BY <1>1, <1>3, <2>2 DEF TypeOK
<1>8. CASE Tick
  BY <1>1, <1>8, AIAssumption DEF Tick, Times, rows, request
<1>9. CASE UNCHANGED vars
  BY <1>1, <1>3, <1>9 DEF vars
<1>10. QED
  BY <1>4, <1>5, <1>6, <1>7, <1>8, <1>9

LEMMA InitIsQInv == Init => EventsRetained /\ RollingQuota
<1> SUFFICES ASSUME Init PROVE EventsRetained /\ RollingQuota
  OBVIOUS
<1>1. \A u \in Users, s \in Times :
        {x \in Gens : pc[x] # "idle" /\ UserOf(x) = u /\ snap[x].at \in (s - Window + 1)..s} = {}
  BY DEF Init
<1>2. RollingQuota
  <2>1. Cardinality({}) <= MaxOps
    BY FS_EmptySet, AIAssumption
  <2>2. QED
    BY <1>1, <2>1, Zenon DEF RollingQuota
<1>3. QED
  BY <1>2 DEF Init, EventsRetained

\* In no window of 24 hours has a user more accepted operations than the limit,
\* whatever is deleted or cleaned up, as long as the retention margin covers the
\* age of the clock reading a transaction commits with.
THEOREM QuotaNeverExceeded ==
  ASSUME Skew <= Margin
  PROVE  Spec => []RollingQuota
<1>1. Init => QInv
  BY InitIsIInv, InitIsQInv DEF QInv
<1>2. QInv /\ [Next]_vars => QInv'
  <2> SUFFICES ASSUME QInv, [Next]_vars PROVE QInv'
    OBVIOUS
  <2>1. IInv'
    BY NextKeepsIInv DEF QInv
  <2>2. CASE \E x \in Gens, g \in Goals, k \in Kinds, t \in Readings : Begin(x, g, k, t)
    BY <2>1, <2>2, BeginRetains, BeginKeepsQuota DEF QInv
  <2>3. CASE ~\E x \in Gens, g \in Goals, k \in Kinds, t \in Readings : Begin(x, g, k, t)
    BY <2>1, <2>3, NextCases, OtherStepKeepsQuota DEF QInv
  <2>4. QED
    BY <2>2, <2>3
<1>3. QInv => RollingQuota
  BY DEF QInv
<1>4. QED
  BY <1>1, <1>2, <1>3, PTL DEF Spec
==============================================================================
