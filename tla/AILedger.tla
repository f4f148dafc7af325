------------------------------ MODULE AILedger ------------------------------
(***************************************************************************)
(* What the AI cost accounting of FUKAMU Cycle promises, without the rows  *)
(* that implement it: every accepted AI operation has one entry, the entry *)
(* is in one place at a time, and the three columns of the service-wide    *)
(* monthly budget (ai_budget_monthly) only ever move by the amount of the  *)
(* entries that change place.                                              *)
(*                                                                         *)
(*   reserved  a generation is running and holds its maximum cost          *)
(*   exposed   the reservation was given back (expired lease, deleted      *)
(*             goal) but the provider's cost is not known yet              *)
(*   charged   the provider's cost replaced the reservation                *)
(*   late      the provider's cost was added after the reservation was     *)
(*             given back                                                  *)
(*   absorbed  the account was deleted first: the maximum cost was moved   *)
(*             to the unattributed cost                                    *)
(*                                                                         *)
(* AIOperation implements this module (AIOperation!Ledger).                *)
(***************************************************************************)
EXTENDS Integers, FiniteSets

CONSTANTS
    Gens,         \* AI operations, by generation id
    Months,       \* budget months
    Reservation,  \* maximum cost of an operation, by kind
    Budget        \* the service-wide budget of a month

Kinds == {"goal_refine", "action"}

\* What the amounts are; AIOperation assumes it of its own constants.
LedgerConstants ==
    /\ IsFiniteSet(Gens)
    /\ Reservation \in [Kinds -> Nat]
    /\ Budget \in Nat

VARIABLES
    entry,        \* Gens -> [place, kind, month]
    reserved, actual, unattributed   \* the columns of ai_budget_monthly

vars == <<entry, reserved, actual, unattributed>>

Places == {"none", "reserved", "exposed", "charged", "late", "absorbed"}

\* The operations of month m and kind k among those of S that are in place p.
In(S, p, k, m) ==
    {x \in S : entry[x].place = p /\ entry[x].kind = k /\ entry[x].month = m}

\* The maximum cost of the operations of month m that are in place p.
Worth(S, p, m) ==
    Reservation["goal_refine"] * Cardinality(In(S, p, "goal_refine", m))
        + Reservation["action"] * Cardinality(In(S, p, "action", m))

TypeOK ==
    /\ entry \in [Gens -> [place: Places, kind: Kinds, month: Months]]
    /\ reserved \in [Months -> Nat]
    /\ actual \in [Months -> Nat]
    /\ unattributed \in [Months -> Nat]

-----------------------------------------------------------------------------

Init ==
    /\ entry \in [Gens -> [place: {"none"}, kind: Kinds, month: Months]]
    /\ reserved = [m \in Months |-> 0]
    /\ actual = [m \in Months |-> 0]
    /\ unattributed = [m \in Months |-> 0]

\* S leaves for place q.
Moved(S, q) ==
    [x \in Gens |-> IF x \in S THEN [entry[x] EXCEPT !.place = q] ELSE entry[x]]

\* The reserved cost once the operations of E, which are reserved, gave theirs back.
Without(E) == [m \in Months |-> reserved[m] - Worth(E, "reserved", m)]

\* The operations of E give their reservations back: their cost is unknown.
Release(E) ==
    /\ \A x \in E : entry[x].place = "reserved"
    /\ entry' = Moved(E, "exposed")
    /\ reserved' = Without(E)
    /\ UNCHANGED <<actual, unattributed>>

\* An operation of kind k fits into month m once E gave its reservations back.
Affordable(k, m, E) ==
    Without(E)[m] + actual[m] + unattributed[m] + Reservation[k] <= Budget

\* A new operation reserves its maximum cost within the budget, in the
\* transaction that gave back the reservations of E.
Accept(x, k, m, E) ==
    /\ entry[x].place = "none"
    /\ \A y \in E : entry[y].place = "reserved"
    /\ Affordable(k, m, E)
    /\ entry' = [Moved(E, "exposed") EXCEPT
                    ![x] = [place |-> "reserved", kind |-> k, month |-> m]]
    /\ reserved' = [Without(E) EXCEPT ![m] = @ + Reservation[k]]
    /\ UNCHANGED <<actual, unattributed>>

\* The provider's cost, at most the reservation, replaces it.
Settle(x) ==
    LET m == entry[x].month
        r == Reservation[entry[x].kind]
    IN
    /\ entry[x].place = "reserved"
    /\ entry' = Moved({x}, "charged")
    /\ reserved' = [reserved EXCEPT ![m] = @ - r]
    /\ \E c \in 0..r : actual' = [actual EXCEPT ![m] = @ + c]
    /\ UNCHANGED unattributed

\* The provider's cost becomes known after the reservation was given back.
SettleLate(x) ==
    /\ entry[x].place = "exposed"
    /\ entry' = Moved({x}, "late")
    /\ \E c \in 0..Reservation[entry[x].kind] :
           actual' = [actual EXCEPT ![entry[x].month] = @ + c]
    /\ UNCHANGED <<reserved, unattributed>>

\* The operations of E disappear with their account: what is not known of
\* their cost is counted as its maximum.
Absorb(E) ==
    /\ \A x \in E : entry[x].place \in {"reserved", "exposed"}
    /\ entry' = Moved(E, "absorbed")
    /\ reserved' = Without(E)
    /\ unattributed' = [m \in Months |->
           unattributed[m] + Worth(E, "reserved", m) + Worth(E, "exposed", m)]
    /\ UNCHANGED actual

Next ==
    \/ \E E \in SUBSET Gens : Release(E)
    \/ \E E \in SUBSET Gens : Absorb(E)
    \/ \E x \in Gens, k \in Kinds, m \in Months, E \in SUBSET Gens :
           Accept(x, k, m, E)
    \/ \E x \in Gens : Settle(x)
    \/ \E x \in Gens : SettleLate(x)

Spec == Init /\ [][Next]_vars

-----------------------------------------------------------------------------

(***************************************************************************)
(* The reserved cost of a month is exactly the maximum cost of the         *)
(* operations that still run, and its unattributed cost exactly that of    *)
(* the operations absorbed by an account deletion: nothing is reserved or  *)
(* given back twice, and nothing leaks.                                    *)
(***************************************************************************)
Balanced ==
    \A m \in Months :
        /\ reserved[m] = Worth(Gens, "reserved", m)
        /\ unattributed[m] = Worth(Gens, "absorbed", m)

(***************************************************************************)
(* A month never counts more than the budget, except for operations whose  *)
(* reservation had been given back before their cost became known: the     *)
(* budget check of a later operation could not see that cost.              *)
(***************************************************************************)
WithinBudget ==
    \A m \in Months :
        reserved[m] + actual[m] + unattributed[m]
            <= Budget + Worth(Gens, "late", m) + Worth(Gens, "absorbed", m)

=============================================================================
