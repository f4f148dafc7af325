-------------------------- MODULE AILedger_proofs --------------------------
(***************************************************************************)
(* Proofs about the cost ledger, for any finite set of operations, any     *)
(* months, reservations and budget.                                        *)
(***************************************************************************)
EXTENDS AILedger, FiniteSetTheorems, TLAPS

\* The operations of S of one kind and month, wherever they are.
Of(S, k, m) == {x \in S : entry[x].kind = k /\ entry[x].month = m}

\* Their maximum cost.
Total(S, m) ==
    Reservation["goal_refine"] * Cardinality(Of(S, "goal_refine", m))
        + Reservation["action"] * Cardinality(Of(S, "action", m))

-----------------------------------------------------------------------------

LEMMA CardinalityOfDisjointUnion ==
    ASSUME NEW A, NEW B, IsFiniteSet(A), IsFiniteSet(B), A \cap B = {}
    PROVE  Cardinality(A \cup B) = Cardinality(A) + Cardinality(B)
<1>1. Cardinality(A) \in Nat /\ Cardinality(B) \in Nat /\ Cardinality({}) = 0
    BY FS_EmptySet, FS_CardinalityType
<1>2. Cardinality(A \cup B) = Cardinality(A) + Cardinality(B) - Cardinality(A \cap B)
    BY FS_Union
<1>3. Cardinality(A \cap B) = Cardinality({})
    BY Zenon
<1>4. QED
    BY <1>1, <1>2, <1>3

LEMMA CardinalityOfRest ==
    ASSUME NEW A, NEW B, IsFiniteSet(A), B \subseteq A
    PROVE  Cardinality(A \ B) = Cardinality(A) - Cardinality(B)
<1>1. A \cap B = B
    OBVIOUS
<1>2. QED
    BY <1>1, FS_Difference

\* Every set the ledger counts is finite.
LEMMA CountsAreNat ==
    ASSUME LedgerConstants, NEW S \in SUBSET Gens, NEW p, NEW k, NEW m
    PROVE  /\ IsFiniteSet(In(S, p, k, m)) /\ Cardinality(In(S, p, k, m)) \in Nat
           /\ IsFiniteSet(Of(S, k, m)) /\ Cardinality(Of(S, k, m)) \in Nat
<1>1. IsFiniteSet(Gens)
    BY DEF LedgerConstants
<1>2. In(S, p, k, m) \in SUBSET Gens /\ Of(S, k, m) \in SUBSET Gens
    BY DEF In, Of
<1>3. QED
    BY <1>1, <1>2, FS_Subset, FS_CardinalityType

LEMMA CountsAreNatNext ==
    ASSUME LedgerConstants, NEW S \in SUBSET Gens, NEW p, NEW k, NEW m
    PROVE  IsFiniteSet(In(S, p, k, m)') /\ Cardinality(In(S, p, k, m)') \in Nat
<1>1. IsFiniteSet(Gens)
    BY DEF LedgerConstants
<1>2. In(S, p, k, m)' \in SUBSET Gens
    BY DEF In
<1>3. QED
    BY <1>1, <1>2, FS_Subset, FS_CardinalityType

LEMMA ReservationsAreNat ==
    ASSUME LedgerConstants
    PROVE  Reservation["goal_refine"] \in Nat /\ Reservation["action"] \in Nat
BY DEF LedgerConstants, Kinds

LEMMA WorthIsNat ==
    ASSUME LedgerConstants, NEW S \in SUBSET Gens, NEW p, NEW m
    PROVE  Worth(S, p, m) \in Nat /\ Total(S, m) \in Nat /\ Worth(S, p, m)' \in Nat
<1>1. /\ Cardinality(In(S, p, "goal_refine", m)) \in Nat
      /\ Cardinality(In(S, p, "action", m)) \in Nat
      /\ Cardinality(Of(S, "goal_refine", m)) \in Nat
      /\ Cardinality(Of(S, "action", m)) \in Nat
    BY CountsAreNat
<1>2. /\ Cardinality(In(S, p, "goal_refine", m)') \in Nat
      /\ Cardinality(In(S, p, "action", m)') \in Nat
    BY CountsAreNatNext
<1>3. \A r, c \in Nat : r * c \in Nat
    OBVIOUS
<1>4. Worth(S, p, m) \in Nat
    BY <1>1, <1>3, ReservationsAreNat DEF Worth
<1>5. Total(S, m) \in Nat
    BY <1>1, <1>3, ReservationsAreNat DEF Total
<1>6. Worth(S, p, m)' \in Nat
    BY <1>2, <1>3, ReservationsAreNat DEF Worth
<1>7. QED
    BY <1>4, <1>5, <1>6

-----------------------------------------------------------------------------
(***************************************************************************)
(* What a move of the operations of E to place q does to the worth of the  *)
(* places.                                                                 *)
(***************************************************************************)

\* A place the operations do not move to loses those that were there.
LEMMA Left ==
    ASSUME LedgerConstants, TypeOK, NEW E \in SUBSET Gens, NEW p \in Places, NEW q \in Places, p # q,
           entry' = Moved(E, q), NEW m \in Months
    PROVE  Worth(Gens, p, m)' = Worth(Gens, p, m) - Worth(E, p, m)
<1>1. ASSUME NEW k \in Kinds
      PROVE  Cardinality(In(Gens, p, k, m)')
                 = Cardinality(In(Gens, p, k, m)) - Cardinality(In(E, p, k, m))
    <2>1. In(Gens, p, k, m)' = In(Gens, p, k, m) \ In(E, p, k, m)
        BY DEF In, Moved, TypeOK
    <2>2. In(E, p, k, m) \subseteq In(Gens, p, k, m)
        BY DEF In
    <2>3. IsFiniteSet(In(Gens, p, k, m))
        BY CountsAreNat
    <2>4. QED
        BY <2>1, <2>2, <2>3, CardinalityOfRest
<1>2. /\ Cardinality(In(Gens, p, "goal_refine", m)')
             = Cardinality(In(Gens, p, "goal_refine", m))
                   - Cardinality(In(E, p, "goal_refine", m))
      /\ Cardinality(In(Gens, p, "action", m)')
             = Cardinality(In(Gens, p, "action", m)) - Cardinality(In(E, p, "action", m))
    BY <1>1 DEF Kinds
<1>3. /\ Cardinality(In(Gens, p, "goal_refine", m)) \in Nat
      /\ Cardinality(In(Gens, p, "action", m)) \in Nat
      /\ Cardinality(In(E, p, "goal_refine", m)) \in Nat
      /\ Cardinality(In(E, p, "action", m)) \in Nat
    BY CountsAreNat
<1>4. \A r, s, a, b, c, d \in Nat :
          r * (a - b) + s * (c - d) = (r * a + s * c) - (r * b + s * d)
    OBVIOUS
<1>5. QED
    BY <1>2, <1>3, <1>4, ReservationsAreNat DEF Worth

\* The place they move to gains all of them.
LEMMA Came ==
    ASSUME LedgerConstants, TypeOK, NEW E \in SUBSET Gens, NEW q \in Places,
           \A x \in E : entry[x].place # q,
           entry' = Moved(E, q), NEW m \in Months
    PROVE  Worth(Gens, q, m)' = Worth(Gens, q, m) + Total(E, m)
<1>1. ASSUME NEW k \in Kinds
      PROVE  Cardinality(In(Gens, q, k, m)')
                 = Cardinality(In(Gens, q, k, m)) + Cardinality(Of(E, k, m))
    <2>1. In(Gens, q, k, m)' = In(Gens, q, k, m) \cup Of(E, k, m)
        BY DEF In, Of, Moved, TypeOK
    <2>2. In(Gens, q, k, m) \cap Of(E, k, m) = {}
        BY DEF In, Of
    <2>3. IsFiniteSet(In(Gens, q, k, m)) /\ IsFiniteSet(Of(E, k, m))
        BY CountsAreNat
    <2>4. QED
        BY <2>1, <2>2, <2>3, CardinalityOfDisjointUnion
<1>2. /\ Cardinality(In(Gens, q, "goal_refine", m)')
             = Cardinality(In(Gens, q, "goal_refine", m))
                   + Cardinality(Of(E, "goal_refine", m))
      /\ Cardinality(In(Gens, q, "action", m)')
             = Cardinality(In(Gens, q, "action", m)) + Cardinality(Of(E, "action", m))
    BY <1>1 DEF Kinds
<1>3. /\ Cardinality(In(Gens, q, "goal_refine", m)) \in Nat
      /\ Cardinality(In(Gens, q, "action", m)) \in Nat
      /\ Cardinality(Of(E, "goal_refine", m)) \in Nat
      /\ Cardinality(Of(E, "action", m)) \in Nat
    BY CountsAreNat
<1>4. \A r, s, a, b, c, d \in Nat :
          r * (a + b) + s * (c + d) = (r * a + s * c) + (r * b + s * d)
    OBVIOUS
<1>5. QED
    BY <1>2, <1>3, <1>4, ReservationsAreNat DEF Worth, Total

\* Operations that are elsewhere are worth nothing in p.
LEMMA WorthOfOthers ==
    ASSUME LedgerConstants, NEW E \in SUBSET Gens, NEW p, \A x \in E : entry[x].place # p, NEW m
    PROVE  Worth(E, p, m) = 0
<1>1. In(E, p, "goal_refine", m) = {} /\ In(E, p, "action", m) = {}
    BY DEF In
<1>2. Cardinality({}) = 0
    BY FS_EmptySet
<1>3. \A r \in Nat : r * 0 = 0
    OBVIOUS
<1>4. QED
    BY <1>1, <1>2, <1>3, ReservationsAreNat DEF Worth

\* Operations that are reserved or exposed are worth what they are worth there.
LEMMA TotalOfOpen ==
    ASSUME LedgerConstants, NEW E \in SUBSET Gens,
           \A x \in E : entry[x].place \in {"reserved", "exposed"}, NEW m
    PROVE  Total(E, m) = Worth(E, "reserved", m) + Worth(E, "exposed", m)
<1>1. ASSUME NEW k
      PROVE  Cardinality(Of(E, k, m))
                 = Cardinality(In(E, "reserved", k, m)) + Cardinality(In(E, "exposed", k, m))
    <2>1. Of(E, k, m) = In(E, "reserved", k, m) \cup In(E, "exposed", k, m)
        BY DEF In, Of
    <2>2. In(E, "reserved", k, m) \cap In(E, "exposed", k, m) = {}
        BY DEF In
    <2>3. QED
        BY <2>1, <2>2, CountsAreNat, CardinalityOfDisjointUnion
<1>2. ASSUME NEW k
      PROVE  /\ Cardinality(In(E, "reserved", k, m)) \in Nat
             /\ Cardinality(In(E, "exposed", k, m)) \in Nat
    BY CountsAreNat
<1>3. \A r, s, a, b, c, d \in Nat :
          r * (a + b) + s * (c + d) = (r * a + s * c) + (r * b + s * d)
    OBVIOUS
<1>4. QED
    BY <1>1, <1>2, <1>3, ReservationsAreNat DEF Worth, Total

\* What a single operation is worth.
LEMMA TotalOfOne ==
    ASSUME LedgerConstants, TypeOK, NEW x \in Gens, NEW m \in Months
    PROVE  /\ Reservation[entry[x].kind] \in Nat
           /\ Total({x}, m) = IF entry[x].month = m THEN Reservation[entry[x].kind] ELSE 0
<1>1. entry[x].kind \in Kinds
    BY DEF TypeOK
<1>2. ASSUME NEW k
      PROVE  Cardinality(Of({x}, k, m))
                 = IF entry[x].kind = k /\ entry[x].month = m THEN 1 ELSE 0
    <2>1. Of({x}, k, m) = IF entry[x].kind = k /\ entry[x].month = m THEN {x} ELSE {}
        BY DEF Of
    <2>2. Cardinality({}) = 0 /\ Cardinality({x}) = 1
        BY FS_EmptySet, FS_Singleton
    <2>3. QED
        BY <2>1, <2>2
<1>3. \A r \in Nat : r * 0 = 0 /\ r * 1 = r
    OBVIOUS
<1>4. CASE entry[x].month # m
    BY <1>2, <1>3, <1>4, <1>1, ReservationsAreNat DEF Total, Kinds
<1>5. CASE entry[x].month = m /\ entry[x].kind = "action"
    <2>1. /\ Cardinality(Of({x}, "goal_refine", m)) = 0
          /\ Cardinality(Of({x}, "action", m)) = 1
        BY <1>2, <1>5
    <2>2. QED
        BY <2>1, <1>3, <1>5, ReservationsAreNat DEF Total
<1>6. CASE entry[x].month = m /\ entry[x].kind = "goal_refine"
    <2>1. /\ Cardinality(Of({x}, "goal_refine", m)) = 1
          /\ Cardinality(Of({x}, "action", m)) = 0
        BY <1>2, <1>6
    <2>2. QED
        BY <2>1, <1>3, <1>6, ReservationsAreNat DEF Total
<1>7. QED
    BY <1>1, <1>4, <1>5, <1>6 DEF Kinds

-----------------------------------------------------------------------------
(***************************************************************************)
(* The invariant                                                           *)
(***************************************************************************)

\* The columns that TypeOK does not get from Balanced.
Typed ==
    /\ entry \in [Gens -> [place: Places, kind: Kinds, month: Months]]
    /\ reserved \in [Months -> Int]
    /\ actual \in [Months -> Nat]
    /\ unattributed \in [Months -> Nat]

IInv == LedgerConstants /\ TypeOK /\ Balanced /\ WithinBudget

LEMMA TypedIsTypeOK ==
    ASSUME LedgerConstants, Typed', Balanced'
    PROVE  TypeOK'
<1>1. \A m \in Months : Worth(Gens, "reserved", m)' \in Nat
    BY WorthIsNat
<1>2. QED
    BY <1>1 DEF Typed, TypeOK, Balanced

LEMMA InitIsIInv == LedgerConstants /\ Init => IInv
<1> SUFFICES ASSUME LedgerConstants, Init PROVE IInv
    OBVIOUS
<1>1. TypeOK
    BY DEF Init, TypeOK, Places
<1>2. \A p \in {"reserved", "absorbed", "late"}, m \in Months : Worth(Gens, p, m) = 0
    <2>1. \A x \in Gens, p \in {"reserved", "absorbed", "late"} : entry[x].place # p
        BY DEF Init
    <2>2. QED
        BY <2>1, WorthOfOthers
<1>3. Balanced
    BY <1>2 DEF Init, Balanced
<1>4. WithinBudget
    BY <1>2 DEF LedgerConstants, Init, WithinBudget
<1>5. QED
    BY <1>1, <1>3, <1>4 DEF IInv

LEMMA ReleaseKeeps ==
    ASSUME LedgerConstants, IInv, NEW E \in SUBSET Gens, Release(E)
    PROVE  IInv'
<1>1. TypeOK /\ Balanced /\ WithinBudget
    BY DEF IInv
<1>2. entry' = Moved(E, "exposed") /\ \A x \in E : entry[x].place = "reserved"
    BY DEF Release
<1>3. ASSUME NEW m \in Months
      PROVE  /\ Worth(Gens, "reserved", m)'
                    = Worth(Gens, "reserved", m) - Worth(E, "reserved", m)
             /\ Worth(Gens, "absorbed", m)' = Worth(Gens, "absorbed", m)
             /\ Worth(Gens, "late", m)' = Worth(Gens, "late", m)
             /\ Worth(E, "reserved", m) \in Nat
             /\ Worth(Gens, "absorbed", m) \in Nat
             /\ Worth(Gens, "late", m) \in Nat
    <2>1. Worth(E, "absorbed", m) = 0 /\ Worth(E, "late", m) = 0
        BY <1>2, WorthOfOthers
    <2>2. QED
        BY <1>1, <1>2, <2>1, Left, WorthIsNat DEF Places
<1>4. Typed'
    BY <1>1, <1>2, <1>3 DEF Release, Without, TypeOK, Typed, Moved, Places
<1>5. Balanced'
    BY <1>1, <1>3 DEF Release, Without, TypeOK, Balanced
<1>6. WithinBudget'
    BY <1>1, <1>3 DEF LedgerConstants, Release, Without, TypeOK, WithinBudget
<1>7. QED
    BY <1>4, <1>5, <1>6, TypedIsTypeOK DEF IInv

LEMMA AbsorbKeeps ==
    ASSUME LedgerConstants, IInv, NEW E \in SUBSET Gens, Absorb(E)
    PROVE  IInv'
<1>1. TypeOK /\ Balanced /\ WithinBudget
    BY DEF IInv
<1>2. /\ entry' = Moved(E, "absorbed")
      /\ \A x \in E : entry[x].place \in {"reserved", "exposed"}
    BY DEF Absorb
<1>3. ASSUME NEW m \in Months
      PROVE  /\ Worth(Gens, "reserved", m)'
                    = Worth(Gens, "reserved", m) - Worth(E, "reserved", m)
             /\ Worth(Gens, "absorbed", m)' = Worth(Gens, "absorbed", m)
                    + Worth(E, "reserved", m) + Worth(E, "exposed", m)
             /\ Worth(Gens, "late", m)' = Worth(Gens, "late", m)
             /\ Worth(E, "reserved", m) \in Nat
             /\ Worth(E, "exposed", m) \in Nat
             /\ Worth(Gens, "absorbed", m) \in Nat
             /\ Worth(Gens, "late", m) \in Nat
    <2>1. Worth(E, "late", m) = 0
        BY <1>2, WorthOfOthers
    <2>2. Worth(Gens, "absorbed", m)' = Worth(Gens, "absorbed", m) + Total(E, m)
        BY <1>1, <1>2, Came DEF Places
    <2>3. Total(E, m) = Worth(E, "reserved", m) + Worth(E, "exposed", m)
        BY <1>2, TotalOfOpen
    <2>4. QED
        BY <1>1, <1>2, <2>1, <2>2, <2>3, Left, WorthIsNat DEF Places
<1>4. Typed'
    BY <1>1, <1>2, <1>3 DEF Absorb, Without, TypeOK, Typed, Moved, Places
<1>5. Balanced'
    BY <1>1, <1>3 DEF Absorb, Without, TypeOK, Balanced
<1>6. WithinBudget'
    BY <1>1, <1>3 DEF LedgerConstants, Absorb, Without, TypeOK, WithinBudget
<1>7. QED
    BY <1>4, <1>5, <1>6, TypedIsTypeOK DEF IInv

LEMMA SettleKeeps ==
    ASSUME LedgerConstants, IInv, NEW x \in Gens, Settle(x)
    PROVE  IInv'
<1> DEFINE n == entry[x].month
           r == Reservation[entry[x].kind]
<1>1. TypeOK /\ Balanced /\ WithinBudget /\ n \in Months
    BY DEF IInv, TypeOK
<1>2. entry' = Moved({x}, "charged") /\ entry[x].place = "reserved" /\ {x} \in SUBSET Gens
    BY DEF Settle
<1>3. PICK c \in 0..r : actual' = [actual EXCEPT ![n] = @ + c]
    BY DEF Settle
<1>4. r \in Nat /\ c \in Nat /\ c <= r
    <2>1. r \in Nat
        BY <1>1, TotalOfOne
    <2>2. QED
        BY <2>1, <1>3
<1>5. ASSUME NEW m \in Months
      PROVE  /\ Worth(Gens, "reserved", m)'
                    = Worth(Gens, "reserved", m) - (IF m = n THEN r ELSE 0)
             /\ Worth(Gens, "absorbed", m)' = Worth(Gens, "absorbed", m)
             /\ Worth(Gens, "late", m)' = Worth(Gens, "late", m)
             /\ Worth(Gens, "absorbed", m) \in Nat
             /\ Worth(Gens, "late", m) \in Nat
    <2>1. /\ Worth({x}, "absorbed", m) = 0 /\ Worth({x}, "late", m) = 0
          /\ Worth({x}, "exposed", m) = 0
        BY <1>2, WorthOfOthers
    <2>2. Total({x}, m) = Worth({x}, "reserved", m) + Worth({x}, "exposed", m)
        BY <1>2, TotalOfOpen
    <2>3. Total({x}, m) = IF m = n THEN r ELSE 0
        BY <1>1, TotalOfOne
    <2>4. Worth({x}, "reserved", m) \in Nat
        BY <1>2, WorthIsNat
    <2>5. Worth({x}, "reserved", m) = IF m = n THEN r ELSE 0
        BY <2>1, <2>2, <2>3, <2>4
    <2>6. /\ Worth(Gens, "reserved", m)'
                 = Worth(Gens, "reserved", m) - Worth({x}, "reserved", m)
          /\ Worth(Gens, "absorbed", m)'
                 = Worth(Gens, "absorbed", m) - Worth({x}, "absorbed", m)
          /\ Worth(Gens, "late", m)' = Worth(Gens, "late", m) - Worth({x}, "late", m)
        BY <1>1, <1>2, Left DEF Places
    <2>7. Worth(Gens, "absorbed", m) \in Nat /\ Worth(Gens, "late", m) \in Nat
        BY WorthIsNat
    <2>8. QED
        BY <2>1, <2>5, <2>6, <2>7
<1>6. Typed'
    BY <1>1, <1>2, <1>3, <1>4 DEF Settle, TypeOK, Typed, Moved, Places
<1>7. Balanced'
    BY <1>1, <1>4, <1>5 DEF Settle, TypeOK, Balanced
<1>8. WithinBudget'
    BY <1>1, <1>3, <1>4, <1>5 DEF LedgerConstants, Settle, TypeOK, WithinBudget
<1>9. QED
    BY <1>6, <1>7, <1>8, TypedIsTypeOK DEF IInv

LEMMA SettleLateKeeps ==
    ASSUME LedgerConstants, IInv, NEW x \in Gens, SettleLate(x)
    PROVE  IInv'
<1> DEFINE n == entry[x].month
           r == Reservation[entry[x].kind]
<1>1. TypeOK /\ Balanced /\ WithinBudget /\ n \in Months
    BY DEF IInv, TypeOK
<1>2. entry' = Moved({x}, "late") /\ entry[x].place = "exposed" /\ {x} \in SUBSET Gens
    BY DEF SettleLate
<1>3. PICK c \in 0..r : actual' = [actual EXCEPT ![n] = @ + c]
    BY DEF SettleLate
<1>4. r \in Nat /\ c \in Nat /\ c <= r
    <2>1. r \in Nat
        BY <1>1, TotalOfOne
    <2>2. QED
        BY <2>1, <1>3
<1>5. ASSUME NEW m \in Months
      PROVE  /\ Worth(Gens, "reserved", m)' = Worth(Gens, "reserved", m)
             /\ Worth(Gens, "absorbed", m)' = Worth(Gens, "absorbed", m)
             /\ Worth(Gens, "late", m)'
                    = Worth(Gens, "late", m) + (IF m = n THEN r ELSE 0)
             /\ Worth(Gens, "reserved", m) \in Nat
             /\ Worth(Gens, "absorbed", m) \in Nat
             /\ Worth(Gens, "late", m) \in Nat
    <2>1. Worth({x}, "reserved", m) = 0 /\ Worth({x}, "absorbed", m) = 0
        BY <1>2, WorthOfOthers
    <2>2. Total({x}, m) = IF m = n THEN r ELSE 0
        BY <1>1, TotalOfOne
    <2>3. Worth(Gens, "late", m)' = Worth(Gens, "late", m) + Total({x}, m)
        BY <1>1, <1>2, Came DEF Places
    <2>4. /\ Worth(Gens, "reserved", m)'
                 = Worth(Gens, "reserved", m) - Worth({x}, "reserved", m)
          /\ Worth(Gens, "absorbed", m)'
                 = Worth(Gens, "absorbed", m) - Worth({x}, "absorbed", m)
        BY <1>1, <1>2, Left DEF Places
    <2>5. /\ Worth(Gens, "reserved", m) \in Nat
          /\ Worth(Gens, "absorbed", m) \in Nat
          /\ Worth(Gens, "late", m) \in Nat
        BY WorthIsNat
    <2>6. QED
        BY <2>1, <2>2, <2>3, <2>4, <2>5
<1>6. Typed'
    BY <1>1, <1>2, <1>3, <1>4 DEF SettleLate, TypeOK, Typed, Moved, Places
<1>7. Balanced'
    BY <1>1, <1>5 DEF SettleLate, TypeOK, Balanced
<1>8. WithinBudget'
    BY <1>1, <1>3, <1>4, <1>5 DEF LedgerConstants, SettleLate, TypeOK, WithinBudget
<1>9. QED
    BY <1>6, <1>7, <1>8, TypedIsTypeOK DEF IInv

LEMMA AcceptKeeps ==
    ASSUME LedgerConstants, IInv, NEW x \in Gens, NEW k \in Kinds, NEW n \in Months, NEW E \in SUBSET Gens,
           Accept(x, k, n, E)
    PROVE  IInv'
<1> DEFINE r == Reservation[k]
           new == [place |-> "reserved", kind |-> k, month |-> n]
<1>1. TypeOK /\ Balanced /\ WithinBudget /\ r \in Nat
    BY DEF IInv, LedgerConstants
<1>2. /\ entry' = [Moved(E, "exposed") EXCEPT ![x] = new]
      /\ entry[x].place = "none"
      /\ \A y \in E : entry[y].place = "reserved"
      /\ x \notin E
    BY DEF Accept
<1>3. ASSUME NEW m \in Months, NEW p \in {"absorbed", "late"}
      PROVE  Worth(Gens, p, m)' = Worth(Gens, p, m)
    <2>1. \A j \in Kinds : In(Gens, p, j, m)' = In(Gens, p, j, m)
        BY <1>1, <1>2 DEF In, Moved, TypeOK
    <2>2. QED
        BY <2>1 DEF Worth, Kinds
<1>4. ASSUME NEW m \in Months, NEW j \in Kinds
      PROVE  Cardinality(In(Gens, "reserved", j, m)')
                 = Cardinality(In(Gens, "reserved", j, m))
                       - Cardinality(In(E, "reserved", j, m))
                       + IF j = k /\ m = n THEN 1 ELSE 0
    <2> DEFINE Kept == In(Gens, "reserved", j, m) \ In(E, "reserved", j, m)
    <2>1. IsFiniteSet(Kept) /\ Cardinality(Kept)
              = Cardinality(In(Gens, "reserved", j, m)) - Cardinality(In(E, "reserved", j, m))
        <3>1. In(E, "reserved", j, m) \subseteq In(Gens, "reserved", j, m)
            BY DEF In
        <3>2. QED
            BY <3>1, CountsAreNat, CardinalityOfRest, FS_Difference
    <2>2. x \notin Kept
        BY <1>2 DEF In
    <2>3. CASE j = k /\ m = n
        <3>1. In(Gens, "reserved", j, m)' = Kept \cup {x}
            BY <1>1, <1>2, <2>3 DEF In, Moved, TypeOK
        <3>2. Cardinality(Kept \cup {x}) = Cardinality(Kept) + 1
            <4> HIDE DEF Kept
            <4>1. QED
                BY <2>1, <2>2, FS_AddElement
        <3>3. Cardinality(Kept) \in Nat
            BY <2>1, FS_CardinalityType
        <3>4. QED
            BY <3>1, <3>2, <3>3, <2>1, <2>3
    <2>4. CASE ~(j = k /\ m = n)
        <3>1. In(Gens, "reserved", j, m)' = Kept
            BY <1>1, <1>2, <2>4 DEF In, Moved, TypeOK
        <3>2. Cardinality(Kept) \in Nat
            BY <2>1, FS_CardinalityType
        <3>3. Cardinality(In(Gens, "reserved", j, m)') = Cardinality(Kept)
            BY <3>1, Zenon
        <3> HIDE DEF Kept
        <3>4. QED
            BY <3>2, <3>3, <2>1, <2>4
    <2>5. QED
        BY <2>3, <2>4
<1>5. ASSUME NEW m \in Months
      PROVE  Worth(Gens, "reserved", m)'
                 = Worth(Gens, "reserved", m) - Worth(E, "reserved", m)
                       + IF m = n THEN r ELSE 0
    <2> DEFINE a == Cardinality(In(Gens, "reserved", "goal_refine", m))
               b == Cardinality(In(E, "reserved", "goal_refine", m))
               c == Cardinality(In(Gens, "reserved", "action", m))
               d == Cardinality(In(E, "reserved", "action", m))
               s == Reservation["goal_refine"]
               t == Reservation["action"]
    <2>1. a \in Nat /\ b \in Nat /\ c \in Nat /\ d \in Nat /\ s \in Nat /\ t \in Nat
        BY CountsAreNat, ReservationsAreNat
    <2>2. Worth(Gens, "reserved", m) - Worth(E, "reserved", m)
              = (s * a + t * c) - (s * b + t * d)
        BY DEF Worth
    <2>3. Worth(Gens, "reserved", m)'
              = s * (a - b + IF "goal_refine" = k /\ m = n THEN 1 ELSE 0)
                    + t * (c - d + IF "action" = k /\ m = n THEN 1 ELSE 0)
        <3>1. "goal_refine" \in Kinds /\ "action" \in Kinds
            BY DEF Kinds
        <3>2. QED
            BY <3>1, <1>4 DEF Worth
    <2> HIDE DEF a, b, c, d, s, t
    <2>4. \A e, f \in {0, 1} : s * (a - b + e) + t * (c - d + f)
              = (s * a + t * c) - (s * b + t * d) + (s * e + t * f)
        BY <2>1
    <2>5. s * (IF "goal_refine" = k /\ m = n THEN 1 ELSE 0)
              + t * (IF "action" = k /\ m = n THEN 1 ELSE 0) = IF m = n THEN r ELSE 0
        BY <2>1 DEF Kinds, s, t
    <2>6. QED
        BY <2>2, <2>3, <2>4, <2>5
<1>6. ASSUME NEW m \in Months
      PROVE  /\ Worth(E, "reserved", m) \in Nat
             /\ Worth(Gens, "absorbed", m) \in Nat
             /\ Worth(Gens, "late", m) \in Nat
    BY WorthIsNat
<1>7. \A m \in Months : reserved'[m] = reserved[m] - Worth(E, "reserved", m)
                                           + IF m = n THEN r ELSE 0
    BY <1>1, <1>6 DEF Accept, Without, TypeOK
<1>8. Typed'
    BY <1>1, <1>2, <1>6 DEF Accept, Without, TypeOK, Typed, Moved, Places
<1>9. Balanced'
    BY <1>1, <1>3, <1>5, <1>7 DEF Accept, Balanced
<1>10. WithinBudget'
    <2> SUFFICES ASSUME NEW m \in Months
                 PROVE  reserved'[m] + actual[m] + unattributed[m]
                            <= Budget + Worth(Gens, "late", m) + Worth(Gens, "absorbed", m)
        BY <1>3 DEF Accept, WithinBudget
    <2>1. CASE m = n
        <3>1. reserved'[n] + actual[n] + unattributed[n] <= Budget
            BY <1>1, <1>6, <1>7 DEF Accept, Affordable, Without, TypeOK
        <3>2. QED
            BY <2>1, <3>1, <1>1, <1>6, <1>7 DEF LedgerConstants, TypeOK
    <2>2. CASE m # n
        BY <2>2, <1>1, <1>6, <1>7 DEF LedgerConstants, TypeOK, WithinBudget
    <2>3. QED
        BY <2>1, <2>2
<1>11. QED
    BY <1>8, <1>9, <1>10, TypedIsTypeOK DEF IInv

LEMMA StepKeeps == IInv /\ [Next]_vars => IInv'
<1> SUFFICES ASSUME IInv, [Next]_vars PROVE IInv'
    OBVIOUS
<1>1. LedgerConstants
    BY DEF IInv
<1>2. CASE \E E \in SUBSET Gens : Release(E)
    BY <1>1, <1>2, ReleaseKeeps
<1>3. CASE \E E \in SUBSET Gens : Absorb(E)
    BY <1>1, <1>3, AbsorbKeeps
<1>4. CASE \E x \in Gens, k \in Kinds, m \in Months, E \in SUBSET Gens : Accept(x, k, m, E)
    BY <1>1, <1>4, AcceptKeeps
<1>5. CASE \E x \in Gens : Settle(x)
    BY <1>1, <1>5, SettleKeeps
<1>6. CASE \E x \in Gens : SettleLate(x)
    BY <1>1, <1>6, SettleLateKeeps
<1>7. CASE UNCHANGED vars
    <2>1. TypeOK'
        BY <1>7 DEF vars, IInv, TypeOK
    <2>2. \A p, m : Worth(Gens, p, m)' = Worth(Gens, p, m)
        BY <1>7 DEF vars, Worth, In
    <2>3. Balanced'
        BY <1>7, <2>2 DEF vars, IInv, Balanced
    <2>4. WithinBudget'
        BY <1>7, <2>2 DEF vars, IInv, WithinBudget
    <2>5. QED
        BY <1>1, <2>1, <2>3, <2>4 DEF IInv
<1>8. QED
    BY <1>2, <1>3, <1>4, <1>5, <1>6, <1>7 DEF Next

LEMMA SpecKeepsIInv == LedgerConstants /\ Spec => []IInv
BY InitIsIInv, StepKeeps, PTL DEF Spec

(***************************************************************************)
(* The columns of ai_budget_monthly never leave their types; in particular *)
(* no reservation is given back that is not held (CHECK                    *)
(* (reserved_cost_usd >= 0)).                                              *)
(***************************************************************************)
THEOREM LedgerTypeCorrect == LedgerConstants /\ Spec => []TypeOK
BY SpecKeepsIInv, PTL DEF IInv

(***************************************************************************)
(* The reserved and the unattributed cost of every month are exactly the   *)
(* maximum cost of the operations that run and of those that went with     *)
(* their account.                                                          *)
(***************************************************************************)
THEOREM LedgerBalanced == LedgerConstants /\ Spec => []Balanced
BY SpecKeepsIInv, PTL DEF IInv

(***************************************************************************)
(* The monthly budget is overrun only by costs that became known after     *)
(* their reservation had been given back.                                  *)
(***************************************************************************)
THEOREM LedgerWithinBudget == LedgerConstants /\ Spec => []WithinBudget
BY SpecKeepsIInv, PTL DEF IInv

=============================================================================
