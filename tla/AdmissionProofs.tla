-------------------------- MODULE AdmissionProofs --------------------------
(***************************************************************************)
(* The two gates of the system.  RiskCoordinator lets in trades, and       *)
(* AlertIntake alerts; what they promise is about sums: of the exposures   *)
(* of the symbols, of the alerts of a window.  So the lemmas come first    *)
(* that a proof about a sum needs, with the induction they rest on.        *)
(***************************************************************************)
EXTENDS RiskCoordinator, AlertIntake, FiniteSetTheorems, WellFoundedInduction, TLAPS

-----------------------------------------------------------------------------
(* Induction and sums. *)

\* Induction over the naturals, for a set of them instead of an operator.
LEMMA NatSetInduction ==
  ASSUME NEW P \in SUBSET Nat, 0 \in P, \A n \in P : n + 1 \in P
  PROVE  P = Nat
<1>. SUFFICES ASSUME Nat \ P # {} PROVE FALSE
  OBVIOUS
<1>1. PICK n \in Nat \ P : \A m \in Nat \ P : ~ (<<m, n>> \in OpToRel(<, Nat))
  <2>1. Nat \ P \subseteq Nat
    OBVIOUS
  <2>. QED BY <2>1, NatLessThanWellFounded, WFMin
<1>2. n - 1 \in Nat /\ n - 1 < n
  OBVIOUS
<1>3. n - 1 \in P
  BY <1>1, <1>2 DEF OpToRel
<1>4. (n - 1) + 1 \in P
  BY <1>3
<1>5. (n - 1) + 1 = n
  OBVIOUS
<1>. QED BY <1>1, <1>4, <1>5

\* Induction over the subsets of a finite set, for a set of them.
LEMMA SubsetInduction ==
  ASSUME NEW S, IsFiniteSet(S), NEW P,
         \A T \in SUBSET S : (\A U \in SUBSET T : U # T => U \in P) => T \in P
  PROVE  S \in P
<1> DEFINE Bad == (SUBSET S) \ P
<1>. SUFFICES ASSUME Bad # {} PROVE FALSE
  OBVIOUS
<1>1. IsWellFoundedOn(StrictSubsetOrdering(S), SUBSET S)
  <2>1. FiniteSubsetsOf(S) = SUBSET S
    BY FS_FiniteSubsetsOfFinite
  <2>2. IsWellFoundedOn(StrictSubsetOrdering(S), FiniteSubsetsOf(S))
    BY FS_StrictSubsetOrderingWellFounded
  <2>. QED BY <2>1, <2>2
<1>2. PICK T \in Bad : \A U \in Bad : ~ (<<U, T>> \in StrictSubsetOrdering(S))
  <2>1. Bad \subseteq SUBSET S
    OBVIOUS
  <2>. HIDE DEF Bad
  <2>. QED BY <1>1, <2>1, WFMin
<1>3. \A U \in SUBSET T : U # T => U \in P
  BY <1>2 DEF StrictSubsetOrdering
<1>. QED BY <1>2, <1>3

-----------------------------------------------------------------------------
Picked(T) == CHOOSE x \in T : TRUE

\* g is the function the sum over S is computed with.
Sums(g, f, S) ==
  g = [T \in SUBSET S |-> IF T = {} THEN 0 ELSE f[Picked(T)] + g[T \ {Picked(T)}]]

LEMMA PickedIn == ASSUME NEW T, T # {} PROVE Picked(T) \in T
BY DEF Picked

LEMMA SumsExist ==
  ASSUME NEW f, NEW S, IsFiniteSet(S)
  PROVE  \E g : Sums(g, f, S)
<1> DEFINE Small(n) == {T \in SUBSET S : Cardinality(T) <= n}
           Works(g, n) == g = [T \in Small(n) |-> IF T = {} THEN 0 ELSE f[Picked(T)] + g[T \ {Picked(T)}]]
           P == {n \in Nat : \E g : Works(g, n)}
<1>0. \A T \in SUBSET S : IsFiniteSet(T) /\ Cardinality(T) \in Nat /\ (Cardinality(T) <= 0 => T = {}) /\ Cardinality({}) = 0
  <2>. SUFFICES ASSUME NEW T \in SUBSET S
                PROVE  IsFiniteSet(T) /\ Cardinality(T) \in Nat /\ (Cardinality(T) <= 0 => T = {}) /\ Cardinality({}) = 0
    OBVIOUS
  <2>1. IsFiniteSet(T)
    BY FS_Subset
  <2>2. Cardinality(T) \in Nat
    BY <2>1, FS_CardinalityType
  <2>3. Cardinality({}) = 0 /\ (Cardinality(T) = 0 => T = {})
    BY <2>1, FS_EmptySet
  <2>. QED BY <2>1, <2>2, <2>3
<1>1. \A n \in Nat : \A T \in Small(n + 1) :
        T # {} => Picked(T) \in T /\ T \ {Picked(T)} \in Small(n)
  <2>. SUFFICES ASSUME NEW n \in Nat, NEW T \in Small(n + 1), T # {}
                PROVE  Picked(T) \in T /\ T \ {Picked(T)} \in Small(n)
    OBVIOUS
  <2>1. Picked(T) \in T
    BY PickedIn
  <2>2. Cardinality(T \ {Picked(T)}) = Cardinality(T) - 1
    BY <1>0, <2>1, FS_RemoveElement
  <2>. QED BY <1>0, <2>1, <2>2
<1>2. 0 \in P
  <2>1. Small(0) = {{}}
    BY <1>0
  <2>2. Works([T \in Small(0) |-> 0], 0)
    BY <2>1
  <2>. QED BY <2>2
<1>3. \A n \in P : n + 1 \in P
  <2>. SUFFICES ASSUME NEW n \in P PROVE n + 1 \in P
    OBVIOUS
  <2>0. PICK g : Works(g, n)
    OBVIOUS
  <2> DEFINE h == [T \in Small(n + 1) |-> IF T = {} THEN 0 ELSE f[Picked(T)] + g[T \ {Picked(T)}]]
  <2>1. Small(n) \subseteq Small(n + 1)
    BY <1>0
  <2>2. \A T \in Small(n) : h[T] = g[T]
    BY <2>0, <2>1
  <2>3. \A T \in Small(n + 1) : T # {} => h[T \ {Picked(T)}] = g[T \ {Picked(T)}]
    BY <1>1, <2>2
  <2>4. Works(h, n + 1)
    BY <2>3
  <2>5. n + 1 \in Nat /\ \E w : Works(w, n + 1)
    <3>. HIDE DEF h, Works
    <3>. QED BY <2>4
  <2>. QED BY <2>5
<1>4. Cardinality(S) \in P
  <2>. HIDE DEF P
  <2>1. P \subseteq Nat
    BY DEF P
  <2>. QED BY <1>0, <1>2, <1>3, <2>1, NatSetInduction
<1>5. Small(Cardinality(S)) = SUBSET S
  BY FS_Subset
<1>. QED BY <1>4, <1>5 DEF Sums

\* A sum over a subset is computed alike.
LEMMA SumsAgree ==
  ASSUME NEW f, NEW S, IsFiniteSet(S), NEW T \in SUBSET S, NEW g, NEW h,
         Sums(g, f, S), Sums(h, f, T)
  PROVE  g[T] = h[T]
<1> DEFINE P == {U \in SUBSET T : g[U] = h[U]}
<1>1. IsFiniteSet(T)
  BY FS_Subset
<1>2. ASSUME NEW U \in SUBSET T, \A V \in SUBSET U : V # U => V \in P
      PROVE  U \in P
  <2>1. CASE U = {}
    BY <2>1 DEF Sums
  <2>2. CASE U # {}
    <3>1. Picked(U) \in U
      BY <2>2, PickedIn
    <3>2. g[U \ {Picked(U)}] = h[U \ {Picked(U)}]
      BY <1>2, <3>1
    <3>3. g[U] = f[Picked(U)] + g[U \ {Picked(U)}]
      BY <2>2 DEF Sums
    <3>4. h[U] = f[Picked(U)] + h[U \ {Picked(U)}]
      BY <2>2 DEF Sums
    <3>. QED BY <3>2, <3>3, <3>4
  <2>. QED BY <2>1, <2>2
<1>3. T \in P
  <2>. HIDE DEF P
  <2>. QED BY <1>1, <1>2, SubsetInduction
<1>. QED BY <1>3

LEMMA SumOverIs ==
  ASSUME NEW f, NEW S
  PROVE  SumOver(f, S) = (CHOOSE g : Sums(g, f, S))[S]
BY DEF SumOver, MapThenSumSet, MapThenFoldSet, Sums, Picked

LEMMA SumEmpty == ASSUME NEW f PROVE SumOver(f, {}) = 0
<1>1. PICK g : Sums(g, f, {})
  BY SumsExist, FS_EmptySet
<1>2. Sums(CHOOSE h : Sums(h, f, {}), f, {})
  BY <1>1
<1>. QED BY <1>2, SumOverIs DEF Sums

LEMMA SumPicked ==
  ASSUME NEW f, NEW S, IsFiniteSet(S), S # {}
  PROVE  SumOver(f, S) = f[Picked(S)] + SumOver(f, S \ {Picked(S)})
<1> DEFINE g == CHOOSE h : Sums(h, f, S)
           R == S \ {Picked(S)}
           r == CHOOSE h : Sums(h, f, R)
<1>1. Sums(g, f, S)
  BY SumsExist
<1>2. IsFiniteSet(R) /\ R \in SUBSET S
  BY FS_Subset
<1>3. Sums(r, f, R)
  BY <1>2, SumsExist
<1>4. g[S] = f[Picked(S)] + g[R]
  BY <1>1 DEF Sums
<1>5. g[R] = r[R]
  BY <1>1, <1>2, <1>3, SumsAgree
<1>. QED BY <1>4, <1>5, SumOverIs

-----------------------------------------------------------------------------
\* The order in which the elements are taken does not matter.
LEMMA SumRemove ==
  ASSUME NEW f, NEW S, IsFiniteSet(S), \A y \in S : f[y] \in Int
  PROVE  SumOver(f, S) \in Int /\ \A x \in S : SumOver(f, S) = f[x] + SumOver(f, S \ {x})
<1> DEFINE P == {T \in SUBSET S : /\ SumOver(f, T) \in Int
                                 /\ \A x \in T : SumOver(f, T) = f[x] + SumOver(f, T \ {x})}
<1>1. ASSUME NEW T \in SUBSET S, \A U \in SUBSET T : U # T => U \in P
      PROVE  T \in P
  <2>1. CASE T = {}
    BY <2>1, SumEmpty
  <2>2. CASE T # {}
    <3> DEFINE y == Picked(T)
    <3>1. y \in T /\ IsFiniteSet(T)
      BY <2>2, PickedIn, FS_Subset
    <3>2. SumOver(f, T) = f[y] + SumOver(f, T \ {y})
      BY <2>2, <3>1, SumPicked
    <3>. HIDE DEF y
    <3>3. f[y] \in Int /\ SumOver(f, T \ {y}) \in Int
      BY <1>1, <3>1
    <3>4. ASSUME NEW x \in T, x # y PROVE SumOver(f, T) = f[x] + SumOver(f, T \ {x})
      <4>1. T \ {y} \in P /\ T \ {x} \in P
        BY <1>1, <3>1
      <4>2. SumOver(f, T \ {y}) = f[x] + SumOver(f, (T \ {y}) \ {x})
        BY <4>1, <3>4
      <4>3. SumOver(f, T \ {x}) = f[y] + SumOver(f, (T \ {x}) \ {y})
        BY <4>1, <3>1, <3>4
      <4>4. (T \ {y}) \ {x} = (T \ {x}) \ {y}
        OBVIOUS
      <4>5. (T \ {y}) \ {x} \in P
        BY <1>1, <3>1
      <4>6. SumOver(f, (T \ {y}) \ {x}) \in Int /\ f[x] \in Int
        BY <4>5
      <4>7. SumOver(f, T \ {x}) = f[y] + SumOver(f, (T \ {y}) \ {x})
        BY <4>3, <4>4
      <4>8. \A a, b, c \in Int : a + (b + c) = b + (a + c)
        OBVIOUS
      <4>. QED BY <3>2, <3>3, <4>2, <4>6, <4>7, <4>8
    <3>5. SumOver(f, T) \in Int
      BY <3>2, <3>3
    <3>6. \A x \in T : SumOver(f, T) = f[x] + SumOver(f, T \ {x})
      BY <3>2, <3>4
    <3>. QED BY <3>5, <3>6
  <2>. QED BY <2>1, <2>2
<1>2. S \in P
  <2>. HIDE DEF P
  <2>. QED BY <1>1, SubsetInduction
<1>. QED BY <1>2

\* Functions that agree on the set have the same sum.
LEMMA SumSame ==
  ASSUME NEW f, NEW g, NEW S, IsFiniteSet(S), \A x \in S : f[x] = g[x]
  PROVE  SumOver(f, S) = SumOver(g, S)
<1> DEFINE P == {T \in SUBSET S : SumOver(f, T) = SumOver(g, T)}
<1>1. ASSUME NEW T \in SUBSET S, \A U \in SUBSET T : U # T => U \in P
      PROVE  T \in P
  <2>1. CASE T = {}
    BY <2>1, SumEmpty
  <2>2. CASE T # {}
    <3>1. Picked(T) \in T /\ IsFiniteSet(T)
      BY <2>2, PickedIn, FS_Subset
    <3>2. T \ {Picked(T)} \in P
      BY <1>1, <3>1
    <3>. QED BY <2>2, <3>1, <3>2, SumPicked
  <2>. QED BY <2>1, <2>2
<1>2. S \in P
  <2>. HIDE DEF P
  <2>. QED BY <1>1, SubsetInduction
<1>. QED BY <1>2

\* A change at one element changes the sum by as much.
LEMMA SumChange ==
  ASSUME NEW f, NEW g, NEW S, IsFiniteSet(S), NEW x \in S,
         \A y \in S : f[y] \in Int, g[x] \in Int,
         \A y \in S : y # x => g[y] = f[y]
  PROVE  SumOver(g, S) = SumOver(f, S) + (g[x] - f[x])
<1>1. IsFiniteSet(S \ {x})
  BY FS_RemoveElement
<1>2. SumOver(f, S \ {x}) = SumOver(g, S \ {x})
  BY <1>1, SumSame
<1>3. SumOver(f, S \ {x}) \in Int
  BY <1>1, SumRemove
<1>4. \A y \in S : g[y] \in Int
  OBVIOUS
<1>5. SumOver(f, S) = f[x] + SumOver(f, S \ {x})
  BY SumRemove
<1>6. SumOver(g, S) = g[x] + SumOver(g, S \ {x})
  BY <1>4, SumRemove
<1>. QED BY <1>2, <1>3, <1>5, <1>6

\* Smaller terms have a smaller sum.
LEMMA SumMonotone ==
  ASSUME NEW f, NEW g, NEW S, IsFiniteSet(S),
         \A x \in S : f[x] \in Int /\ g[x] \in Int /\ f[x] <= g[x]
  PROVE  SumOver(f, S) <= SumOver(g, S)
<1> DEFINE P == {T \in SUBSET S : SumOver(f, T) <= SumOver(g, T)}
<1>1. ASSUME NEW T \in SUBSET S, \A U \in SUBSET T : U # T => U \in P
      PROVE  T \in P
  <2>1. CASE T = {}
    BY <2>1, SumEmpty
  <2>2. CASE T # {}
    <3> DEFINE y == Picked(T)
    <3>1. y \in T /\ IsFiniteSet(T) /\ IsFiniteSet(T \ {y})
      BY <2>2, PickedIn, FS_Subset
    <3>2. SumOver(f, T \ {y}) <= SumOver(g, T \ {y})
      BY <1>1, <3>1
    <3>3. SumOver(f, T \ {y}) \in Int /\ SumOver(g, T \ {y}) \in Int
      BY <3>1, SumRemove
    <3>4. SumOver(f, T) = f[y] + SumOver(f, T \ {y}) /\ SumOver(g, T) = g[y] + SumOver(g, T \ {y})
      BY <2>2, <3>1, SumPicked
    <3>5. f[y] \in Int /\ g[y] \in Int /\ f[y] <= g[y]
      BY <3>1
    <3>. QED BY <3>2, <3>3, <3>4, <3>5
  <2>. QED BY <2>1, <2>2
<1>2. S \in P
  <2>. HIDE DEF P
  <2>. QED BY <1>1, SubsetInduction
<1>. QED BY <1>2

\* Terms that are all the same.
LEMMA SumConstant ==
  ASSUME NEW f, NEW S, IsFiniteSet(S), NEW c \in Int, \A x \in S : f[x] = c
  PROVE  SumOver(f, S) = Cardinality(S) * c
<1> DEFINE P == {T \in SUBSET S : SumOver(f, T) = Cardinality(T) * c}
<1>1. ASSUME NEW T \in SUBSET S, \A U \in SUBSET T : U # T => U \in P
      PROVE  T \in P
  <2>1. CASE T = {}
    BY <2>1, SumEmpty, FS_EmptySet
  <2>2. CASE T # {}
    <3> DEFINE y == Picked(T)
    <3>1. y \in T /\ IsFiniteSet(T)
      BY <2>2, PickedIn, FS_Subset
    <3>2. SumOver(f, T \ {y}) = Cardinality(T \ {y}) * c
      BY <1>1, <3>1
    <3>3. Cardinality(T) \in Nat /\ Cardinality(T \ {y}) = Cardinality(T) - 1
      BY <3>1, FS_CardinalityType, FS_RemoveElement
    <3>4. SumOver(f, T) = c + SumOver(f, T \ {y})
      BY <2>2, <3>1, SumPicked
    <3>5. \A n \in Int : c + (n - 1) * c = n * c
      OBVIOUS
    <3>. QED BY <3>2, <3>3, <3>4, <3>5
  <2>. QED BY <2>1, <2>2
<1>2. S \in P
  <2>. HIDE DEF P
  <2>. QED BY <1>1, SubsetInduction
<1>. QED BY <1>2

\* What is summed over a part is no more than what is summed over the whole.
LEMMA SumPart ==
  ASSUME NEW f, NEW S, IsFiniteSet(S), NEW R \in SUBSET S, \A x \in S : f[x] \in Nat
  PROVE  SumOver(f, R) \in Nat /\ SumOver(f, R) <= SumOver(f, S)
<1> DEFINE P == {T \in SUBSET S : /\ SumOver(f, T) \in Nat
                                 /\ \A U \in SUBSET T : SumOver(f, U) \in Nat /\ SumOver(f, U) <= SumOver(f, T)}
<1>1. ASSUME NEW T \in SUBSET S, \A U \in SUBSET T : U # T => U \in P
      PROVE  T \in P
  <2>0. IsFiniteSet(T)
    BY FS_Subset
  <2>1. ASSUME NEW U \in SUBSET T, U # T PROVE SumOver(f, U) \in Nat /\ SumOver(f, U) <= SumOver(f, T)
    <3>1. PICK x \in T : x \notin U
      BY <2>1
    <3>2. SumOver(f, T) = f[x] + SumOver(f, T \ {x})
      BY <2>0, SumRemove
    <3>3. T \ {x} \in P /\ U \in SUBSET (T \ {x})
      BY <1>1, <3>1
    <3>4. f[x] \in Nat
      OBVIOUS
    <3>. QED BY <3>2, <3>3, <3>4
  <2>2. SumOver(f, T) \in Nat
    <3>1. CASE T = {}
      BY <3>1, SumEmpty
    <3>2. CASE T # {}
      <4>1. PICK x \in T : TRUE
        BY <3>2
      <4>2. SumOver(f, T) = f[x] + SumOver(f, T \ {x})
        BY <2>0, SumRemove
      <4>3. T \ {x} \in P
        BY <1>1
      <4>. QED BY <4>2, <4>3
    <3>. QED BY <3>1, <3>2
  <2>. QED BY <2>1, <2>2
<1>2. S \in P
  <2>. HIDE DEF P
  <2>. QED BY <1>1, SubsetInduction
<1>. QED BY <1>2
\* Terms that are zero do not count.
LEMMA SumSupport ==
  ASSUME NEW f, NEW S, IsFiniteSet(S), NEW R \in SUBSET S,
         \A x \in S : f[x] \in Int, \A x \in S \ R : f[x] = 0
  PROVE  SumOver(f, S) = SumOver(f, R)
<1> DEFINE P == {T \in SUBSET S : R \subseteq T => SumOver(f, T) = SumOver(f, R)}
<1>1. ASSUME NEW T \in SUBSET S, \A U \in SUBSET T : U # T => U \in P
      PROVE  T \in P
  <2>1. CASE R \subseteq T /\ T # R
    <3>1. PICK x \in T : x \notin R
      BY <2>1
    <3>2. T \ {x} \in P /\ R \subseteq T \ {x} /\ f[x] = 0 /\ IsFiniteSet(T)
      BY <1>1, <2>1, <3>1, FS_Subset
    <3>3. SumOver(f, T) = f[x] + SumOver(f, T \ {x}) /\ SumOver(f, T) \in Int
      BY <3>2, SumRemove
    <3>4. SumOver(f, T \ {x}) \in Int
      <4>1. IsFiniteSet(T \ {x})
        BY FS_Subset
      <4>. QED BY <4>1, SumRemove
    <3>. QED BY <3>2, <3>3, <3>4
  <2>. QED BY <2>1
<1>2. S \in P
  <2>. HIDE DEF P
  <2>. QED BY <1>1, SubsetInduction
<1>. QED BY <1>2

-----------------------------------------------------------------------------
(* RiskCoordinator, for every set of symbols, every allocation of the capital *)
(* and every limit.                                                           *)

\* The types these properties need.  That an exposure is not negative follows from
\* the books, further down.
SymbolTypes ==
  /\ symbolExposure \in [Symbols -> Int] /\ pending \in [Symbols -> Sizes \cup {0}]
  /\ streak \in [Symbols -> Nat]
  /\ breaker \in [Symbols -> {"off", "on", "rested"}]
  /\ guarded \subseteq Symbols

\* A breaker that is off has not seen its number of losses in a row.
BreakerInv == \A s \in Symbols : breaker[s] = "off" => streak[s] < LossCount

GuardInv == SymbolTypes /\ AllocationKept /\ BreakerInv

-----------------------------------------------------------------------------
LEMMA Amounts ==
  /\ \A size \in Sizes : size \in Nat \ {0}
  /\ \A loss \in Losses : loss \in Nat \ {0}
  /\ \A s \in Symbols : Allocation[s] \in Nat
  /\ LossCount \in Nat \ {0}
BY CoordinatorAssumption DEF CoordinatorAssumption

\* A check changes what one symbol may book, and perhaps releases its breaker.
LEMMA CheckKeeps ==
  ASSUME GuardInv, NEW s \in Symbols, NEW size \in Sizes, CheckTradeAllowed(s, size)
  PROVE  GuardInv'
<1>1. SymbolTypes'
  BY Amounts DEF GuardInv, SymbolTypes, CheckTradeAllowed
<1>2. AllocationKept'
  <2>1. ASSUME Answer(s, size) = "OK" PROVE symbolExposure[s] + size <= Allocation[s]
    <3>1. PortfolioCheck(s, size) = "OK"
      BY <2>1 DEF Answer
    <3>2. symbolExposure[s] + size \in Int /\ Allocation[s] \in Int
      BY Amounts DEF GuardInv, SymbolTypes
    <3>. QED BY <3>1, <3>2 DEF PortfolioCheck
  <2>2. symbolExposure[s] + 0 <= Allocation[s]
    BY Amounts DEF GuardInv, AllocationKept, CheckTradeAllowed
  <2>3. (pending'[s] = size /\ Answer(s, size) = "OK") \/ pending'[s] = 0
    BY DEF CheckTradeAllowed, GuardInv, SymbolTypes
  <2>4. symbolExposure'[s] + pending'[s] <= Allocation[s]
    BY <2>1, <2>2, <2>3 DEF CheckTradeAllowed
  <2>5. \A r \in Symbols : r # s => symbolExposure'[r] = symbolExposure[r] /\ pending'[r] = pending[r]
    BY DEF CheckTradeAllowed, GuardInv, SymbolTypes
  <2>. QED BY <2>4, <2>5 DEF AllocationKept, GuardInv
<1>3. BreakerInv'
  <2>1. CASE AsksSymbol(s, size) /\ Released(s)
    BY <2>1, Amounts DEF CheckTradeAllowed, GuardInv, SymbolTypes, BreakerInv
  <2>2. CASE ~(AsksSymbol(s, size) /\ Released(s))
    BY <2>2 DEF CheckTradeAllowed, GuardInv, BreakerInv
  <2>. QED BY <2>1, <2>2
<1>. QED BY <1>1, <1>2, <1>3 DEF GuardInv

\* The size that was allowed becomes exposure.
LEMMA EntryKeeps ==
  ASSUME GuardInv, NEW s \in Symbols, OnTradeEntry(s)
  PROVE  GuardInv'
<1>1. SymbolTypes'
  BY Amounts DEF GuardInv, SymbolTypes, OnTradeEntry, BookEntry
<1>2. AllocationKept'
  <2>1. symbolExposure'[s] + pending'[s] = symbolExposure[s] + pending[s]
    BY Amounts DEF OnTradeEntry, BookEntry, GuardInv, SymbolTypes
  <2>2. \A r \in Symbols : r # s => symbolExposure'[r] = symbolExposure[r] /\ pending'[r] = pending[r]
    BY DEF OnTradeEntry, BookEntry, GuardInv, SymbolTypes
  <2>. QED BY <2>1, <2>2 DEF AllocationKept, GuardInv
<1>3. BreakerInv'
  BY DEF OnTradeEntry, BookEntry, GuardInv, BreakerInv
<1>. QED BY <1>1, <1>2, <1>3 DEF GuardInv

\* An exit gives exposure back and may set the breaker.
LEMMA ExitKeeps ==
  ASSUME GuardInv, NEW s \in Symbols, NEW size \in Sizes, NEW pnl \in Int,
         OnTradeExit(s, size, pnl)
  PROVE  GuardInv'
<1>1. SymbolTypes'
  <2>1. symbolExposure' \in [Symbols -> Int] /\ pending' = pending /\ guarded' = guarded
    BY Amounts DEF OnTradeExit, ReleaseExposure, GuardInv, SymbolTypes
  <2>2. streak' \in [Symbols -> Nat] /\ breaker' \in [Symbols -> {"off", "on", "rested"}]
    BY DEF OnTradeExit, BookPnl, GuardInv, SymbolTypes
  <2>. QED BY <2>1, <2>2 DEF GuardInv, SymbolTypes
<1>2. AllocationKept'
  <2>1. pending' = pending /\ symbolExposure'[s] = symbolExposure[s] - size
        /\ \A r \in Symbols : r # s => symbolExposure'[r] = symbolExposure[r]
    BY DEF OnTradeExit, ReleaseExposure, GuardInv, SymbolTypes
  <2>2. pending[s] \in Nat /\ size \in Nat /\ symbolExposure[s] \in Int /\ Allocation[s] \in Nat
    BY Amounts DEF GuardInv, SymbolTypes
  <2>3. symbolExposure'[s] + pending'[s] <= Allocation[s]
    BY <2>1, <2>2 DEF GuardInv, AllocationKept
  <2>. QED BY <2>1, <2>3 DEF GuardInv, AllocationKept
<1>3. BreakerInv'
  BY Amounts DEF OnTradeExit, BookPnl, GuardInv, SymbolTypes, BreakerInv
<1>. QED BY <1>1, <1>2, <1>3 DEF GuardInv

\* What is left does not touch these properties, or ends the rest of a breaker.
LEMMA OthersKeep ==
  ASSUME GuardInv, NEW s \in Symbols, EntryFails(s) \/ AddSymbol(s) \/ TimePasses(s)
  PROVE  GuardInv'
<1>1. CASE EntryFails(s)
  <2>1. SymbolTypes' /\ BreakerInv'
    BY <1>1 DEF EntryFails, symbolVars, GuardInv, SymbolTypes, BreakerInv
  <2>2. symbolExposure' = symbolExposure /\ pending'[s] = 0 /\ pending[s] \in Nat
        /\ \A r \in Symbols : r # s => pending'[r] = pending[r]
    BY <1>1, Amounts DEF EntryFails, GuardInv, SymbolTypes
  <2>3. AllocationKept'
    BY <2>2, Amounts DEF GuardInv, AllocationKept, SymbolTypes
  <2>. QED BY <2>1, <2>3 DEF GuardInv
<1>2. CASE AddSymbol(s)
  BY <1>2 DEF AddSymbol, symbolVars, taskVars, GuardInv, SymbolTypes, AllocationKept, BreakerInv
<1>3. CASE TimePasses(s)
  BY <1>3 DEF TimePasses, CooldownEnds, BreakerRests, taskVars, GuardInv, SymbolTypes, AllocationKept,
     BreakerInv
<1>. QED BY <1>1, <1>2, <1>3

LEMMA GuardInitial == CoordinatorInit => GuardInv
<1>. SUFFICES ASSUME CoordinatorInit PROVE GuardInv
  OBVIOUS
<1>1. SymbolTypes /\ BreakerInv
  BY Amounts DEF CoordinatorInit, SymbolTypes, BreakerInv, Funded
<1>2. AllocationKept
  BY Amounts DEF CoordinatorInit, AllocationKept
<1>. QED BY <1>1, <1>2 DEF GuardInv

LEMMA GuardStep == GuardInv /\ [CoordinatorNext]_vars => GuardInv'
<1>. SUFFICES ASSUME GuardInv, [CoordinatorNext]_vars PROVE GuardInv'
  OBVIOUS
<1>1. CASE UNCHANGED vars
  BY <1>1 DEF vars, symbolVars, taskVars, GuardInv, SymbolTypes, AllocationKept, BreakerInv
<1>2. ASSUME NEW s \in Symbols, Task(s) PROVE GuardInv'
  <2>1. ASSUME NEW size \in Sizes, CheckTradeAllowed(s, size) PROVE GuardInv'
    BY <2>1, CheckKeeps
  <2>2. ASSUME NEW size \in Sizes, NEW loss \in Losses, OnTradeExit(s, size, -loss)
        PROVE GuardInv'
    <3>1. -loss \in Int
      BY Amounts
    <3>. QED BY <2>2, <3>1, ExitKeeps
  <2>3. ASSUME NEW size \in Sizes, OnTradeExit(s, size, Profit) PROVE GuardInv'
    <3>1. Profit \in Int
      BY DEF Profit
    <3>. QED BY <2>3, <3>1, ExitKeeps
  <2>. QED BY <1>2, <2>1, <2>2, <2>3, EntryKeeps, OthersKeep DEF Task
<1>3. ASSUME NEW s \in Symbols, AddSymbol(s) \/ TimePasses(s) PROVE GuardInv'
  BY <1>3, OthersKeep
<1>. QED BY <1>1, <1>2, <1>3 DEF CoordinatorNext

-----------------------------------------------------------------------------
\* The inductive invariant holds of every reachable state.
THEOREM GuardInvariant == CoordinatorSpec => []GuardInv
BY GuardInitial, GuardStep, PTL DEF CoordinatorSpec

\* Between a check and its booking no other call takes a symbol's capital: what it
\* has and what it may still book stay within the allocation.
THEOREM AllocationIsKept == CoordinatorSpec => []AllocationKept
<1>1. GuardInv => AllocationKept
  BY DEF GuardInv
<1>. QED BY GuardInvariant, <1>1, PTL

\* SymbolGuard allows no trade while the circuit breaker is on and not rested.
THEOREM BreakerIsWaitedFor == CoordinatorSpec => BreakerHolds
<1> DEFINE Waits == \A s \in guarded :
      pending[s] = 0 /\ pending'[s] # 0 => breaker[s] # "on" /\ streak'[s] < LossCount
<1>1. GuardInv /\ [CoordinatorNext]_vars => [Waits]_vars
  <2>. SUFFICES ASSUME GuardInv, CoordinatorNext, NEW s \in guarded,
                       pending[s] = 0, pending'[s] # 0
                PROVE  breaker[s] # "on" /\ streak'[s] < LossCount
    OBVIOUS
  <2>0. s \in Symbols
    BY DEF GuardInv, SymbolTypes
  <2>1. PICK r \in Symbols : Task(r) \/ AddSymbol(r) \/ TimePasses(r)
    BY DEF CoordinatorNext
  <2>2. PICK size \in Sizes : CheckTradeAllowed(r, size)
    BY <2>0, <2>1 DEF Task, OnTradeEntry, EntryFails, OnTradeExit, AddSymbol, TimePasses, CooldownEnds,
       BreakerRests, taskVars, GuardInv, SymbolTypes
  <2>3. r = s /\ Answer(s, size) = "OK"
    BY <2>0, <2>2 DEF CheckTradeAllowed, GuardInv, SymbolTypes
  <2>4. AsksSymbol(s, size) /\ SymbolCheck(s, size) = "OK"
    BY <2>3 DEF Answer, AsksSymbol
  <2>5. breaker[s] = "off" \/ breaker[s] = "rested"
    BY <2>0, <2>4 DEF SymbolCheck, Released, GuardInv, SymbolTypes
  <2>6. CASE breaker[s] = "rested"
    BY <2>0, <2>2, <2>3, <2>4, <2>6, Amounts DEF CheckTradeAllowed, Released, GuardInv, SymbolTypes
  <2>7. CASE breaker[s] = "off"
    BY <2>0, <2>2, <2>3, <2>7 DEF CheckTradeAllowed, Released, GuardInv, BreakerInv
  <2>. QED BY <2>5, <2>6, <2>7
<1>. QED BY GuardInvariant, <1>1, PTL DEF CoordinatorSpec, BreakerHolds

-----------------------------------------------------------------------------
(* The books of the three guards. *)

BookTypes ==
  /\ exposure \in Int /\ dailyLoss \in Int
  /\ positions \in [Symbols -> Int] /\ symbolLoss \in [Symbols -> Int]
  /\ open \in [Symbols -> [Sizes -> Nat]]
  /\ guardExposure \in [Symbols -> Int] /\ exited \in [Symbols -> Int]

\* A symbol without a guard has no capital and has never traded.
Idle ==
  \A s \in Symbols \ guarded :
    /\ Allocation[s] = 0 /\ pending[s] = 0 /\ symbolExposure[s] = 0
    /\ \A size \in Sizes : open[s][size] = 0

BookInv == BookTypes /\ Idle /\ BooksAgree

LEMMA Finite == IsFiniteSet(Symbols) /\ IsFiniteSet(Sizes)
BY CoordinatorAssumption DEF CoordinatorAssumption

\* One entry of a table changes.
LEMMA TotalChange ==
  ASSUME NEW S, IsFiniteSet(S), NEW f \in [S -> Int], NEW x \in S, NEW n \in Int
  PROVE  Total([f EXCEPT ![x] = n]) = Total(f) + (n - f[x])
<1> DEFINE g == [f EXCEPT ![x] = n]
<1>1. g[x] = n /\ \A y \in S : y # x => g[y] = f[y]
  OBVIOUS
<1>2. SumOver(g, S) = SumOver(f, S) + (g[x] - f[x])
  <2>. HIDE DEF g
  <2>. QED BY <1>1, SumChange
<1>3. DOMAIN g = S /\ DOMAIN f = S
  OBVIOUS
<1>. QED BY <1>1, <1>2, <1>3 DEF Total

LEMMA TotalZero ==
  ASSUME NEW S, IsFiniteSet(S), NEW f, f = [x \in S |-> 0]
  PROVE  Total(f) = 0
<1>1. SumOver(f, S) = Cardinality(S) * 0
  BY SumConstant
<1>2. Cardinality(S) \in Nat
  BY FS_CardinalityType
<1>. QED BY <1>1, <1>2 DEF Total

LEMMA TotalType ==
  ASSUME NEW S, IsFiniteSet(S), NEW f \in [S -> Int]
  PROVE  Total(f) \in Int
BY SumRemove DEF Total

\* What the positions of one symbol, counted by size, add up to.
Worth(o) == Total([size \in Sizes |-> size * o[size]])

\* The number of the positions of one size changes.
LEMMA WorthChange ==
  ASSUME NEW o \in [Sizes -> Nat], NEW size \in Sizes, NEW n \in Nat,
         NEW p, p = [o EXCEPT ![size] = n]
  PROVE  Worth(p) = Worth(o) + size * (n - o[size]) /\ Total(p) = Total(o) + (n - o[size])
<1> DEFINE f == [z \in Sizes |-> z * o[z]]
           g == [z \in Sizes |-> z * p[z]]
<1>1. f \in [Sizes -> Int] /\ size * n \in Int
  BY Amounts
<1>2. g = [f EXCEPT ![size] = size * n]
  OBVIOUS
<1>3. Total(g) = Total(f) + (size * n - f[size])
  <2>. HIDE DEF f, g
  <2>. QED BY <1>1, <1>2, Finite, TotalChange
<1>4. f[size] = size * o[size] /\ size \in Int /\ o[size] \in Int
  BY Amounts
<1>5. size * n - size * o[size] = size * (n - o[size])
  BY <1>4
<1>6. Total(p) = Total(o) + (n - o[size])
  <2>1. o \in [Sizes -> Int] /\ n \in Int
    OBVIOUS
  <2>. QED BY <2>1, Finite, TotalChange
<1>7. Worth(p) = Total(g) /\ Worth(o) = Total(f)
  BY DEF Worth
<1>. QED BY <1>3, <1>4, <1>5, <1>6, <1>7

LEMMA BooksInitial == CoordinatorInit => BookInv
<1>. SUFFICES ASSUME CoordinatorInit PROVE BookInv
  OBVIOUS
<1>1. BookTypes /\ Idle
  BY Amounts DEF CoordinatorInit, BookTypes, Idle, Funded
<1>2. Total(symbolExposure) = 0 /\ Total(symbolLoss) = 0
  BY Finite, TotalZero DEF CoordinatorInit
<1>3. ASSUME NEW s \in Symbols PROVE Held(s) = 0 /\ Count(s) = 0
  <2>1. [size \in Sizes |-> size * open[s][size]] = [size \in Sizes |-> 0]
    BY Amounts DEF CoordinatorInit
  <2>2. open[s] = [size \in Sizes |-> 0]
    BY DEF CoordinatorInit
  <2>. QED BY <2>1, <2>2, Finite, TotalZero DEF Held, Count
<1>. QED BY <1>1, <1>2, <1>3 DEF BookInv, BooksAgree, CoordinatorInit

LEMMA EntryBooked ==
  ASSUME GuardInv, BookInv, NEW s \in Symbols, OnTradeEntry(s)
  PROVE  BookInv'
<1> DEFINE size == pending[s]
           n == open[s][size] + 1
<1>1. size \in Sizes /\ size \in Nat /\ s \in guarded /\ guarded' = guarded
  BY Amounts DEF OnTradeEntry, BookEntry, GuardInv, SymbolTypes, BookInv, Idle
<1>2. /\ exposure' = exposure + size /\ dailyLoss' = dailyLoss /\ symbolLoss' = symbolLoss
      /\ symbolExposure' = [symbolExposure EXCEPT ![s] = symbolExposure[s] + size]
      /\ positions' = [positions EXCEPT ![s] = positions[s] + 1]
      /\ pending' = [pending EXCEPT ![s] = 0] /\ exited' = exited
      /\ guardExposure' = [guardExposure EXCEPT ![s] = guardExposure[s] + size]
  BY <1>1 DEF OnTradeEntry, BookEntry
<1>3. open' = [open EXCEPT ![s] = [open[s] EXCEPT ![size] = n]]
  BY DEF OnTradeEntry, BookEntry
<1>. HIDE DEF size
<1>4. open[s] \in [Sizes -> Nat] /\ n \in Nat /\ n - open[s][size] = 1
  BY <1>1 DEF BookInv, BookTypes
<1>. HIDE DEF n
<1>5. BookTypes'
  BY <1>1, <1>2, <1>3, <1>4 DEF BookInv, BookTypes
<1>6. Idle'
  BY <1>1, <1>2, <1>3 DEF BookInv, Idle, GuardInv, SymbolTypes, BookTypes
<1>7. exposure' = Total(symbolExposure')
  <2>1. symbolExposure \in [Symbols -> Int] /\ symbolExposure[s] + size \in Int
    BY <1>1 DEF GuardInv, SymbolTypes
  <2>2. Total([symbolExposure EXCEPT ![s] = symbolExposure[s] + size])
          = Total(symbolExposure) + ((symbolExposure[s] + size) - symbolExposure[s])
    BY <2>1, Finite, TotalChange
  <2>3. symbolExposure[s] \in Int /\ Total(symbolExposure) \in Int
    BY <2>1, Finite, TotalType
  <2>. QED BY <1>1, <1>2, <2>2, <2>3 DEF BookInv, BookTypes, BooksAgree
<1>8. ASSUME NEW r \in Symbols PROVE symbolExposure'[r] = Held(r)' /\ positions'[r] = Count(r)'
  <2>0. /\ symbolExposure[r] = Held(r) /\ positions[r] = Count(r)
        /\ symbolExposure[r] \in Int /\ positions[r] \in Int
    BY DEF BookInv, BooksAgree, BookTypes, GuardInv, SymbolTypes
  <2>1. CASE r = s
    <3>1. open'[s] = [open[s] EXCEPT ![size] = n]
      BY <1>3 DEF BookInv, BookTypes
    <3>2. /\ Worth(open'[s]) = Worth(open[s]) + size * (n - open[s][size])
          /\ Total(open'[s]) = Total(open[s]) + (n - open[s][size])
      BY <1>1, <1>4, <3>1, WorthChange
    <3>3. symbolExposure'[s] = symbolExposure[s] + size /\ positions'[s] = positions[s] + 1
      BY <1>2 DEF BookInv, BookTypes, GuardInv, SymbolTypes
    <3>4. Held(s) = Worth(open[s]) /\ Held(s)' = Worth(open'[s])
      BY DEF Held, Worth
    <3>5. Count(s) = Total(open[s]) /\ Count(s)' = Total(open'[s])
      BY DEF Count
    <3>. QED BY <1>1, <1>4, <2>0, <2>1, <3>2, <3>3, <3>4, <3>5
  <2>2. CASE r # s
    BY <1>2, <1>3, <2>0, <2>2 DEF Held, Count, BookInv, BookTypes, GuardInv, SymbolTypes
  <2>. QED BY <2>1, <2>2
<1>9. dailyLoss' = Total(symbolLoss')
  BY <1>2 DEF BookInv, BooksAgree
<1>10. ASSUME NEW r \in Symbols PROVE guardExposure'[r] = Held(r)' + exited'[r]
  <2>1. /\ guardExposure[r] = symbolExposure[r] + exited[r]
        /\ {symbolExposure[r], exited[r], guardExposure[r]} \subseteq Int
    BY DEF BookInv, BooksAgree, BookTypes, GuardInv, SymbolTypes
  <2>2. guardExposure'[r] = symbolExposure'[r] + exited'[r]
    BY <1>1, <1>2, <2>1 DEF BookInv, BookTypes, GuardInv, SymbolTypes
  <2>. QED BY <1>8, <2>2
<1>. QED BY <1>5, <1>6, <1>7, <1>8, <1>9, <1>10 DEF BookInv, BooksAgree

LEMMA ExitBooked ==
  ASSUME GuardInv, BookInv, NEW s \in Symbols, NEW size \in Sizes, NEW pnl \in Int,
         OnTradeExit(s, size, pnl)
  PROVE  BookInv'
<1> DEFINE n == open[s][size] - 1
           loss == IF pnl < 0 THEN -pnl ELSE 0
<1>1. size \in Nat /\ s \in guarded /\ guarded' = guarded /\ pending' = pending
  BY Amounts DEF OnTradeExit, BookInv, Idle
<1>2. open' = [open EXCEPT ![s] = [open[s] EXCEPT ![size] = n]]
  BY DEF OnTradeExit
<1>3. open[s] \in [Sizes -> Nat] /\ n \in Nat /\ n - open[s][size] = -1
  BY DEF OnTradeExit, BookInv, BookTypes
<1>4. /\ exposure' = exposure - size
      /\ symbolExposure' = [symbolExposure EXCEPT ![s] = symbolExposure[s] - size]
      /\ exited' = [exited EXCEPT ![s] = exited[s] + size] /\ guardExposure' = guardExposure
  BY DEF OnTradeExit, ReleaseExposure, BookPnl
<1>5. loss \in Nat /\ dailyLoss' = dailyLoss + loss /\ symbolLoss' = [symbolLoss EXCEPT ![s] = symbolLoss[s] + loss]
  BY <1>1 DEF OnTradeExit, BookPnl, BookInv, BookTypes
<1>6. Total(open[s]) > 0
  <2>1. Total(open[s]) = open[s][size] + SumOver(open[s], Sizes \ {size})
    BY <1>3, Finite, SumRemove DEF Total
  <2>2. SumOver(open[s], Sizes \ {size}) \in Nat
    BY <1>3, Finite, SumPart
  <2>3. open[s][size] > 0 /\ open[s][size] \in Nat
    BY <1>3 DEF OnTradeExit
  <2>. QED BY <2>1, <2>2, <2>3
<1>7. positions' = [positions EXCEPT ![s] = positions[s] - 1]
  <2>1. positions[s] > 0
    BY <1>6 DEF BookInv, BooksAgree, Count
  <2>. QED BY <1>1, <2>1 DEF OnTradeExit, BookPnl
<1>. HIDE DEF n, loss
<1>8. BookTypes'
  BY <1>1, <1>2, <1>3, <1>4, <1>5, <1>7 DEF BookInv, BookTypes
<1>9. Idle'
  BY <1>1, <1>2, <1>4 DEF BookInv, Idle, GuardInv, SymbolTypes, BookTypes
<1>10. exposure' = Total(symbolExposure')
  <2>1. symbolExposure \in [Symbols -> Int] /\ symbolExposure[s] - size \in Int
    BY <1>1 DEF GuardInv, SymbolTypes
  <2>2. Total([symbolExposure EXCEPT ![s] = symbolExposure[s] - size])
          = Total(symbolExposure) + ((symbolExposure[s] - size) - symbolExposure[s])
    BY <2>1, Finite, TotalChange
  <2>3. symbolExposure[s] \in Int /\ Total(symbolExposure) \in Int
    BY <2>1, Finite, TotalType
  <2>. QED BY <1>1, <1>4, <2>2, <2>3 DEF BookInv, BookTypes, BooksAgree
<1>11. ASSUME NEW r \in Symbols PROVE symbolExposure'[r] = Held(r)' /\ positions'[r] = Count(r)'
  <2>0. /\ symbolExposure[r] = Held(r) /\ positions[r] = Count(r)
        /\ symbolExposure[r] \in Int /\ positions[r] \in Int
    BY DEF BookInv, BooksAgree, BookTypes, GuardInv, SymbolTypes
  <2>1. CASE r = s
    <3>1. open'[s] = [open[s] EXCEPT ![size] = n]
      BY <1>2 DEF BookInv, BookTypes
    <3>2. /\ Worth(open'[s]) = Worth(open[s]) + size * (n - open[s][size])
          /\ Total(open'[s]) = Total(open[s]) + (n - open[s][size])
      BY <1>3, <3>1, WorthChange
    <3>3. symbolExposure'[s] = symbolExposure[s] - size /\ positions'[s] = positions[s] - 1
      BY <1>4, <1>7 DEF BookInv, BookTypes, GuardInv, SymbolTypes
    <3>4. Held(s) = Worth(open[s]) /\ Held(s)' = Worth(open'[s])
      BY DEF Held, Worth
    <3>5. Count(s) = Total(open[s]) /\ Count(s)' = Total(open'[s])
      BY DEF Count
    <3>. QED BY <1>1, <1>3, <2>0, <2>1, <3>2, <3>3, <3>4, <3>5
  <2>2. CASE r # s
    BY <1>2, <1>4, <1>7, <2>0, <2>2 DEF Held, Count, BookInv, BookTypes, GuardInv, SymbolTypes
  <2>. QED BY <2>1, <2>2
<1>12. dailyLoss' = Total(symbolLoss')
  <2>1. symbolLoss \in [Symbols -> Int] /\ symbolLoss[s] + loss \in Int
    BY <1>5 DEF BookInv, BookTypes
  <2>2. Total([symbolLoss EXCEPT ![s] = symbolLoss[s] + loss])
          = Total(symbolLoss) + ((symbolLoss[s] + loss) - symbolLoss[s])
    BY <2>1, Finite, TotalChange
  <2>3. symbolLoss[s] \in Int
    BY <2>1
  <2>. QED BY <1>5, <2>2, <2>3 DEF BookInv, BookTypes, BooksAgree
<1>13. ASSUME NEW r \in Symbols PROVE guardExposure'[r] = Held(r)' + exited'[r]
  <2>1. /\ guardExposure[r] = symbolExposure[r] + exited[r]
        /\ {symbolExposure[r], exited[r], guardExposure[r]} \subseteq Int
    BY DEF BookInv, BooksAgree, BookTypes, GuardInv, SymbolTypes
  <2>2. guardExposure'[r] = symbolExposure'[r] + exited'[r]
    BY <1>1, <1>4, <2>1 DEF BookInv, BookTypes, GuardInv, SymbolTypes
  <2>. QED BY <1>11, <2>2
<1>. QED BY <1>8, <1>9, <1>10, <1>11, <1>12, <1>13 DEF BookInv, BooksAgree

\* A check only changes what may be booked.  It allows nothing to a symbol that
\* has no capital.
LEMMA CheckBooksNothing ==
  ASSUME GuardInv, BookInv, NEW s \in Symbols, NEW size \in Sizes, CheckTradeAllowed(s, size)
  PROVE  BookInv'
<1>1. UNCHANGED <<exposure, dailyLoss, symbolExposure, guarded, positions, symbolLoss,
                guardExposure, historyVars>>
  BY DEF CheckTradeAllowed
<1>2. BookTypes' /\ BooksAgree'
  BY <1>1 DEF BookInv, BookTypes, BooksAgree, Held, Count, historyVars
<1>3. Idle'
  <2>. SUFFICES ASSUME NEW r \in Symbols \ guarded PROVE pending'[r] = 0
    BY <1>1 DEF BookInv, Idle, historyVars
  <2>1. CASE r = s
    <3>1. symbolExposure[s] + size > Allocation[s]
      BY <2>1, Amounts DEF BookInv, Idle
    <3>2. Answer(s, size) # "OK"
      BY <3>1 DEF Answer, PortfolioCheck
    <3>. QED BY <2>1, <3>2 DEF CheckTradeAllowed, GuardInv, SymbolTypes
  <2>2. CASE r # s
    BY <2>2 DEF CheckTradeAllowed, GuardInv, SymbolTypes, BookInv, Idle
  <2>. QED BY <2>1, <2>2
<1>. QED BY <1>2, <1>3 DEF BookInv

LEMMA OthersBookNothing ==
  ASSUME GuardInv, BookInv, NEW s \in Symbols, EntryFails(s) \/ AddSymbol(s) \/ TimePasses(s)
  PROVE  BookInv'
<1>1. /\ UNCHANGED <<exposure, dailyLoss, symbolExposure, positions, symbolLoss, guardExposure,
                    historyVars>>
      /\ guarded \subseteq guarded'
      /\ \A r \in Symbols : pending'[r] = pending[r] \/ pending'[r] = 0
  BY DEF EntryFails, AddSymbol, TimePasses, CooldownEnds, BreakerRests, globalVars, symbolVars,
         taskVars, GuardInv, SymbolTypes
<1>2. BookTypes' /\ BooksAgree'
  BY <1>1 DEF BookInv, BookTypes, BooksAgree, Held, Count, historyVars
<1>3. Idle'
  BY <1>1 DEF BookInv, Idle, historyVars
<1>. QED BY <1>2, <1>3 DEF BookInv

LEMMA BooksStep == GuardInv /\ BookInv /\ [CoordinatorNext]_vars => BookInv'
<1>. SUFFICES ASSUME GuardInv, BookInv, [CoordinatorNext]_vars PROVE BookInv'
  OBVIOUS
<1>1. CASE UNCHANGED vars
  BY <1>1 DEF vars, globalVars, symbolVars, taskVars, historyVars, BookInv, BookTypes, Idle, BooksAgree,
     Held, Count
<1>2. ASSUME NEW s \in Symbols, Task(s) PROVE BookInv'
  <2>1. ASSUME NEW size \in Sizes, CheckTradeAllowed(s, size) PROVE BookInv'
    BY <2>1, CheckBooksNothing
  <2>2. ASSUME NEW size \in Sizes, NEW loss \in Losses, OnTradeExit(s, size, -loss)
        PROVE BookInv'
    <3>1. -loss \in Int
      BY Amounts
    <3>. QED BY <2>2, <3>1, ExitBooked
  <2>3. ASSUME NEW size \in Sizes, OnTradeExit(s, size, Profit) PROVE BookInv'
    <3>1. Profit \in Int
      BY DEF Profit
    <3>. QED BY <2>3, <3>1, ExitBooked
  <2>. QED BY <1>2, <2>1, <2>2, <2>3, EntryBooked, OthersBookNothing DEF Task
<1>3. ASSUME NEW s \in Symbols, AddSymbol(s) \/ TimePasses(s) PROVE BookInv'
  BY <1>3, OthersBookNothing
<1>. QED BY <1>1, <1>2, <1>3 DEF CoordinatorNext

THEOREM BooksInvariant == CoordinatorSpec => []BookInv
BY BooksInitial, BooksStep, GuardInvariant, PTL DEF CoordinatorSpec

\* Whatever the tasks of the symbols do between each other's checks and bookings,
\* the guards agree on the loss of the day, and the total and the symbols' exposures
\* are those of the positions; what a symbol guard calls its exposure is this and
\* everything that on_exit did not take off.
THEOREM TheBooksAgree == CoordinatorSpec => []BooksAgree
<1>1. BookInv => BooksAgree
  BY DEF BookInv
<1>. QED BY BooksInvariant, <1>1, PTL

-----------------------------------------------------------------------------
(* The total exposure. *)

\* What is booked and what may still be booked: the limit is kept by the last
\* check, whichever symbol it was for, but for what the others may still book.
Committed ==
  \A s \in Funded : exposure + Total(pending) <= MaxExposure + Cardinality(Funded \ {s}) * MaxSize

\* What is allowed was within the size limit of the symbol.
PendingSmall == \A s \in Symbols : pending[s] <= MaxSize

OvershootInv == PendingSmall /\ Committed

LEMMA Limits == MaxSize \in Nat /\ MaxExposure \in Nat
BY CoordinatorAssumption DEF CoordinatorAssumption

LEMMA FundedFinite ==
  /\ IsFiniteSet(Funded) /\ Funded \subseteq Symbols
  /\ \A s \in Funded : IsFiniteSet(Funded \ {s}) /\ Cardinality(Funded \ {s}) \in Nat
                      /\ Cardinality(Funded \ {s}) = Cardinality(Funded) - 1
<1>1. Funded \subseteq Symbols
  BY DEF Funded
<1>2. IsFiniteSet(Funded) /\ Cardinality(Funded) \in Nat
  BY <1>1, Finite, FS_Subset, FS_CardinalityType
<1>3. ASSUME NEW s \in Funded
      PROVE  /\ IsFiniteSet(Funded \ {s}) /\ Cardinality(Funded \ {s}) \in Nat
             /\ Cardinality(Funded \ {s}) = Cardinality(Funded) - 1
  BY <1>2, FS_RemoveElement, FS_CardinalityType
<1>. QED BY <1>1, <1>2, <1>3

\* The exposure of a symbol is that of its positions, so it is not negative.
LEMMA ExposureNat ==
  ASSUME BookInv, NEW s \in Symbols
  PROVE  symbolExposure[s] \in Nat
<1> DEFINE f == [size \in Sizes |-> size * open[s][size]]
<1>1. \A size \in Sizes : f[size] \in Nat
  <2>. SUFFICES ASSUME NEW size \in Sizes PROVE size * open[s][size] \in Nat
    OBVIOUS
  <2>1. size \in Nat /\ open[s][size] \in Nat
    BY Amounts DEF BookInv, BookTypes
  <2>. QED BY <2>1
<1>2. SumOver(f, Sizes) \in Nat
  <2>. HIDE DEF f
  <2>. QED BY <1>1, Finite, SumPart
<1>. QED BY <1>2 DEF BookInv, BooksAgree, Held, Total

\* A symbol that may book has capital.
LEMMA PendingFunded ==
  ASSUME GuardInv, BookInv, NEW s \in Symbols, pending[s] # 0
  PROVE  s \in Funded
<1>3. symbolExposure[s] \in Nat
  BY ExposureNat
<1>4. pending[s] \in Nat \ {0} /\ Allocation[s] \in Nat
  BY Amounts DEF GuardInv, SymbolTypes
<1>. QED BY <1>3, <1>4 DEF GuardInv, AllocationKept, Funded

LEMMA PendingTypes ==
  ASSUME GuardInv PROVE pending \in [Symbols -> Nat] /\ pending \in [Symbols -> Int]
BY Amounts DEF GuardInv, SymbolTypes

\* After a check that allowed a size: the others may book one position each.
LEMMA CheckCommits ==
  ASSUME GuardInv, BookInv, OvershootInv, NEW s \in Symbols, NEW size \in Sizes,
         CheckTradeAllowed(s, size), GuardInv', BookInv'
  PROVE  OvershootInv'
<1>0. pending' \in [Symbols -> Int]
  BY Amounts DEF GuardInv, SymbolTypes
<1>1. \A r \in Symbols : r # s => pending'[r] = pending[r]
  BY DEF CheckTradeAllowed, GuardInv, SymbolTypes
<1>2. exposure' = exposure /\ exposure \in Int /\ size \in Nat
  BY Amounts DEF CheckTradeAllowed, BookInv, BookTypes
<1>3. CASE Answer(s, size) # "OK"
  <2>1. pending' = pending
    BY <1>3 DEF CheckTradeAllowed, GuardInv, SymbolTypes
  <2>. QED BY <1>2, <2>1 DEF OvershootInv, PendingSmall, Committed
<1>4. CASE Answer(s, size) = "OK"
  <2>1. pending'[s] = size
    BY <1>4 DEF CheckTradeAllowed, GuardInv, SymbolTypes
  <2>2. s \in Funded
    <3>1. symbolExposure[s] + size <= Allocation[s]
      BY <1>4, Amounts DEF Answer, PortfolioCheck, GuardInv, SymbolTypes
    <3>2. symbolExposure[s] \in Nat /\ size \in Nat \ {0} /\ Allocation[s] \in Nat
      BY Amounts, ExposureNat
    <3>. QED BY <3>1, <3>2 DEF Funded
  <2>3. s \in guarded
    BY <2>2, Amounts DEF BookInv, Idle, Funded
  <2>4. size <= MaxSize /\ exposure + size <= MaxExposure
    BY <1>2, <1>4, <2>3, Limits DEF Answer, SymbolCheck, GlobalCheck
  <2>5. PendingSmall'
    BY <1>1, <2>1, <2>4 DEF OvershootInv, PendingSmall
  <2> DEFINE others == Funded \ {s}
             most == [r \in others |-> MaxSize]
  <2>6. Total(pending') = size + SumOver(pending', Symbols \ {s})
    <3>1. pending' \in [Symbols -> Int] /\ DOMAIN pending' = Symbols
      BY <1>0
    <3>2. SumOver(pending', Symbols) = pending'[s] + SumOver(pending', Symbols \ {s})
      BY <3>1, Finite, SumRemove
    <3>. QED BY <2>1, <3>1, <3>2 DEF Total
  <2>7. SumOver(pending', Symbols \ {s}) = SumOver(pending', others)
    <3>1. IsFiniteSet(Symbols \ {s}) /\ others \in SUBSET (Symbols \ {s})
      BY Finite, FundedFinite, FS_RemoveElement
    <3>2. \A r \in Symbols \ {s} : pending'[r] \in Int /\ (r \notin others => pending'[r] = 0)
      BY <1>1, PendingFunded, PendingTypes
    <3>. HIDE DEF others
    <3>. QED BY <3>1, <3>2, SumSupport
  <2>8. SumOver(pending', others) <= SumOver(most, others)
    <3>1. \A r \in others : pending'[r] \in Int /\ most[r] \in Int /\ pending'[r] <= most[r]
      BY <1>1, FundedFinite, PendingTypes, Limits DEF OvershootInv, PendingSmall
    <3>2. IsFiniteSet(others)
      BY <2>2, FundedFinite
    <3>. HIDE DEF others, most
    <3>. QED BY <3>1, <3>2, SumMonotone
  <2>9. SumOver(most, others) = Cardinality(others) * MaxSize
    <3>1. IsFiniteSet(others) /\ MaxSize \in Int /\ \A r \in others : most[r] = MaxSize
      BY <2>2, FundedFinite, Limits
    <3>. HIDE DEF others, most
    <3>. QED BY <3>1, SumConstant
  <2>10. SumOver(pending', others) \in Int
    <3>1. IsFiniteSet(others) /\ \A r \in others : pending'[r] \in Int
      BY <1>0, <2>2, FundedFinite
    <3>. HIDE DEF others
    <3>. QED BY <3>1, SumRemove
  <2>11. Cardinality(others) * MaxSize \in Int /\ \A r \in Funded : Cardinality(Funded \ {r}) = Cardinality(others)
    <3>1. Cardinality(others) \in Nat /\ \A r \in Funded : Cardinality(Funded \ {r}) = Cardinality(others)
      BY <2>2, FundedFinite
    <3>. HIDE DEF others
    <3>. QED BY <3>1, Limits
  <2>12. exposure + Total(pending') <= MaxExposure + Cardinality(others) * MaxSize
    <3>. HIDE DEF others, most
    <3>. QED BY <1>2, <2>4, <2>6, <2>7, <2>8, <2>9, <2>10, <2>11, Limits
  <2>13. Committed'
    <3>. HIDE DEF others
    <3>. QED BY <1>2, <2>11, <2>12 DEF Committed
  <2>. QED BY <2>5, <2>13 DEF OvershootInv
<1>. QED BY <1>3, <1>4

\* Booking an entry or giving it up changes pending by as much; an exit and what is
\* left do not touch it.
LEMMA OthersCommit ==
  ASSUME GuardInv, BookInv, OvershootInv, NEW s \in Symbols,
         \/ OnTradeEntry(s) \/ EntryFails(s) \/ AddSymbol(s) \/ TimePasses(s)
         \/ \E size \in Sizes, pnl \in Int : OnTradeExit(s, size, pnl),
         GuardInv', BookInv'
  PROVE  OvershootInv'
<1>1. /\ exposure \in Int /\ Total(pending) \in Int /\ pending[s] \in Nat
      /\ pending \in [Symbols -> Int]
  BY PendingTypes, Finite, TotalType DEF BookInv, BookTypes
<1>2. Total([pending EXCEPT ![s] = 0]) = Total(pending) + (0 - pending[s])
  <2>1. pending \in [Symbols -> Int] /\ 0 \in Int /\ IsFiniteSet(Symbols)
    BY <1>1, Finite
  <2>. QED BY <2>1, TotalChange, Zenon
<1>3. exposure' + Total(pending') <= exposure + Total(pending)
  <2>1. CASE OnTradeEntry(s)
    <3>1. exposure' = exposure + pending[s] /\ pending' = [pending EXCEPT ![s] = 0]
      BY <2>1 DEF OnTradeEntry
    <3>. QED BY <1>1, <1>2, <3>1
  <2>2. CASE EntryFails(s)
    <3>1. exposure' = exposure /\ pending' = [pending EXCEPT ![s] = 0]
      BY <2>2 DEF EntryFails, globalVars
    <3>. QED BY <1>1, <1>2, <3>1
  <2>3. CASE AddSymbol(s) \/ TimePasses(s)
    <3>1. exposure' = exposure /\ pending' = pending
      BY <2>3 DEF AddSymbol, TimePasses, CooldownEnds, BreakerRests, globalVars, taskVars
    <3>. QED BY <1>1, <3>1
  <2>4. ASSUME NEW size \in Sizes, NEW pnl \in Int, OnTradeExit(s, size, pnl)
        PROVE  exposure' + Total(pending') <= exposure + Total(pending)
    <3>1. exposure' = exposure - size /\ pending' = pending /\ size \in Nat
      BY <2>4, Amounts DEF OnTradeExit, ReleaseExposure
    <3>. QED BY <1>1, <3>1
  <2>. QED BY <2>1, <2>2, <2>3, <2>4
<1>4. \A r \in Symbols : pending'[r] = pending[r] \/ pending'[r] = 0
  BY DEF OnTradeEntry, EntryFails, AddSymbol, TimePasses, CooldownEnds, BreakerRests, taskVars,
         OnTradeExit, GuardInv, SymbolTypes
<1>5. PendingSmall'
  BY <1>4, Limits DEF OvershootInv, PendingSmall
<1>6. Committed'
  <2>. SUFFICES ASSUME NEW r \in Funded
                PROVE  exposure' + Total(pending') <= MaxExposure + Cardinality(Funded \ {r}) * MaxSize
    BY DEF Committed
  <2>1. exposure + Total(pending) <= MaxExposure + Cardinality(Funded \ {r}) * MaxSize
    BY DEF OvershootInv, Committed
  <2>2. MaxExposure + Cardinality(Funded \ {r}) * MaxSize \in Int
    <3>1. Cardinality(Funded \ {r}) \in Nat
      BY FundedFinite
    <3>. QED BY <3>1, Limits
  <2>3. exposure' + Total(pending') \in Int
    <3>1. exposure' \in Int /\ pending' \in [Symbols -> Int]
      BY Amounts DEF BookInv, BookTypes, GuardInv, SymbolTypes
    <3>. QED BY <3>1, Finite, TotalType
  <2>. QED BY <1>1, <1>3, <2>1, <2>2, <2>3
<1>. QED BY <1>5, <1>6 DEF OvershootInv

LEMMA OvershootInitial == CoordinatorInit => OvershootInv
<1>. SUFFICES ASSUME CoordinatorInit PROVE OvershootInv
  OBVIOUS
<1>1. Total(pending) = 0
  BY Finite, TotalZero DEF CoordinatorInit
<1>2. PendingSmall
  BY Limits DEF CoordinatorInit, PendingSmall
<1>3. ASSUME NEW s \in Funded
      PROVE  exposure + Total(pending) <= MaxExposure + Cardinality(Funded \ {s}) * MaxSize
  <2>1. Cardinality(Funded \ {s}) \in Nat
    BY FundedFinite
  <2>2. Cardinality(Funded \ {s}) * MaxSize \in Nat
    BY <2>1, Limits
  <2>. QED BY <1>1, <2>2, Limits DEF CoordinatorInit
<1>. QED BY <1>2, <1>3 DEF OvershootInv, Committed

LEMMA OvershootStep ==
  GuardInv /\ BookInv /\ GuardInv' /\ BookInv' /\ OvershootInv /\ [CoordinatorNext]_vars => OvershootInv'
<1>. SUFFICES ASSUME GuardInv, BookInv, GuardInv', BookInv', OvershootInv, [CoordinatorNext]_vars
              PROVE  OvershootInv'
  OBVIOUS
<1>1. CASE UNCHANGED vars
  BY <1>1 DEF vars, globalVars, taskVars, OvershootInv, PendingSmall, Committed
<1>2. ASSUME NEW s \in Symbols, Task(s) PROVE OvershootInv'
  <2>1. ASSUME NEW size \in Sizes, CheckTradeAllowed(s, size) PROVE OvershootInv'
    BY <2>1, CheckCommits
  <2>2. ASSUME NEW size \in Sizes, NEW loss \in Losses, OnTradeExit(s, size, -loss)
        PROVE OvershootInv'
    <3>1. -loss \in Int
      BY Amounts
    <3>. QED BY <2>2, <3>1, OthersCommit
  <2>3. ASSUME NEW size \in Sizes, OnTradeExit(s, size, Profit) PROVE OvershootInv'
    <3>1. Profit \in Int
      BY DEF Profit
    <3>. QED BY <2>3, <3>1, OthersCommit
  <2>. QED BY <1>2, <2>1, <2>2, <2>3, OthersCommit DEF Task
<1>3. ASSUME NEW s \in Symbols, AddSymbol(s) \/ TimePasses(s) PROVE OvershootInv'
  BY <1>3, OthersCommit
<1>. QED BY <1>1, <1>2, <1>3 DEF CoordinatorNext

\* check_trade_allowed and on_trade_entry are two calls, and every symbol has its
\* task: however they interleave, the total exposure passes its limit by no more
\* than one position of every other symbol that has capital.
THEOREM OvershootIsBounded == CoordinatorSpec => []OvershootBounded
<1>1. CoordinatorSpec => []OvershootInv
  BY OvershootInitial, OvershootStep, GuardInvariant, BooksInvariant, PTL DEF CoordinatorSpec
<1>2. GuardInv /\ BookInv /\ OvershootInv => OvershootBounded
  <2>. SUFFICES ASSUME GuardInv, BookInv, OvershootInv, NEW s \in Funded
                PROVE  exposure <= MaxExposure + Cardinality(Funded \ {s}) * MaxSize
    BY DEF OvershootBounded
  <2>1. Total(pending) \in Nat
    <3>1. pending \in [Symbols -> Nat]
      BY PendingTypes
    <3>2. SumOver(pending, Symbols) \in Nat
      BY <3>1, Finite, SumPart
    <3>. QED BY <3>1, <3>2 DEF Total
  <2>2. Cardinality(Funded \ {s}) * MaxSize \in Nat
    <3>1. Cardinality(Funded \ {s}) \in Nat
      BY FundedFinite
    <3>. QED BY <3>1, Limits
  <2>3. exposure + Total(pending) <= MaxExposure + Cardinality(Funded \ {s}) * MaxSize
    BY DEF OvershootInv, Committed
  <2>4. exposure \in Int
    BY DEF BookInv, BookTypes
  <2>. QED BY <2>1, <2>2, <2>3, <2>4, Limits
<1>. QED BY <1>1, <1>2, GuardInvariant, BooksInvariant, PTL

-----------------------------------------------------------------------------
(* AlertIntake: the throttle window, for any number of producers, keys and  *)
(* rules, and any windows and limits.                                        *)

\* What the invariant needs of the types.
Clocks ==
  /\ now \in Nat /\ faults \in Nat
  /\ pc \in [Producers -> {"idle", "send", "mark"}]
  /\ key \in [Producers -> Keys \cup {None}]
  /\ \A p \in Producers : pc[p] # "idle" => key[p] \in Keys
  /\ stamp \in [Keys -> Int] /\ \A k \in Keys : stamp[k] <= now
  /\ lastSent \in [Producers -> [Keys -> Int]]
  /\ \A p \in Producers, k \in Keys : lastSent[p][k] <= now

\* As long as Redis answers, a key has been marked since a producer sent it
\* last, unless the producer is about to.
Marked ==
  faults = 0 =>
    \A p \in Producers, k \in Keys :
      lastSent[p][k] <= stamp[k] \/ (pc[p] = "mark" /\ key[p] = k)

\* The answer of should_send stands for the producer that asked, however long
\* it waits for the manager and whoever marks the key meanwhile.
Asked ==
  faults = 0 =>
    \A p \in Producers :
      pc[p] = "send" => now - lastSent[p][key[p]] >= ThrottleWindow

IntakeInv == Clocks /\ Marked /\ Asked

LEMMA Windows == ThrottleWindow \in Nat \ {0} /\ None \notin Keys
BY IntakeAssumption DEF IntakeAssumption

-----------------------------------------------------------------------------
(* Each step. *)

LEMMA ShouldSendKeeps ==
  ASSUME IntakeInv, NEW p \in Producers, NEW k \in Keys, ShouldSend(p, k)
  PROVE  IntakeInv'
<1>1. /\ pc[p] = "idle" /\ key' = [key EXCEPT ![p] = k] /\ pc' = [pc EXCEPT ![p] = "send"]
      /\ now' = now /\ stamp' = stamp /\ lastSent' = lastSent
      /\ faults' \in Nat /\ (faults' = 0 => faults = 0 /\ ~Throttled(k))
  BY DEF ShouldSend, Fault, IntakeInv, Clocks
<1>2. /\ pc'[p] = "send" /\ key'[p] = k
      /\ \A q \in Producers \ {p} : pc'[q] = pc[q] /\ key'[q] = key[q]
  BY <1>1 DEF IntakeInv, Clocks
<1>3. Clocks'
  BY <1>1, <1>2 DEF IntakeInv, Clocks
<1>4. Marked'
  BY <1>1, <1>2 DEF IntakeInv, Marked
<1>5. Asked'
  <2>. SUFFICES ASSUME faults' = 0, NEW q \in Producers, pc'[q] = "send"
                PROVE  now' - lastSent'[q][key'[q]] >= ThrottleWindow
    BY DEF Asked
  <2>1. CASE q = p
    <3>1. lastSent[p][k] <= stamp[k] /\ now - stamp[k] >= ThrottleWindow
      BY <1>1, Windows DEF IntakeInv, Marked, Clocks, Throttled
    <3>. QED BY <1>1, <1>2, <2>1, <3>1, Windows DEF IntakeInv, Clocks
  <2>2. CASE q # p
    BY <1>1, <1>2, <2>2 DEF IntakeInv, Asked
  <2>. QED BY <2>1, <2>2
<1>. QED BY <1>3, <1>4, <1>5 DEF IntakeInv

LEMMA MarkKeeps ==
  ASSUME IntakeInv, NEW p \in Producers, MarkSent(p)
  PROVE  IntakeInv'
<1>1. /\ pc[p] = "mark" /\ pc' = [pc EXCEPT ![p] = "idle"] /\ key' = [key EXCEPT ![p] = None]
      /\ now' = now /\ lastSent' = lastSent
      /\ \/ stamp' = [stamp EXCEPT ![key[p]] = now] /\ faults' = faults
         \/ faults' = faults + 1 /\ stamp' = stamp
  BY DEF MarkSent, Return, Fault
<1>2. key[p] \in Keys
  BY <1>1 DEF IntakeInv, Clocks
<1>3. /\ pc'[p] = "idle" /\ \A q \in Producers \ {p} : pc'[q] = pc[q] /\ key'[q] = key[q]
  BY <1>1 DEF IntakeInv, Clocks
<1>4. \A k \in Keys : stamp[k] <= stamp'[k] /\ stamp'[k] <= now
  BY <1>1, <1>2 DEF IntakeInv, Clocks
<1>5. Clocks'
  <2>1. stamp' \in [Keys -> Int] /\ faults' \in Nat
    BY <1>1, <1>2 DEF IntakeInv, Clocks
  <2>2. key' \in [Producers -> Keys \cup {None}] /\ pc' \in [Producers -> {"idle", "send", "mark"}]
    BY <1>1 DEF IntakeInv, Clocks
  <2>. QED BY <1>1, <1>3, <1>4, <2>1, <2>2 DEF IntakeInv, Clocks
<1>6. Marked'
  <2>. SUFFICES ASSUME faults' = 0, NEW q \in Producers, NEW k \in Keys
                PROVE  lastSent'[q][k] <= stamp'[k] \/ (pc'[q] = "mark" /\ key'[q] = k)
    BY DEF Marked
  <2>1. faults = 0 /\ stamp' = [stamp EXCEPT ![key[p]] = now]
    BY <1>1 DEF IntakeInv, Clocks
  <2>2. CASE k = key[p]
    BY <1>1, <1>2, <2>1, <2>2 DEF IntakeInv, Clocks
  <2>3. CASE k # key[p]
    <3>1. stamp'[k] = stamp[k]
      BY <1>2, <2>1, <2>3 DEF IntakeInv, Clocks
    <3>2. lastSent[q][k] <= stamp[k] \/ (pc[q] = "mark" /\ key[q] = k)
      BY <2>1 DEF IntakeInv, Marked
    <3>. QED BY <1>1, <1>3, <2>3, <3>1, <3>2
  <2>. QED BY <2>2, <2>3
<1>7. Asked'
  <2>. SUFFICES ASSUME faults' = 0, NEW q \in Producers, pc'[q] = "send"
                PROVE  now' - lastSent'[q][key'[q]] >= ThrottleWindow
    BY DEF Asked
  <2>1. faults = 0 /\ q # p
    BY <1>1, <1>3 DEF IntakeInv, Clocks
  <2>. QED BY <1>1, <1>3, <2>1 DEF IntakeInv, Asked
<1>. QED BY <1>5, <1>6, <1>7 DEF IntakeInv

\* The manager turns the alert away, or the queue does.
LEMMA ReturnKeeps ==
  ASSUME IntakeInv, NEW p \in Producers, RateLimited(p) \/ QueueRefuses(p)
  PROVE  IntakeInv'
<1>1. /\ pc[p] = "send" /\ pc' = [pc EXCEPT ![p] = "idle"] /\ key' = [key EXCEPT ![p] = None]
      /\ now' = now /\ lastSent' = lastSent /\ stamp' = stamp
      /\ faults' \in Nat /\ (faults' = 0 => faults = 0)
  BY DEF RateLimited, QueueRefuses, Pass, Return, Fault, IntakeInv, Clocks
<1>2. /\ pc'[p] = "idle" /\ \A q \in Producers \ {p} : pc'[q] = pc[q] /\ key'[q] = key[q]
  BY <1>1 DEF IntakeInv, Clocks
<1>3. Clocks'
  BY <1>1, <1>2 DEF IntakeInv, Clocks
<1>4. Marked' /\ Asked'
  BY <1>1, <1>2 DEF IntakeInv, Marked, Asked
<1>. QED BY <1>3, <1>4 DEF IntakeInv

LEMMA AcceptKeeps ==
  ASSUME IntakeInv, NEW p \in Producers, SendToBuffer(p) \/ SendToQueue(p)
  PROVE  IntakeInv'
<1>1. /\ pc[p] = "send" /\ pc' = [pc EXCEPT ![p] = "mark"] /\ key' = key
      /\ lastSent' = [lastSent EXCEPT ![p][key[p]] = now]
      /\ now' = now /\ stamp' = stamp /\ faults' = faults
  BY DEF SendToBuffer, SendToQueue, Pass, Accept, Goto
<1>2. key[p] \in Keys
  BY <1>1 DEF IntakeInv, Clocks
<1>3. /\ pc'[p] = "mark" /\ \A q \in Producers \ {p} : pc'[q] = pc[q] /\ lastSent'[q] = lastSent[q]
      /\ lastSent' \in [Producers -> [Keys -> Int]]
      /\ \A k \in Keys : lastSent'[p][k] = IF k = key[p] THEN now ELSE lastSent[p][k]
  BY <1>1, <1>2 DEF IntakeInv, Clocks
<1>4. Clocks'
  BY <1>1, <1>2, <1>3 DEF IntakeInv, Clocks
<1>5. Marked'
  BY <1>1, <1>3 DEF IntakeInv, Marked
<1>6. Asked'
  BY <1>1, <1>3 DEF IntakeInv, Asked
<1>. QED BY <1>4, <1>5, <1>6 DEF IntakeInv

-----------------------------------------------------------------------------
(* The theorems. *)

THEOREM IntakeInvariant == IntakeSpec => []IntakeInv
<1>1. IntakeInit => IntakeInv
  <2>. SUFFICES ASSUME IntakeInit PROVE IntakeInv
    OBVIOUS
  <2>1. Never \in Int /\ Never <= 0
    BY Windows DEF Never
  <2>. QED BY <2>1 DEF IntakeInit, IntakeInv, Clocks, Marked, Asked
<1>2. IntakeInv /\ [IntakeNext]_intakeVars => IntakeInv'
  <2>. SUFFICES ASSUME IntakeInv, [IntakeNext]_intakeVars PROVE IntakeInv'
    OBVIOUS
  <2>1. ASSUME NEW p \in Producers, Producer(p) PROVE IntakeInv' \/ UNCHANGED intakeVars
    BY <2>1, ShouldSendKeeps, ReturnKeeps, AcceptKeeps, MarkKeeps DEF Producer, TurnedAway
  <2>2. CASE Tick
    <3>1. /\ now' = now + 1 /\ pc' = pc /\ key' = key /\ stamp' = stamp
          /\ lastSent' = lastSent /\ faults' = faults
      BY <2>2 DEF Tick
    <3>2. Clocks' /\ Marked'
      BY <3>1 DEF IntakeInv, Clocks, Marked
    <3>3. Asked'
      <4>. SUFFICES ASSUME faults' = 0, NEW p \in Producers, pc'[p] = "send"
                    PROVE  now' - lastSent'[p][key'[p]] >= ThrottleWindow
        BY DEF Asked
      <4>1. key[p] \in Keys /\ now \in Nat /\ lastSent[p][key[p]] \in Int
        BY <3>1 DEF IntakeInv, Clocks
      <4>2. now - lastSent[p][key[p]] >= ThrottleWindow
        BY <3>1 DEF IntakeInv, Asked
      <4>. QED BY <3>1, <4>1, <4>2, Windows
    <3>. QED BY <3>2, <3>3 DEF IntakeInv
  <2>3. CASE UNCHANGED intakeVars
    BY <2>3 DEF intakeVars, IntakeInv, Clocks, Marked, Asked
  <2>. QED BY <2>1, <2>2, <2>3 DEF IntakeNext
<1>. QED BY <1>1, <1>2, PTL DEF IntakeSpec

\* AlertThrottler: no producer sends a key twice within the window while the
\* throttler's store answers, although asking and marking are two calls.
THEOREM NoRepeatWithinWindow == IntakeSpec => ProducerThrottled
<1>1. IntakeInv /\ [IntakeNext]_intakeVars =>
        [\A p \in Producers :
           pc[p] = "send" /\ pc'[p] = "mark" /\ faults = 0
           => now - lastSent[p][key[p]] >= ThrottleWindow]_intakeVars
  BY DEF IntakeInv, Asked
<1>. QED BY <1>1, IntakeInvariant, PTL DEF IntakeSpec, ProducerThrottled

-----------------------------------------------------------------------------
(* The rate limit and the batches. *)

IntakeTypes ==
  /\ now \in Time /\ faults \in 0 .. MaxFaults
  /\ key \in [Producers -> Keys \cup {None}]
  /\ pc \in [Producers -> {"idle", "send", "mark"}]
  /\ \A p \in Producers : pc[p] = "idle" <=> key[p] = None
  /\ stamp \in [Keys -> Time \cup {Never}]
  /\ lastSent \in [Producers -> [Keys -> Time \cup {Never}]]
  /\ tracker \in [Groups -> [Time -> Nat]] /\ passed \in [Groups -> [Time -> Nat]]
  /\ batch \in [Rules -> [count : Nat, first : Time]] /\ queued \in [Rules -> Nat]

\* The tracker has forgotten nothing that is still in the window.
Tracked ==
  \A g \in Groups, t \in Time :
    /\ t >= now - RateWindow => tracker[g][t] = passed[g][t]
    /\ t > now => passed[g][t] = 0

TrackerBounded == \A g \in Groups : SumOver(tracker[g], Time) <= RateLimit[g]

\* A batch is flushed before it has MaxBatch alerts.
BatchBounded == \A r \in Rules : batch[r].count < MaxBatch

RateInv == IntakeTypes /\ Tracked /\ TrackerBounded /\ RateLimitHolds /\ BatchBounded /\ DroppedAreSpokenFor

LEMMA Parameters ==
  /\ RuleOf \in [Keys -> Rules] /\ GroupOf \in [Rules -> Groups] /\ None \notin Keys
  /\ {ThrottleWindow, RateWindow, BatchWindow, MaxBatch} \subseteq Nat \ {0}
  /\ RateLimit \in [Groups -> Nat]
  /\ MaxTime \in Nat /\ MaxFaults \in Nat
  /\ Time \subseteq Nat /\ 0 \in Time
  /\ IsFiniteSet(Rules) /\ IsFiniteSet(Time)
<1>1. MaxTime \in Nat /\ IsFiniteSet(0 .. MaxTime)
  BY IntakeAssumption, FS_Interval DEF IntakeAssumption
<1>. QED BY <1>1, IntakeAssumption DEF IntakeAssumption, Time

\* Dropping the times before the window.
LEMMA RecentFacts ==
  ASSUME RateInv, NEW g \in Groups
  PROVE  /\ Recent(g) \in [Time -> Nat]
         /\ \A t \in Time : Recent(g)[t] <= tracker[g][t]
         /\ SumOver(Recent(g), Time) \in Nat
         /\ SumOver(Recent(g), Time) <= RateLimit[g]
<1>1. tracker[g] \in [Time -> Nat]
  BY DEF RateInv, IntakeTypes
<1>2. Recent(g) \in [Time -> Nat] /\ \A t \in Time : Recent(g)[t] <= tracker[g][t]
  BY <1>1 DEF Recent
<1>3. SumOver(Recent(g), Time) \in Nat /\ SumOver(tracker[g], Time) \in Nat
  <2>1. \A t \in Time : Recent(g)[t] \in Nat /\ tracker[g][t] \in Nat
    BY <1>1, <1>2
  <2>. QED BY <2>1, Parameters, SumPart
<1>4. SumOver(Recent(g), Time) <= SumOver(tracker[g], Time)
  <2>1. \A t \in Time : Recent(g)[t] \in Int /\ tracker[g][t] \in Int /\ Recent(g)[t] <= tracker[g][t]
    BY <1>1, <1>2
  <2>. QED BY <2>1, Parameters, SumMonotone
<1>5. SumOver(tracker[g], Time) <= RateLimit[g] /\ RateLimit[g] \in Nat
  BY Parameters DEF RateInv, TrackerBounded
<1>. QED BY <1>2, <1>3, <1>4, <1>5

\* What a step does to the tracker and to the count of what has passed.
Counted(g) ==
  /\ WithinLimit(g)
  /\ tracker' = [tracker EXCEPT ![g] = [Recent(g) EXCEPT ![now] = @ + 1]]
  /\ passed' = [passed EXCEPT ![g][now] = @ + 1]

Forgotten(g) == tracker' = [tracker EXCEPT ![g] = Recent(g)] /\ passed' = passed

\* The group of an alert that has passed: one more in the window, which had room.
LEMMA CountedKeeps ==
  ASSUME RateInv, NEW g \in Groups, Counted(g), now' = now
  PROVE  Tracked' /\ TrackerBounded' /\ RateLimitHolds'
<1>0. now \in Time /\ now \in Nat
  BY Parameters DEF RateInv, IntakeTypes
<1>1. /\ tracker'[g] = [Recent(g) EXCEPT ![now] = @ + 1]
      /\ passed'[g] = [passed[g] EXCEPT ![now] = @ + 1]
      /\ \A h \in Groups : h # g => tracker'[h] = tracker[h] /\ passed'[h] = passed[h]
  BY DEF Counted, RateInv, IntakeTypes
<1>2. Recent(g) \in [Time -> Nat] /\ passed[g] \in [Time -> Nat]
  BY RecentFacts DEF RateInv, IntakeTypes
<1>3. Tracked'
  <2>. SUFFICES ASSUME NEW h \in Groups, NEW t \in Time
                PROVE  /\ t >= now - RateWindow => tracker'[h][t] = passed'[h][t]
                       /\ t > now => passed'[h][t] = 0
    BY DEF Tracked
  <2>1. /\ t >= now - RateWindow => tracker[h][t] = passed[h][t]
        /\ t > now => passed[h][t] = 0
    BY DEF RateInv, Tracked
  <2>2. t >= now - RateWindow => Recent(h)[t] = tracker[h][t]
    BY DEF Recent
  <2>3. CASE h # g
    BY <1>1, <2>1, <2>3
  <2>4. CASE h = g /\ t = now
    <3>1. now >= now - RateWindow
      BY <1>0, Parameters
    <3>2. Recent(g)[now] = passed[g][now]
      BY <2>1, <2>2, <2>4, <3>1
    <3>3. tracker'[g][now] = Recent(g)[now] + 1 /\ passed'[g][now] = passed[g][now] + 1
      BY <1>0, <1>1, <1>2
    <3>4. ~ (now > now)
      BY <1>0
    <3>. QED BY <2>4, <3>2, <3>3, <3>4
  <2>5. CASE h = g /\ t # now
    BY <1>0, <1>1, <1>2, <2>1, <2>2, <2>5
  <2>. QED BY <2>3, <2>4, <2>5
<1>4. SumOver(tracker'[g], Time) = SumOver(Recent(g), Time) + 1
  <2>1. /\ \A t \in Time : Recent(g)[t] \in Int
        /\ tracker'[g][now] = Recent(g)[now] + 1 /\ tracker'[g][now] \in Int
        /\ \A t \in Time : t # now => tracker'[g][t] = Recent(g)[t]
    BY <1>0, <1>1, <1>2
  <2>2. SumOver(tracker'[g], Time) = SumOver(Recent(g), Time) + (tracker'[g][now] - Recent(g)[now])
    <3> DEFINE old == Recent(g)
               new == tracker'[g]
    <3>1. /\ \A t \in Time : old[t] \in Int
          /\ new[now] \in Int /\ \A t \in Time : t # now => new[t] = old[t]
      BY <2>1
    <3>. HIDE DEF old, new
    <3>2. now \in Time /\ IsFiniteSet(Time)
      BY <1>0, Parameters
    <3>3. SumOver(new, Time) = SumOver(old, Time) + (new[now] - old[now])
      BY <3>1, <3>2, SumChange
    <3>. QED BY <3>3 DEF old, new
  <2>3. Recent(g)[now] \in Int /\ SumOver(Recent(g), Time) \in Int
    BY <1>0, <2>1, RecentFacts
  <2>. QED BY <2>1, <2>2, <2>3
<1>5. SumOver(tracker'[g], Time) <= RateLimit[g]
  BY <1>4, RecentFacts, Parameters DEF Counted, WithinLimit
<1>6. TrackerBounded'
  BY <1>1, <1>5 DEF RateInv, TrackerBounded
<1>7. RateLimitHolds'
  <2>. SUFFICES ASSUME NEW h \in Groups, NEW t \in Time
                PROVE  SumOver(passed'[h], Window(t)) <= RateLimit[h]
    BY DEF RateLimitHolds
  <2>1. CASE h # g \/ now \notin Window(t)
    <3>1. IsFiniteSet(Window(t))
      BY Parameters, FS_Subset DEF Window
    <3>2. \A u \in Window(t) : passed'[h][u] = passed[h][u]
      BY <1>0, <1>1, <1>2, <2>1 DEF Window
    <3>3. SumOver(passed'[h], Window(t)) = SumOver(passed[h], Window(t))
      BY <3>1, <3>2, SumSame
    <3>. QED BY <3>3 DEF RateInv, RateLimitHolds
  <2>2. CASE h = g /\ now \in Window(t)
    <3>1. \A u \in Window(t) : passed'[g][u] <= tracker'[g][u]
      <4>. SUFFICES ASSUME NEW u \in Window(t) PROVE passed'[g][u] <= tracker'[g][u]
        OBVIOUS
      <4>1. u \in Time /\ now \in Nat /\ u \in Nat /\ t \in Nat /\ RateWindow \in Nat
        BY <1>0, Parameters DEF Window
      <4>2. u >= now - RateWindow
        BY <2>2, <4>1 DEF Window
      <4>3. passed'[g][u] = tracker'[g][u] /\ tracker'[g][u] \in Nat
        <5>1. passed'[g][u] = tracker'[g][u]
          BY <1>3, <4>1, <4>2 DEF Tracked
        <5>2. tracker'[g][u] \in Nat
          BY <1>0, <1>1, <1>2, <4>1
        <5>. QED BY <5>1, <5>2
      <4>. QED BY <4>3
    <3>2. IsFiniteSet(Window(t)) /\ Window(t) \subseteq Time
      BY Parameters, FS_Subset DEF Window
    <3>3. \A u \in Time : tracker'[g][u] \in Nat /\ passed'[g][u] \in Nat
      BY <1>0, <1>1, <1>2
    <3>4. SumOver(passed'[g], Window(t)) <= SumOver(tracker'[g], Window(t))
      <4>1. \A u \in Window(t) : /\ passed'[g][u] \in Int /\ tracker'[g][u] \in Int
                                 /\ passed'[g][u] <= tracker'[g][u]
        BY <3>1, <3>2, <3>3
      <4>. QED BY <3>2, <4>1, SumMonotone
    <3>5. /\ SumOver(tracker'[g], Window(t)) <= SumOver(tracker'[g], Time)
          /\ SumOver(tracker'[g], Window(t)) \in Nat /\ SumOver(tracker'[g], Time) \in Nat
          /\ SumOver(passed'[g], Window(t)) \in Nat
      <4>1. Window(t) \in SUBSET Time /\ Time \in SUBSET Time
        BY <3>2
      <4>. QED BY <3>3, <4>1, Parameters, SumPart
    <3>. QED BY <1>5, <2>2, <3>4, <3>5, Parameters
  <2>. QED BY <2>1, <2>2
<1>. QED BY <1>3, <1>6, <1>7

\* The alert is turned away: times before the window are dropped for good.
LEMMA ForgottenKeeps ==
  ASSUME RateInv, NEW g \in Groups, Forgotten(g), now' = now
  PROVE  Tracked' /\ TrackerBounded' /\ RateLimitHolds'
<1>1. /\ tracker'[g] = Recent(g) /\ passed' = passed
      /\ \A h \in Groups : h # g => tracker'[h] = tracker[h]
  BY DEF Forgotten, RateInv, IntakeTypes
<1>2. \A t \in Time : t >= now - RateWindow => Recent(g)[t] = tracker[g][t]
  BY DEF Recent
<1>3. Tracked'
  BY <1>1, <1>2 DEF RateInv, Tracked
<1>4. TrackerBounded'
  BY <1>1, RecentFacts DEF RateInv, TrackerBounded
<1>5. RateLimitHolds'
  BY <1>1 DEF RateInv, RateLimitHolds
<1>. QED BY <1>3, <1>4, <1>5

\* SpokenFor, of what the queue has and what the buffers hold.
Spoken(q, b) == [r \in Rules |-> q[r] * (IF r \in Aggregated THEN MaxBatch ELSE 1) + b[r].count]

LEMMA SpokenTypes ==
  ASSUME NEW q \in [Rules -> Nat], NEW b \in [Rules -> [count : Nat, first : Time]]
  PROVE  Spoken(q, b) \in [Rules -> Nat]
<1>1. \A r \in Rules : q[r] * (IF r \in Aggregated THEN MaxBatch ELSE 1) + b[r].count \in Nat
  <2>. SUFFICES ASSUME NEW r \in Rules
                PROVE  q[r] * (IF r \in Aggregated THEN MaxBatch ELSE 1) + b[r].count \in Nat
    OBVIOUS
  <2>1. q[r] \in Nat /\ b[r].count \in Nat /\ MaxBatch \in Nat
    BY Parameters
  <2>. QED BY <2>1
<1>. QED BY <1>1 DEF Spoken

LEMMA SpokenForIs == SpokenFor = Spoken(queued, batch) /\ SpokenFor' = Spoken(queued', batch')
BY DEF SpokenFor, Spoken

\* An alert of rule r passes, and the queue and the buffers have at least as much
\* more to show for it.
LEMMA PassedIsSpokenFor ==
  ASSUME RateInv, NEW r \in Rules, NEW new \in [Rules -> Nat], SpokenFor' = new,
         new[r] >= SpokenFor[r] + 1, \A q \in Rules : q # r => new[q] = SpokenFor[q],
         passed' = [passed EXCEPT ![GroupOf[r]][now] = @ + 1], faults' = 0 => faults = 0
  PROVE  DroppedAreSpokenFor'
<1>. SUFFICES ASSUME faults = 0, NEW g \in Groups
              PROVE  SumOver(passed'[g], Time) <= SumOver(new, RulesOf(g))
  BY DEF DroppedAreSpokenFor
<1>0. now \in Time /\ passed \in [Groups -> [Time -> Nat]] /\ SpokenFor \in [Rules -> Nat]
  BY SpokenTypes, SpokenForIs DEF RateInv, IntakeTypes
<1>1. SumOver(passed[g], Time) <= SumOver(SpokenFor, RulesOf(g))
  BY DEF RateInv, DroppedAreSpokenFor
<1>2. IsFiniteSet(RulesOf(g)) /\ RulesOf(g) \subseteq Rules
  BY Parameters, FS_Subset DEF RulesOf
<1>3. CASE GroupOf[r] # g
  <2>1. passed'[g] = passed[g]
    BY <1>0, <1>3
  <2>2. \A q \in RulesOf(g) : new[q] = SpokenFor[q]
    BY <1>3 DEF RulesOf
  <2>3. SumOver(new, RulesOf(g)) = SumOver(SpokenFor, RulesOf(g))
    BY <1>2, <2>2, SumSame
  <2>. QED BY <1>1, <2>1, <2>3
<1>4. CASE GroupOf[r] = g
  <2> DEFINE f == passed[g]
             h == passed'[g]
             old == SpokenFor
  <2>1. /\ \A t \in Time : f[t] \in Int
        /\ h[now] = f[now] + 1 /\ \A t \in Time : t # now => h[t] = f[t]
    BY <1>0, <1>4
  <2>2. /\ \A q \in RulesOf(g) : old[q] \in Int /\ new[q] \in Int
        /\ r \in RulesOf(g) /\ \A q \in RulesOf(g) : q # r => new[q] = old[q]
    BY <1>0, <1>2, <1>4 DEF RulesOf
  <2>. HIDE DEF f, h, old
  <2>3. SumOver(h, Time) = SumOver(f, Time) + (h[now] - f[now])
    <3>1. /\ \A t \in Time : f[t] \in Int
          /\ h[now] \in Int /\ \A t \in Time : t # now => h[t] = f[t]
      BY <1>0, <2>1
    <3>2. IsFiniteSet(Time)
      BY Parameters
    <3>. QED BY <1>0, <3>1, <3>2, SumChange
  <2>4. SumOver(new, RulesOf(g)) = SumOver(old, RulesOf(g)) + (new[r] - old[r])
    BY <1>2, <2>2, SumChange
  <2>5. SumOver(f, Time) \in Int /\ SumOver(old, RulesOf(g)) \in Int
    BY <1>2, <2>1, <2>2, Parameters, SumRemove
  <2>6. f[now] \in Int /\ h[now] = f[now] + 1 /\ new[r] \in Int /\ old[r] \in Int
    BY <1>0, <2>1, <2>2
  <2>7. SumOver(f, Time) <= SumOver(old, RulesOf(g)) /\ new[r] >= old[r] + 1
    BY <1>1 DEF f, old
  <2>8. SumOver(h, Time) <= SumOver(new, RulesOf(g))
    BY <2>3, <2>4, <2>5, <2>6, <2>7
  <2>. QED BY <2>8 DEF h
<1>. QED BY <1>3, <1>4

LEMMA SendTypes ==
  ASSUME RateInv, NEW p \in Producers, pc[p] = "send"
  PROVE  key[p] \in Keys /\ RuleOf[key[p]] \in Rules /\ Group(p) \in Groups
BY Parameters DEF RateInv, IntakeTypes, Group

\* What every alert that passes does to the types of what is counted.
LEMMA PassTypes ==
  ASSUME RateInv, NEW p \in Producers, Pass(p)
  PROVE  /\ Counted(Group(p)) /\ now' = now /\ stamp' = stamp
         /\ passed' = [passed EXCEPT ![GroupOf[RuleOf[key[p]]]][now] = @ + 1]
         /\ tracker' \in [Groups -> [Time -> Nat]] /\ passed' \in [Groups -> [Time -> Nat]]
<1>1. /\ pc[p] = "send" /\ WithinLimit(Group(p)) /\ now' = now /\ stamp' = stamp
      /\ tracker' = [tracker EXCEPT ![Group(p)] = [Recent(Group(p)) EXCEPT ![now] = @ + 1]]
      /\ passed' = [passed EXCEPT ![Group(p)][now] = @ + 1]
  BY DEF Pass
<1>2. Group(p) \in Groups /\ now \in Time /\ Recent(Group(p)) \in [Time -> Nat]
  BY <1>1, SendTypes, RecentFacts DEF RateInv, IntakeTypes
<1>3. /\ tracker' \in [Groups -> [Time -> Nat]] /\ passed' \in [Groups -> [Time -> Nat]]
  <2>. HIDE DEF Group, Recent
  <2>. QED BY <1>1, <1>2 DEF RateInv, IntakeTypes
<1>. QED BY <1>1, <1>3 DEF Counted, Group

LEMMA BufferKeeps ==
  ASSUME RateInv, NEW p \in Producers, SendToBuffer(p)
  PROVE  RateInv'
<1> DEFINE r == RuleOf[key[p]]
<1>1. pc[p] = "send" /\ Pass(p) /\ key[p] \in Keys /\ r \in Rules /\ Group(p) \in Groups
  BY SendTypes DEF SendToBuffer, Pass
<1>2. /\ batch' = [batch EXCEPT ![r] = [count |-> batch[r].count + 1, first |-> Opened(r)]]
      /\ batch[r].count + 1 < MaxBatch
      /\ pc' = [pc EXCEPT ![p] = "mark"] /\ key' = key /\ queued' = queued /\ faults' = faults
      /\ lastSent' = [lastSent EXCEPT ![p][key[p]] = now]
  <2>1. ~ (batch[r].count + 1 >= MaxBatch)
    BY DEF SendToBuffer, Due
  <2>2. batch[r].count \in Nat /\ MaxBatch \in Nat
    BY <1>1, Parameters DEF RateInv, IntakeTypes
  <2>. QED BY <2>1, <2>2 DEF SendToBuffer, Buffered, Accept, Goto
<1>3. Opened(r) \in Time /\ batch[r].count \in Nat
  BY <1>1 DEF Opened, RateInv, IntakeTypes
<1>4. IntakeTypes'
  <2>1. batch' \in [Rules -> [count : Nat, first : Time]]
    BY <1>1, <1>2, <1>3 DEF RateInv, IntakeTypes
  <2>2. lastSent' \in [Producers -> [Keys -> Time \cup {Never}]]
    BY <1>1, <1>2 DEF RateInv, IntakeTypes
  <2>3. /\ pc' \in [Producers -> {"idle", "send", "mark"}]
        /\ \A q \in Producers : pc'[q] = "idle" <=> key'[q] = None
    BY <1>1, <1>2, Parameters DEF RateInv, IntakeTypes
  <2>. QED BY <1>1, <1>2, <2>1, <2>2, <2>3, PassTypes DEF RateInv, IntakeTypes
<1>5. BatchBounded'
  BY <1>1, <1>2 DEF RateInv, BatchBounded, IntakeTypes
<1>6. DroppedAreSpokenFor'
  <2> DEFINE new == Spoken(queued', batch')
  <2>1. new \in [Rules -> Nat]
    BY <1>4, SpokenTypes DEF IntakeTypes
  <2>2. new[r] = SpokenFor[r] + 1 /\ SpokenFor[r] \in Nat
    <3>1. batch'[r].count = batch[r].count + 1 /\ queued'[r] = queued[r]
      BY <1>1, <1>2 DEF RateInv, IntakeTypes
    <3>2. SpokenFor \in [Rules -> Nat]
      BY SpokenTypes, SpokenForIs DEF RateInv, IntakeTypes
    <3>3. queued[r] * (IF r \in Aggregated THEN MaxBatch ELSE 1) \in Nat
      <4>1. queued[r] \in Nat /\ MaxBatch \in Nat
        BY <1>1, Parameters DEF RateInv, IntakeTypes
      <4>. QED BY <4>1
    <3>. QED BY <1>1, <1>3, <3>1, <3>2, <3>3 DEF Spoken, SpokenFor
  <2>3. \A q \in Rules : q # r => new[q] = SpokenFor[q]
    BY <1>1, <1>2 DEF Spoken, SpokenFor, RateInv, IntakeTypes
  <2>4. SpokenFor' = new
    BY SpokenForIs
  <2>5. passed' = [passed EXCEPT ![GroupOf[r]][now] = @ + 1]
    BY <1>1, PassTypes
  <2>6. new[r] >= SpokenFor[r] + 1 /\ (faults' = 0 => faults = 0) /\ r \in Rules
    BY <1>1, <1>2, <2>2
  <2>. HIDE DEF new, r
  <2>. QED BY <2>1, <2>3, <2>4, <2>5, <2>6, PassedIsSpokenFor
<1>. QED BY <1>1, <1>4, <1>5, <1>6, PassTypes, CountedKeeps DEF RateInv

\* A flush empties a buffer that held less than MaxBatch alerts.
LEMMA QueueKeeps ==
  ASSUME RateInv, NEW p \in Producers, SendToQueue(p)
  PROVE  RateInv'
<1> DEFINE r == RuleOf[key[p]]
<1>1. pc[p] = "send" /\ Pass(p) /\ key[p] \in Keys /\ r \in Rules /\ Group(p) \in Groups
  BY SendTypes DEF SendToQueue, Pass
<1>2. /\ batch' = Flushed(r) /\ queued' = [queued EXCEPT ![r] = @ + 1]
      /\ pc' = [pc EXCEPT ![p] = "mark"] /\ key' = key /\ faults' = faults
      /\ lastSent' = [lastSent EXCEPT ![p][key[p]] = now]
  BY DEF SendToQueue, Accept, Goto
<1>3. /\ batch' \in [Rules -> [count : Nat, first : Time]]
      /\ \A q \in Rules : q # r => batch'[q] = batch[q]
      /\ IF r \in Aggregated THEN batch'[r].count = 0 ELSE batch'[r] = batch[r]
      /\ BatchBounded'
  BY <1>1, <1>2, Parameters DEF Flushed, Empty, RateInv, IntakeTypes, BatchBounded
<1>4. IntakeTypes'
  <2>1. lastSent' \in [Producers -> [Keys -> Time \cup {Never}]] /\ queued' \in [Rules -> Nat]
    BY <1>1, <1>2 DEF RateInv, IntakeTypes
  <2>2. /\ pc' \in [Producers -> {"idle", "send", "mark"}]
        /\ \A q \in Producers : pc'[q] = "idle" <=> key'[q] = None
    BY <1>1, <1>2, Parameters DEF RateInv, IntakeTypes
  <2>. QED BY <1>1, <1>2, <1>3, <2>1, <2>2, PassTypes DEF RateInv, IntakeTypes
<1>5. DroppedAreSpokenFor'
  <2> DEFINE new == Spoken(queued', batch')
  <2>1. new \in [Rules -> Nat]
    BY <1>4, SpokenTypes DEF IntakeTypes
  <2>2. new[r] >= SpokenFor[r] + 1
    <3>1. queued[r] \in Nat /\ batch[r].count \in Nat /\ batch[r].count < MaxBatch /\ MaxBatch \in Nat
          /\ queued'[r] = queued[r] + 1
      BY <1>1, <1>2, Parameters DEF RateInv, IntakeTypes, BatchBounded
    <3>2. CASE r \in Aggregated
      <4>1. new[r] = (queued[r] + 1) * MaxBatch + 0 /\ SpokenFor[r] = queued[r] * MaxBatch + batch[r].count
        BY <1>1, <1>3, <3>1, <3>2 DEF Spoken, SpokenFor
      <4>2. (queued[r] + 1) * MaxBatch = queued[r] * MaxBatch + MaxBatch /\ queued[r] * MaxBatch \in Nat
        <5>1. \A a, b \in Nat : (a + 1) * b = a * b + b /\ a * b \in Nat
          OBVIOUS
        <5>. QED BY <3>1, <5>1
      <4>. QED BY <3>1, <4>1, <4>2
    <3>3. CASE r \notin Aggregated
      <4>1. new[r] = (queued[r] + 1) * 1 + batch[r].count /\ SpokenFor[r] = queued[r] * 1 + batch[r].count
        BY <1>1, <1>3, <3>1, <3>3 DEF Spoken, SpokenFor
      <4>. QED BY <3>1, <4>1
    <3>. QED BY <3>2, <3>3
  <2>3. \A q \in Rules : q # r => new[q] = SpokenFor[q]
    BY <1>1, <1>2, <1>3 DEF Spoken, SpokenFor, RateInv, IntakeTypes
  <2>4. SpokenFor' = new
    BY SpokenForIs
  <2>5. passed' = [passed EXCEPT ![GroupOf[r]][now] = @ + 1]
    BY <1>1, PassTypes
  <2>6. r \in Rules /\ (faults' = 0 => faults = 0)
    BY <1>1, <1>2
  <2>. HIDE DEF new, r
  <2>. QED BY <2>1, <2>2, <2>3, <2>4, <2>5, <2>6, PassedIsSpokenFor
<1>. QED BY <1>1, <1>3, <1>4, <1>5, PassTypes, CountedKeeps DEF RateInv

\* The queue refuses the alert: a fault, and from then on nothing is said.
LEMMA RefusalKeeps ==
  ASSUME RateInv, NEW p \in Producers, QueueRefuses(p)
  PROVE  RateInv'
<1> DEFINE r == RuleOf[key[p]]
<1>1. pc[p] = "send" /\ Pass(p) /\ key[p] \in Keys /\ r \in Rules /\ Group(p) \in Groups
  BY SendTypes DEF QueueRefuses, Pass
<1>2. /\ batch' = Flushed(r) /\ queued' = queued /\ lastSent' = lastSent
      /\ pc' = [pc EXCEPT ![p] = "idle"] /\ key' = [key EXCEPT ![p] = None]
      /\ faults < MaxFaults /\ faults' = faults + 1
  BY DEF QueueRefuses, Return, Fault
<1>3. batch' \in [Rules -> [count : Nat, first : Time]] /\ BatchBounded'
  BY <1>1, <1>2, Parameters DEF Flushed, Empty, RateInv, IntakeTypes, BatchBounded
<1>4. faults' \in 0 .. MaxFaults /\ faults' # 0
  BY <1>2, Parameters DEF RateInv, IntakeTypes
<1>5. IntakeTypes'
  <2>1. /\ pc' \in [Producers -> {"idle", "send", "mark"}] /\ key' \in [Producers -> Keys \cup {None}]
        /\ \A q \in Producers : pc'[q] = "idle" <=> key'[q] = None
    BY <1>1, <1>2, Parameters DEF RateInv, IntakeTypes
  <2>. QED BY <1>1, <1>2, <1>3, <1>4, <2>1, PassTypes DEF RateInv, IntakeTypes
<1>6. DroppedAreSpokenFor'
  BY <1>4 DEF DroppedAreSpokenFor
<1>. QED BY <1>1, <1>3, <1>5, <1>6, PassTypes, CountedKeeps DEF RateInv

LEMMA TurnedDownKeeps ==
  ASSUME RateInv, NEW p \in Producers, RateLimited(p)
  PROVE  RateInv'
<1>1. /\ pc[p] = "send" /\ Forgotten(Group(p)) /\ Group(p) \in Groups
      /\ pc' = [pc EXCEPT ![p] = "idle"] /\ key' = [key EXCEPT ![p] = None]
      /\ UNCHANGED <<now, stamp, batch, queued, passed, lastSent, faults>>
  BY SendTypes DEF RateLimited, Return, Forgotten
<1>2. /\ pc' \in [Producers -> {"idle", "send", "mark"}] /\ key' \in [Producers -> Keys \cup {None}]
      /\ \A q \in Producers : pc'[q] = "idle" <=> key'[q] = None
  BY <1>1, Parameters DEF RateInv, IntakeTypes
<1>3. tracker' \in [Groups -> [Time -> Nat]]
  BY <1>1, RecentFacts DEF Forgotten, RateInv, IntakeTypes
<1>4. IntakeTypes'
  BY <1>1, <1>2, <1>3 DEF RateInv, IntakeTypes
<1>5. BatchBounded' /\ DroppedAreSpokenFor'
  BY <1>1 DEF RateInv, BatchBounded, DroppedAreSpokenFor, SpokenFor
<1>. QED BY <1>1, <1>4, <1>5, ForgottenKeeps DEF RateInv

\* The throttler is asked and told: nothing that is counted changes.
LEMMA ThrottlerKeeps ==
  ASSUME RateInv, NEW p \in Producers,
         MarkSent(p) \/ \E k \in Keys : TurnedAway(p, k) \/ ShouldSend(p, k)
  PROVE  RateInv'
<1>1. UNCHANGED <<now, tracker, batch, queued, passed, lastSent>> /\ (faults' = 0 => faults = 0)
      /\ faults' \in 0 .. MaxFaults
  BY Parameters DEF MarkSent, TurnedAway, ShouldSend, Fault, intakeVars, RateInv, IntakeTypes
<1>2. IntakeTypes'
  <2>1. CASE MarkSent(p)
    <3>1. /\ pc[p] = "mark" /\ pc' = [pc EXCEPT ![p] = "idle"] /\ key' = [key EXCEPT ![p] = None]
          /\ stamp' = [stamp EXCEPT ![key[p]] = now] \/ stamp' = stamp
      BY <2>1 DEF MarkSent, Return
    <3>2. stamp' \in [Keys -> Time \cup {Never}]
      BY <3>1 DEF RateInv, IntakeTypes
    <3>. QED BY <1>1, <3>1, <3>2, Parameters DEF RateInv, IntakeTypes
  <2>2. ASSUME NEW k \in Keys, ShouldSend(p, k) PROVE IntakeTypes'
    <3>1. pc' = [pc EXCEPT ![p] = "send"] /\ key' = [key EXCEPT ![p] = k] /\ stamp' = stamp
      BY <2>2 DEF ShouldSend
    <3>. QED BY <1>1, <3>1, Parameters DEF RateInv, IntakeTypes
  <2>3. ASSUME NEW k \in Keys, TurnedAway(p, k) PROVE IntakeTypes'
    BY <2>3 DEF TurnedAway, intakeVars, RateInv, IntakeTypes
  <2>. QED BY <2>1, <2>2, <2>3
<1>3. /\ Tracked' /\ TrackerBounded' /\ RateLimitHolds' /\ BatchBounded' /\ DroppedAreSpokenFor'
  BY <1>1 DEF RateInv, Tracked, TrackerBounded, RateLimitHolds, BatchBounded, DroppedAreSpokenFor, SpokenFor
<1>. QED BY <1>2, <1>3 DEF RateInv

LEMMA TickKeeps == ASSUME RateInv, Tick PROVE RateInv'
<1>1. now' = now + 1 /\ now' \in Time
      /\ UNCHANGED <<pc, key, stamp, tracker, batch, queued, passed, lastSent, faults>>
  BY Parameters DEF Tick, RateInv, IntakeTypes, Time
<1>2. IntakeTypes'
  BY <1>1 DEF RateInv, IntakeTypes
<1>3. Tracked'
  BY <1>1, Parameters DEF RateInv, IntakeTypes, Tracked
<1>4. TrackerBounded' /\ RateLimitHolds' /\ BatchBounded' /\ DroppedAreSpokenFor'
  BY <1>1 DEF RateInv, TrackerBounded, RateLimitHolds, BatchBounded, DroppedAreSpokenFor, SpokenFor
<1>. QED BY <1>2, <1>3, <1>4 DEF RateInv

LEMMA RateInitial == IntakeInit => RateInv
<1>. SUFFICES ASSUME IntakeInit PROVE RateInv
  OBVIOUS
<1>1. IntakeTypes
  BY Parameters DEF IntakeInit, IntakeTypes, Empty
<1>2. Tracked /\ BatchBounded
  BY Parameters DEF IntakeInit, Tracked, BatchBounded, Empty
<1>3. ASSUME NEW g \in Groups, NEW S \in SUBSET Time
      PROVE  SumOver(tracker[g], S) = 0 /\ SumOver(passed[g], S) = 0
  <2>1. IsFiniteSet(S) /\ Cardinality(S) \in Nat
    BY Parameters, FS_Subset, FS_CardinalityType
  <2>2. \A t \in S : tracker[g][t] = 0 /\ passed[g][t] = 0
    BY DEF IntakeInit
  <2>3. SumOver(tracker[g], S) = Cardinality(S) * 0 /\ SumOver(passed[g], S) = Cardinality(S) * 0
    BY <2>1, <2>2, SumConstant
  <2>. QED BY <2>1, <2>3
<1>4. TrackerBounded
  BY <1>3, Parameters DEF TrackerBounded
<1>5. RateLimitHolds
  <2>1. \A t \in Time : Window(t) \in SUBSET Time
    BY DEF Window
  <2>. QED BY <1>3, <2>1, Parameters DEF RateLimitHolds
<1>6. DroppedAreSpokenFor
  <2>. SUFFICES ASSUME NEW g \in Groups
                PROVE  SumOver(passed[g], Time) <= SumOver(SpokenFor, RulesOf(g))
    BY DEF DroppedAreSpokenFor
  <2>1. SpokenFor \in [Rules -> Nat]
    BY <1>1, SpokenTypes, SpokenForIs DEF IntakeTypes
  <2>2. RulesOf(g) \in SUBSET Rules /\ \A q \in Rules : SpokenFor[q] \in Nat
    BY <2>1 DEF RulesOf
  <2>3. SumOver(SpokenFor, RulesOf(g)) \in Nat
    BY <2>2, Parameters, SumPart
  <2>. QED BY <1>3, <2>3
<1>. QED BY <1>1, <1>2, <1>4, <1>5, <1>6 DEF RateInv

\* The inductive invariant of the rate limit and of the batches.
THEOREM RateInvariant == IntakeSpec => []RateInv
<1>1. RateInv /\ [IntakeNext]_intakeVars => RateInv'
  <2>. SUFFICES ASSUME RateInv, [IntakeNext]_intakeVars PROVE RateInv'
    OBVIOUS
  <2>1. ASSUME NEW p \in Producers, Producer(p) PROVE RateInv'
    BY <2>1, ThrottlerKeeps, TurnedDownKeeps, BufferKeeps, QueueKeeps, RefusalKeeps DEF Producer
  <2>2. CASE UNCHANGED intakeVars
    <3>1. UNCHANGED <<now, pc, key, stamp, tracker, batch, queued, passed, lastSent, faults>>
      BY <2>2 DEF intakeVars
    <3>2. IntakeTypes' /\ Tracked' /\ TrackerBounded' /\ RateLimitHolds'
      BY <3>1 DEF RateInv, IntakeTypes, Tracked, TrackerBounded, RateLimitHolds
    <3>3. BatchBounded' /\ DroppedAreSpokenFor'
      BY <3>1 DEF RateInv, BatchBounded, DroppedAreSpokenFor, SpokenFor
    <3>. QED BY <3>2, <3>3 DEF RateInv
  <2>. QED BY <2>1, <2>2, TickKeeps DEF IntakeNext
<1>. QED BY <1>1, RateInitial, PTL DEF IntakeSpec

\* Types, and that the list of times of a severity and source never grows past
\* its limit.
THEOREM IntakeIsTyped == IntakeSpec => []IntakeTypeOK
<1>1. RateInv => IntakeTypeOK
  BY DEF RateInv, IntakeTypes, TrackerBounded, IntakeTypeOK
<1>. QED BY <1>1, RateInvariant, PTL

\* _check_rate_limit: no window, wherever it begins, sees more alerts of a severity
\* and source than the limit, although the list is cut whenever it is looked at.
THEOREM RateLimitIsKept == IntakeSpec => []RateLimitHolds
<1>1. RateInv => RateLimitHolds
  BY DEF RateInv
<1>. QED BY <1>1, RateInvariant, PTL

\* AlertRouter: as long as nothing fails, every alert past the rate limit is queued,
\* waits in a buffer, or was in a batch of at most MaxBatch that queued another.
THEOREM DroppedAlertsAreSpokenFor == IntakeSpec => []DroppedAreSpokenFor
<1>1. RateInv => DroppedAreSpokenFor
  BY DEF RateInv
<1>. QED BY <1>1, RateInvariant, PTL
=============================================================================
