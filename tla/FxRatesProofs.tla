--------------------------- MODULE FxRatesProofs ---------------------------
(***************************************************************************)
(* How old a rate of the won an answer of the exchange rates can rest on,  *)
(* and what bounds the rate of USDT/USD: for any number of sources,        *)
(* readers and updates and any ttl_seconds.                                *)
(***************************************************************************)
EXTENDS FxRates, FiniteSetTheorems, WellFoundedInduction, TLAPS

Entries == [age : Nat, won : Nat \cup {None}] \cup {None}

States == {"idle", "collect", "get", "again", "delete", "delete_again",
           "chain", "fetch", "raised"}

\* Where the threads are, and that one that looks something up knows what.
Places ==
  /\ pc \in [Threads -> States] /\ pair \in [Threads -> Pair \cup {None}]
  /\ \A s \in Sources : pc[s] \in {"idle", "collect", "get", "delete", "chain"}
  /\ \A s \in Sources : pc[s] \in {"get", "delete"} => pair[s] = "usd_krw"
  /\ \A t \in Threads : pc[t] \notin {"idle", "raised", "collect", "chain"} => pair[t] \in Pair

\* How much older than updated_at the rate behind an entry can be.
Slack(p) == IF p = "usd_krw" THEN 0 ELSE Ttl

Entered ==
  /\ cache \in [Pair -> Entries]
  /\ \A p \in Pair :
       cache[p] # None /\ cache[p].age <= Ttl /\ cache[p].won # None
       => cache[p].won <= cache[p].age + Slack(p)

\* The leg of USD/KRW a source chains with was live when the source found it.
LegIsLive ==
  /\ stamp \in [Sources -> Nat] /\ leg \in [Sources -> [won : Nat \cup {None}] \cup {None}]
  /\ \A s \in Sources : pc[s] = "chain" => leg[s] # None
  /\ \A s \in Sources :
       pc[s] = "chain" /\ stamp[s] <= Ttl /\ leg[s].won # None => leg[s].won <= stamp[s] + Ttl

FxInv == Places /\ Entered /\ LegIsLive

LEMMA Assumed ==
  /\ Ttl \in Nat /\ IsFiniteSet(Sources) /\ Sources \cap Readers = {}
  /\ None \notin [won : Nat \cup {None}] /\ None \notin Rates /\ Rates \subseteq Nat
BY FxAssumption DEF FxAssumption

-----------------------------------------------------------------------------
(* The k-th of the rates, and their median.  A majority is a set M of the   *)
(* sources S whose members are more than half of them.                      *)

LEMMA LeastExists ==
  ASSUME NEW N \in SUBSET Nat, N # {}
  PROVE  \E n \in N : \A m \in N : n <= m
<1>1. PICK n \in N : \A m \in N : ~ (<<m, n>> \in OpToRel(<, Nat))
  BY NatLessThanWellFounded, WFMin
<1>2. ASSUME NEW m \in N, m < n PROVE FALSE
  <2>1. <<m, n>> \in OpToRel(<, Nat)
    BY <1>2 DEF OpToRel
  <2>. QED BY <1>1, <2>1
<1>. QED BY <1>2

LEMMA PartIsSmaller ==
  ASSUME NEW S, IsFiniteSet(S), NEW T \in SUBSET S
  PROVE  /\ Cardinality(T) \in Nat /\ Cardinality(S) \in Nat /\ Cardinality(T) <= Cardinality(S)
         /\ T # S => Cardinality(T) < Cardinality(S)
<1>1. Cardinality(S) \in Nat /\ IsFiniteSet(T)
  BY FS_CardinalityType, FS_Subset
<1>2. Cardinality(T) \in Nat
  BY <1>1, FS_CardinalityType
<1>3. Cardinality(T) <= Cardinality(S) /\ (Cardinality(S) = Cardinality(T) => S = T)
  BY FS_Subset
<1>. QED BY <1>1, <1>2, <1>3

LEMMA GreatestExists ==
  ASSUME NEW S, IsFiniteSet(S), S # {}, NEW v, \A s \in S : v[s] \in Nat
  PROVE  \E s \in S : \A t \in S : v[t] <= v[s]
<1>. DEFINE Above(s) == {t \in S : v[t] > v[s]}
            N == {Cardinality(Above(s)) : s \in S}
<1>1. \A s \in S : IsFiniteSet(Above(s)) /\ Cardinality(Above(s)) \in Nat
  <2>. SUFFICES ASSUME NEW s \in S PROVE IsFiniteSet(Above(s)) /\ Cardinality(Above(s)) \in Nat
    OBVIOUS
  <2>. QED BY FS_Subset, FS_CardinalityType
<1>2. PICK n \in N : \A m \in N : n <= m
  <2>1. N \in SUBSET Nat /\ N # {}
    BY <1>1
  <2>. HIDE DEF N
  <2>. QED BY <2>1, LeastExists
<1>3. PICK s \in S : n = Cardinality(Above(s))
  OBVIOUS
<1>4. ASSUME NEW t \in S, v[t] > v[s] PROVE FALSE
  <2>1. Above(t) \in SUBSET Above(s) /\ t \in Above(s) /\ t \notin Above(t)
    BY <1>4
  <2>2. Cardinality(Above(t)) < Cardinality(Above(s))
    <3>. HIDE DEF Above
    <3>. QED BY <1>1, <2>1, PartIsSmaller
  <2>3. n <= Cardinality(Above(t))
    BY <1>2
  <2>4. Cardinality(Above(t)) \in Nat /\ Cardinality(Above(s)) \in Nat
    BY <1>1
  <2>. HIDE DEF Above
  <2>. QED BY <1>3, <2>2, <2>3, <2>4
<1>. QED BY <1>4

LEMMA KthIs ==
  ASSUME NEW S, IsFiniteSet(S), NEW v, \A s \in S : v[s] \in Nat, NEW k \in 1 .. Cardinality(S)
  PROVE  /\ \E s \in S : Kth(v, S, k) = v[s]
         /\ Cardinality({s \in S : v[s] < Kth(v, S, k)}) < k
         /\ k <= Cardinality({s \in S : v[s] <= Kth(v, S, k)})
<1>. DEFINE UpTo(x) == {s \in S : v[s] <= x}
            Below(x) == {s \in S : v[s] < x}
            Enough == {s \in S : k <= Cardinality(UpTo(v[s]))}
            N == {v[s] : s \in Enough}
<1>0. Cardinality(S) \in Nat /\ k \in Nat /\ k >= 1 /\ k <= Cardinality(S) /\ S # {}
  BY FS_CardinalityType, FS_EmptySet
<1>1. Enough # {}
  <2>1. PICK s \in S : \A t \in S : v[t] <= v[s]
    BY <1>0, GreatestExists
  <2>2. UpTo(v[s]) = S
    BY <2>1
  <2>. QED BY <1>0, <2>2
<1>2. PICK x \in N : \A y \in N : x <= y
  <2>1. N \in SUBSET Nat /\ N # {}
    BY <1>1
  <2>. HIDE DEF N
  <2>. QED BY <2>1, LeastExists
<1>3. x \in {v[s] : s \in S} /\ x \in Nat /\ k <= Cardinality(UpTo(x))
  OBVIOUS
<1>4. Cardinality(Below(x)) < k
  <2>. SUFFICES ASSUME ~(Cardinality(Below(x)) < k) PROVE FALSE
    OBVIOUS
  <2>1. IsFiniteSet(Below(x)) /\ Cardinality(Below(x)) \in Nat
    BY FS_Subset, FS_CardinalityType
  <2>2. Below(x) # {}
    BY <1>0, <2>1, FS_EmptySet
  <2>3. PICK t \in Below(x) : \A s \in Below(x) : v[s] <= v[t]
    <3>1. \A s \in Below(x) : v[s] \in Nat
      OBVIOUS
    <3>. HIDE DEF Below
    <3>. QED BY <2>1, <2>2, <3>1, GreatestExists
  <2>4. t \in S /\ v[t] \in Nat /\ v[t] < x
    OBVIOUS
  <2>5. UpTo(v[t]) = Below(x)
    BY <1>3, <2>3, <2>4
  <2>6. t \in Enough
    BY <1>0, <2>1, <2>4, <2>5
  <2>7. x <= v[t]
    BY <1>2, <2>6
  <2>. QED BY <1>3, <2>4, <2>7
<1>5. \E y \in {v[s] : s \in S} :
        /\ Cardinality({s \in S : v[s] < y}) < k
        /\ k <= Cardinality({s \in S : v[s] <= y})
  BY <1>3, <1>4
<1>6. /\ Kth(v, S, k) \in {v[s] : s \in S}
      /\ Cardinality({s \in S : v[s] < Kth(v, S, k)}) < k
      /\ k <= Cardinality({s \in S : v[s] <= Kth(v, S, k)})
  BY <1>5 DEF Kth
<1>. QED BY <1>6

\* A majority has one of its members on each side of the k-th rate, if k is in
\* the middle.
LEMMA KthOfMajority ==
  ASSUME NEW S, IsFiniteSet(S), NEW v, \A s \in S : v[s] \in Nat, NEW k \in 1 .. Cardinality(S),
         NEW M \in SUBSET S, k <= Cardinality(M), Cardinality(S) < k + Cardinality(M)
  PROVE  /\ Kth(v, S, k) \in Nat
         /\ \E a \in M : v[a] <= Kth(v, S, k)
         /\ \E b \in M : Kth(v, S, k) <= v[b]
<1>. DEFINE x == Kth(v, S, k)
            UpTo == {s \in S : v[s] <= x}
            Below == {s \in S : v[s] < x}
<1>1. x \in Nat /\ Cardinality(Below) < k /\ k <= Cardinality(UpTo)
  <2>1. /\ \E s \in S : x = v[s]
        /\ Cardinality(Below) < k /\ k <= Cardinality(UpTo)
    BY KthIs
  <2>. QED BY <2>1
<1>. HIDE DEF x
<1>2. /\ IsFiniteSet(M) /\ IsFiniteSet(UpTo) /\ IsFiniteSet(Below)
      /\ Cardinality(M) \in Nat /\ Cardinality(UpTo) \in Nat /\ Cardinality(Below) \in Nat
      /\ Cardinality(S) \in Nat /\ k \in Nat
  <2>1. /\ M \in SUBSET S /\ UpTo \in SUBSET S /\ Below \in SUBSET S
    OBVIOUS
  <2>. HIDE DEF UpTo, Below
  <2>2. IsFiniteSet(M) /\ IsFiniteSet(UpTo) /\ IsFiniteSet(Below)
    BY <2>1, FS_Subset
  <2>. QED BY <2>2, FS_CardinalityType
<1>3. \E a \in M : v[a] <= x
  <2>. SUFFICES ASSUME \A a \in M : ~(v[a] <= x) PROVE FALSE
    OBVIOUS
  <2>1. UpTo \cup M \in SUBSET S /\ UpTo \cap M = {}
    OBVIOUS
  <2>. HIDE DEF UpTo
  <2>2. Cardinality(UpTo \cup M) = Cardinality(UpTo) + Cardinality(M) - Cardinality(UpTo \cap M)
    BY <1>2, FS_Union
  <2>3. Cardinality(UpTo \cap M) = 0
    BY <2>1, FS_EmptySet
  <2>4. Cardinality(UpTo \cup M) <= Cardinality(S)
    BY <2>1, PartIsSmaller
  <2>. QED BY <1>1, <1>2, <2>2, <2>3, <2>4
<1>4. \E b \in M : x <= v[b]
  <2>. SUFFICES ASSUME \A b \in M : ~(x <= v[b]) PROVE FALSE
    OBVIOUS
  <2>1. M \in SUBSET Below
    BY <1>1
  <2>. HIDE DEF Below
  <2>2. Cardinality(M) <= Cardinality(Below)
    BY <1>2, <2>1, PartIsSmaller
  <2>. QED BY <1>1, <1>2, <2>2
<1>. QED BY <1>1, <1>3, <1>4 DEF x

LEMMA MedianOfMajority ==
  ASSUME NEW S, IsFiniteSet(S), NEW v, \A s \in S : v[s] \in Nat,
         NEW M \in SUBSET S, 2 * Cardinality(M) > Cardinality(S)
  PROVE  /\ Median(v, S) \in Nat
         /\ \E a \in M : v[a] <= Median(v, S)
         /\ \E b \in M : Median(v, S) <= v[b]
<1>. DEFINE n == Cardinality(S)
            m == Cardinality(M)
<1>1. n \in Nat /\ m \in Nat /\ m <= n /\ 2 * m > n
  BY PartIsSmaller
<1>2. CASE n % 2 = 1
  <2>. DEFINE k == (n + 1) \div 2
  <2>1. k \in 1 .. n /\ k <= m /\ n < k + m
    <3>. HIDE DEF n, m
    <3>. QED BY <1>1, <1>2
  <2>2. Median(v, S) = Kth(v, S, k)
    BY <1>2 DEF Median
  <2>. HIDE DEF k
  <2>. QED BY <2>1, <2>2, KthOfMajority
<1>3. CASE n % 2 # 1
  <2>. DEFINE k == n \div 2
  <2>1. k \in Nat /\ k \in 1 .. n /\ k <= m /\ n < k + m /\ k + 1 \in 1 .. n /\ k + 1 <= m /\ n < k + 1 + m
    <3>. HIDE DEF n, m
    <3>. QED BY <1>1, <1>3
  <2>2. Median(v, S) = (Kth(v, S, k) + Kth(v, S, k + 1)) \div 2
    BY <1>3 DEF Median
  <2>. HIDE DEF k
  <2>. DEFINE x == Kth(v, S, k)
              y == Kth(v, S, k + 1)
  <2>3. x \in Nat /\ (\E a \in M : v[a] <= x) /\ (\E b \in M : x <= v[b])
    BY <2>1, KthOfMajority
  <2>4. y \in Nat /\ (\E a \in M : v[a] <= y) /\ (\E b \in M : y <= v[b])
    BY <2>1, KthOfMajority
  <2>. HIDE DEF x, y
  <2>5. /\ (x + y) \div 2 \in Nat
        /\ x <= (x + y) \div 2 \/ y <= (x + y) \div 2
        /\ (x + y) \div 2 <= x \/ (x + y) \div 2 <= y
    BY <2>3, <2>4
  <2>6. \A a \in M : v[a] \in Nat
    OBVIOUS
  <2>7. Median(v, S) = (x + y) \div 2
    BY <2>2 DEF x, y
  <2>. QED BY <2>3, <2>4, <2>5, <2>6, <2>7
<1>. QED BY <1>2, <1>3

\* No outlier is in a majority that agrees to five per cent.
LEMMA MajorityIsNear ==
  ASSUME NEW S, IsFiniteSet(S), NEW v, \A s \in S : v[s] \in Nat,
         NEW M \in SUBSET S, 2 * Cardinality(M) > Cardinality(S),
         \A a, b \in M : 20 * v[a] <= 21 * v[b]
  PROVE  M \in SUBSET Inliers(v, S) /\ Inliers(v, S) \in SUBSET S
<1>. DEFINE m == Median(v, S)
            near == {s \in S : 20 * v[s] >= 19 * m /\ 20 * v[s] <= 21 * m}
<1>1. m \in Nat /\ (\E a \in M : v[a] <= m) /\ (\E b \in M : m <= v[b])
  BY MedianOfMajority
<1>. HIDE DEF m
<1>2. ASSUME NEW c \in M PROVE c \in near
  <2>1. PICK a \in M : v[a] <= m
    BY <1>1
  <2>2. PICK b \in M : m <= v[b]
    BY <1>1
  <2>3. 20 * v[c] <= 21 * v[a] /\ 20 * v[b] <= 21 * v[c]
    OBVIOUS
  <2>4. v[a] \in Nat /\ v[b] \in Nat /\ v[c] \in Nat /\ c \in S
    OBVIOUS
  <2>5. 20 * v[c] >= 19 * m /\ 20 * v[c] <= 21 * m
    BY <1>1, <2>1, <2>2, <2>3, <2>4
  <2>. QED BY <2>4, <2>5
<1>3. Inliers(v, S) = S \/ Inliers(v, S) = near
  BY DEF Inliers, m
<1>. QED BY <1>2, <1>3

\* What a source stores is bounded by a majority that agrees.
LEMMA AggregateOfMajority ==
  ASSUME NEW v, \A q \in Sources : v[q] \in Nat \cup {None},
         NEW M \in SUBSET Sources, 2 * Cardinality(M) > Cardinality(Sources),
         \A a \in M : v[a] # None, \A a, b \in M : 20 * v[a] <= 21 * v[b]
  PROVE  (\E a \in M : v[a] <= Aggregate(v)) /\ (\E b \in M : Aggregate(v) <= v[b])
<1>. DEFINE S == Known(v)
            near == Inliers(v, S)
<1>1. S \in SUBSET Sources /\ M \in SUBSET S /\ \A s \in S : v[s] \in Nat
  BY DEF Known
<1>. HIDE DEF S
<1>2. IsFiniteSet(Sources) /\ IsFiniteSet(S)
  BY <1>1, FS_Subset, Assumed
<1>3. 2 * Cardinality(M) > Cardinality(S)
  <2>1. Cardinality(S) <= Cardinality(Sources) /\ Cardinality(S) \in Nat /\ Cardinality(Sources) \in Nat
    BY <1>1, <1>2, PartIsSmaller
  <2>2. Cardinality(M) \in Nat
    BY <1>1, <1>2, PartIsSmaller
  <2>. QED BY <2>1, <2>2
<1>4. M \in SUBSET near /\ near \in SUBSET S
  BY <1>1, <1>2, <1>3, MajorityIsNear
<1>. HIDE DEF near
<1>5. IsFiniteSet(near) /\ 2 * Cardinality(M) > Cardinality(near)
  <2>1. IsFiniteSet(near)
    BY <1>2, <1>4, FS_Subset
  <2>2. Cardinality(near) <= Cardinality(S) /\ Cardinality(near) \in Nat /\ Cardinality(S) \in Nat
    BY <1>2, <1>4, PartIsSmaller
  <2>3. Cardinality(M) \in Nat
    BY <1>1, <1>2, PartIsSmaller
  <2>. QED BY <1>3, <2>1, <2>2, <2>3
<1>6. (\E a \in M : v[a] <= Median(v, near)) /\ (\E b \in M : Median(v, near) <= v[b])
  BY <1>1, <1>4, <1>5, MedianOfMajority
<1>. QED BY <1>6 DEF Aggregate, S, near

-----------------------------------------------------------------------------
(* The steps. *)

LEMMA AgedIsNat ==
  ASSUME NEW a \in Nat, NEW limit \in Nat
  PROVE  /\ Aged(a, limit) \in Nat /\ Aged(a, limit) <= limit
         /\ a <= limit => a <= Aged(a, limit) /\ Aged(a, limit) <= a + 1
         /\ Aged(a, limit) < limit => Aged(a, limit) = a + 1
BY DEF Aged

LEMMA AgedWonIsNat ==
  ASSUME NEW w \in Nat \cup {None}
  PROVE  /\ AgedWon(w) \in Nat \cup {None}
         /\ AgedWon(w) # None => w # None /\ w \in Nat /\ AgedWon(w) <= w + 1
<1>1. CASE w = None
  BY <1>1 DEF AgedWon
<1>2. CASE w # None
  BY <1>2, Assumed DEF AgedWon, Aged
<1>. QED BY <1>1, <1>2

LEMMA TickKeeps == ASSUME FxInv, Tick PROVE FxInv'
<1>1. /\ cache' = [p \in Pair |-> AgedEntry(cache[p])]
      /\ leg' = [s \in Sources |-> AgedLeg(leg[s])]
      /\ stamp' = [s \in Sources |->
            IF pc[s] \in {"get", "delete", "chain"} THEN Aged(stamp[s], Ttl + 1) ELSE 0]
      /\ pc' = pc /\ pair' = pair
  BY DEF Tick
<1>2. Places'
  BY <1>1 DEF FxInv, Places
<1>3. Entered'
  <2>. SUFFICES ASSUME NEW p \in Pair
       PROVE  /\ cache'[p] \in Entries
              /\ cache'[p] # None /\ cache'[p].age <= Ttl /\ cache'[p].won # None
                 => cache'[p].won <= cache'[p].age + Slack(p)
    BY <1>1 DEF Entered
  <2>1. cache[p] \in Entries /\ cache'[p] = AgedEntry(cache[p])
    BY <1>1 DEF FxInv, Entered
  <2>2. CASE cache[p] = None
    BY <2>1, <2>2 DEF AgedEntry, Entries
  <2>3. CASE cache[p] # None
    <3>. DEFINE age == cache[p].age
                won == cache[p].won
    <3>1. age \in Nat /\ won \in Nat \cup {None}
      BY <2>1, <2>3 DEF Entries
    <3>2. /\ cache'[p] = [age |-> Aged(age, Ttl + 1), won |-> AgedWon(won)]
          /\ cache'[p].age = Aged(age, Ttl + 1) /\ cache'[p].won = AgedWon(won)
      BY <2>1, <2>3 DEF AgedEntry
    <3>3. age <= Ttl /\ won # None => won <= age + Slack(p)
      BY <2>3 DEF FxInv, Entered
    <3>4. /\ Aged(age, Ttl + 1) \in Nat
          /\ Aged(age, Ttl + 1) <= Ttl => Aged(age, Ttl + 1) = age + 1 /\ age <= Ttl
      BY <3>1, Assumed DEF Aged
    <3>5. /\ AgedWon(won) \in Nat \cup {None}
          /\ AgedWon(won) # None => won # None /\ won \in Nat /\ AgedWon(won) <= won + 1
      BY <3>1, AgedWonIsNat
    <3>6. Slack(p) \in Nat
      BY Assumed DEF Slack
    <3>7. ASSUME Aged(age, Ttl + 1) <= Ttl, AgedWon(won) # None
          PROVE  AgedWon(won) <= Aged(age, Ttl + 1) + Slack(p)
      BY <3>1, <3>3, <3>4, <3>5, <3>6, <3>7
    <3>. QED BY <3>2, <3>4, <3>5, <3>7 DEF Entries
  <2>. QED BY <2>2, <2>3
<1>4. LegIsLive'
  <2>1. stamp' \in [Sources -> Nat]
    <3>. SUFFICES ASSUME NEW s \in Sources PROVE Aged(stamp[s], Ttl + 1) \in Nat
      BY <1>1
    <3>. QED BY Assumed DEF Aged, FxInv, LegIsLive
  <2>2. ASSUME NEW s \in Sources
        PROVE  /\ leg'[s] \in [won : Nat \cup {None}] \cup {None}
               /\ leg[s] # None => leg'[s] # None
    <3>1. leg'[s] = AgedLeg(leg[s]) /\ leg[s] \in [won : Nat \cup {None}] \cup {None}
      BY <1>1 DEF FxInv, LegIsLive
    <3>2. CASE leg[s] = None
      BY <3>1, <3>2 DEF AgedLeg
    <3>3. CASE leg[s] # None
      <4>1. leg'[s] = [won |-> AgedWon(leg[s].won)] /\ leg[s].won \in Nat \cup {None}
        BY <3>1, <3>3 DEF AgedLeg
      <4>2. AgedWon(leg[s].won) \in Nat \cup {None}
        BY <4>1, AgedWonIsNat
      <4>. QED BY <4>1, <4>2, Assumed
    <3>. QED BY <3>2, <3>3
  <2>3. ASSUME NEW s \in Sources, pc[s] = "chain", stamp'[s] <= Ttl, leg'[s].won # None
        PROVE  leg'[s].won <= stamp'[s] + Ttl
    <3>. DEFINE won == leg[s].won
    <3>1. /\ leg[s] # None /\ leg[s] \in [won : Nat \cup {None}]
          /\ leg'[s] = AgedLeg(leg[s]) /\ stamp[s] \in Nat
      BY <1>1, <2>3 DEF FxInv, LegIsLive
    <3>2. won \in Nat \cup {None} /\ leg'[s].won = AgedWon(won)
      BY <3>1 DEF AgedLeg
    <3>3. won # None /\ won \in Nat /\ AgedWon(won) \in Nat /\ AgedWon(won) <= won + 1
      BY <2>3, <3>2, AgedWonIsNat
    <3>4. stamp'[s] = Aged(stamp[s], Ttl + 1)
      BY <1>1, <2>3
    <3>5. stamp'[s] = stamp[s] + 1 /\ stamp[s] <= Ttl
      BY <2>3, <3>1, <3>4, Assumed DEF Aged
    <3>6. won <= stamp[s] + Ttl
      BY <2>3, <3>3, <3>5 DEF FxInv, LegIsLive
    <3>. QED BY <3>1, <3>2, <3>3, <3>5, <3>6, Assumed
  <2>4. leg' \in [Sources -> [won : Nat \cup {None}] \cup {None}]
    BY <1>1, <2>2
  <2>. QED BY <1>1, <2>1, <2>2, <2>3, <2>4 DEF FxInv, LegIsLive
<1>. QED BY <1>2, <1>3, <1>4 DEF FxInv

LEMMA PlacesOnly ==
  ASSUME FxInv, Places', UNCHANGED <<cache, leg, stamp>>,
         \A s \in Sources : pc'[s] = "chain" => pc[s] = "chain"
  PROVE  FxInv'
BY DEF FxInv, Entered, LegIsLive

LEMMA PlaceOfOne ==
  ASSUME Places, NEW t \in Threads, NEW where \in States, NEW p \in Pair \cup {None},
         pc' = [pc EXCEPT ![t] = where],
         pair' = [pair EXCEPT ![t] = p],
         t \in Sources => where \in {"idle", "collect", "get", "delete", "chain"},
         t \in Sources /\ where \in {"get", "delete"} => p = "usd_krw",
         where \notin {"idle", "raised", "collect", "chain"} => p \in Pair
  PROVE  Places' /\ pc'[t] = where /\ \A q \in Threads \ {t} : pc'[q] = pc[q]
<1>1. /\ pc' \in [Threads -> States] /\ pair' \in [Threads -> Pair \cup {None}]
      /\ pc'[t] = where /\ pair'[t] = p
      /\ \A q \in Threads \ {t} : pc'[q] = pc[q] /\ pair'[q] = pair[q]
  BY DEF Places
<1>2. Sources \subseteq Threads
  BY DEF Threads
<1>. HIDE DEF Places, States
<1>3. \A s \in Sources : pc'[s] \in {"idle", "collect", "get", "delete", "chain"}
  BY <1>1, <1>2 DEF Places
<1>4. \A s \in Sources : pc'[s] \in {"get", "delete"} => pair'[s] = "usd_krw"
  BY <1>1, <1>2 DEF Places
<1>5. \A q \in Threads : pc'[q] \notin {"idle", "raised", "collect", "chain"} => pair'[q] \in Pair
  BY <1>1 DEF Places
<1>. QED BY <1>1, <1>3, <1>4, <1>5 DEF Places

LEMMA PlaceOfOneKept ==
  ASSUME Places, NEW t \in Threads, NEW where \in States,
         pc' = [pc EXCEPT ![t] = where],
         pair' = pair,
         t \in Sources => where \in {"idle", "collect", "get", "delete", "chain"},
         t \in Sources /\ where \in {"get", "delete"} => pair[t] = "usd_krw",
         where \notin {"idle", "raised", "collect", "chain"} => pair[t] \in Pair
  PROVE  Places' /\ pc'[t] = where /\ \A q \in Threads \ {t} : pc'[q] = pc[q]
<1>1. pair[t] \in Pair \cup {None} /\ pair' = [pair EXCEPT ![t] = pair[t]]
  BY DEF Places
<1>. QED BY <1>1, PlaceOfOne

LEMMA SourceStepKeeps == ASSUME FxInv, NEW s \in Sources, SourceStep(s) PROVE FxInv'
<1>1. s \in Threads /\ "usd_krw" \in Pair /\ "usdt_krw" \in Pair
  BY DEF Threads, Pair
<1>2. ASSUME NEW r \in Rates, Receive(s, r) PROVE FxInv'
  <2>1. pc' = [pc EXCEPT ![s] = "collect"] /\ UNCHANGED <<pair, cache, leg, stamp>>
    BY <1>2 DEF Receive, Goto
  <2>2. Places' /\ pc'[s] = "collect" /\ \A q \in Threads \ {s} : pc'[q] = pc[q]
    BY <1>1, <2>1, PlaceOfOneKept DEF FxInv, States
  <2>. QED BY <1>1, <2>1, <2>2, PlacesOnly DEF Threads
<1>3. ASSUME Store(s) PROVE FxInv'
  <2>1. /\ pc[s] = "collect" /\ pc' = [pc EXCEPT ![s] = "get"]
        /\ pair' = [pair EXCEPT ![s] = "usd_krw"] /\ stamp' = [stamp EXCEPT ![s] = 0]
        /\ cache' = cache /\ leg' = leg
    BY <1>3 DEF Store, Goto
  <2>2. Places' /\ pc'[s] = "get" /\ \A q \in Threads \ {s} : pc'[q] = pc[q]
    BY <1>1, <2>1, PlaceOfOne DEF FxInv, States
  <2>3. /\ \A q \in Sources : pc'[q] = "chain" => pc[q] = "chain" /\ stamp'[q] = stamp[q]
        /\ stamp' \in [Sources -> Nat]
    BY <1>1, <2>1, <2>2 DEF FxInv, LegIsLive, Threads
  <2>. QED BY <2>1, <2>2, <2>3 DEF FxInv, Entered, LegIsLive
<1>4. ASSUME StoreChain(s) PROVE FxInv'
  <2>1. /\ pc[s] = "chain" /\ pc' = [pc EXCEPT ![s] = "idle"]
        /\ cache' = [cache EXCEPT !["usdt_krw"] = [age |-> stamp[s], won |-> leg[s].won]]
        /\ leg' = [leg EXCEPT ![s] = None]
        /\ pair' = [pair EXCEPT ![s] = None] /\ stamp' = [stamp EXCEPT ![s] = 0]
    BY <1>4 DEF StoreChain, Goto
  <2>2. Places' /\ pc'[s] = "idle" /\ \A q \in Threads \ {s} : pc'[q] = pc[q]
    BY <1>1, <2>1, PlaceOfOne DEF FxInv, States
  <2>3. LegIsLive'
    <3>1. \A q \in Sources : pc'[q] = "chain" =>
             q # s /\ pc[q] = "chain" /\ stamp'[q] = stamp[q] /\ leg'[q] = leg[q]
      BY <1>1, <2>1, <2>2 DEF FxInv, LegIsLive, Threads
    <3>. QED BY <2>1, <3>1 DEF FxInv, LegIsLive
  <2>4. Entered'
    <3>. DEFINE new == [age |-> stamp[s], won |-> leg[s].won]
    <3>1. leg[s] \in [won : Nat \cup {None}] /\ stamp[s] \in Nat
      BY <2>1 DEF FxInv, LegIsLive
    <3>2. new \in Entries /\ new.age = stamp[s] /\ new.won = leg[s].won
      BY <3>1 DEF Entries
    <3>3. new.age <= Ttl /\ new.won # None => new.won <= new.age + Ttl
      BY <2>1, <3>2 DEF FxInv, LegIsLive
    <3>4. cache' \in [Pair -> Entries]
      BY <2>1, <3>2 DEF FxInv, Entered
    <3>5. ASSUME NEW p \in Pair PROVE cache'[p] = IF p = "usdt_krw" THEN new ELSE cache[p]
      BY <2>1 DEF FxInv, Entered
    <3>6. Slack("usdt_krw") = Ttl
      BY DEF Slack
    <3>. HIDE DEF new
    <3>. QED BY <3>3, <3>4, <3>5, <3>6 DEF FxInv, Entered
  <2>. QED BY <2>2, <2>3, <2>4 DEF FxInv
<1>. QED BY <1>2, <1>3, <1>4 DEF SourceStep

LEMMA ReaderStepKeeps == ASSUME FxInv, NEW r \in Readers, ReaderStep(r) PROVE FxInv'
<1>1. r \in Threads /\ r \notin Sources
  BY Assumed DEF Threads
<1>2. ASSUME NEW p \in Pair, GetRate(r, p) PROVE FxInv'
  <2>1. /\ pc' = [pc EXCEPT ![r] = "get"] /\ pair' = [pair EXCEPT ![r] = p]
        /\ UNCHANGED <<cache, leg, stamp>>
    BY <1>2 DEF GetRate, Goto, sharedVars
  <2>2. Places' /\ pc'[r] = "get" /\ \A q \in Threads \ {r} : pc'[q] = pc[q]
    BY <1>1, <1>2, <2>1, PlaceOfOne DEF FxInv, States
  <2>. QED BY <1>1, <2>1, <2>2, PlacesOnly DEF Threads
<1>3. ASSUME NEW won \in {0, None}, Fetch(r, won) PROVE FxInv'
  <2>1. /\ pc[r] = "fetch" /\ pc' = [pc EXCEPT ![r] = "idle"]
        /\ cache' = [cache EXCEPT ![pair[r]] = [age |-> 0, won |-> won]]
        /\ pair' = [pair EXCEPT ![r] = None] /\ leg' = leg /\ stamp' = stamp
    BY <1>3 DEF Fetch, Goto
  <2>2. Places' /\ \A s \in Sources : pc'[s] = pc[s]
    BY <1>1, <2>1, PlaceOfOne DEF FxInv, States, Threads
  <2>3. LegIsLive'
    BY <2>1, <2>2 DEF FxInv, LegIsLive
  <2>4. Entered'
    <3>. DEFINE new == [age |-> 0, won |-> won]
    <3>1. new \in Entries /\ new.age = 0 /\ new.won = won
      BY <1>3 DEF Entries
    <3>2. pair[r] \in Pair
      BY <1>1, <2>1 DEF FxInv, Places
    <3>3. cache' \in [Pair -> Entries]
      BY <2>1, <3>1 DEF FxInv, Entered
    <3>4. ASSUME NEW p \in Pair PROVE cache'[p] = IF p = pair[r] THEN new ELSE cache[p]
      BY <2>1 DEF FxInv, Entered
    <3>5. \A p \in Pair : Slack(p) \in Nat
      BY Assumed DEF Slack
    <3>6. new.won # None => new.won = 0
      BY <1>3, <3>1
    <3>. HIDE DEF new
    <3>. QED BY <3>1, <3>3, <3>4, <3>5, <3>6 DEF FxInv, Entered
  <2>. QED BY <2>2, <2>3, <2>4 DEF FxInv
<1>. QED BY <1>2, <1>3 DEF ReaderStep

\* A thread that finds nothing goes on below, or gives up.
LEMMA MissedKeepsPlaces ==
  ASSUME FxInv, NEW t \in Threads, Missed(t),
         pc[t] \in {"get", "again", "delete", "delete_again"}
  PROVE  Places' /\ (\A s \in Sources : pc'[s] = "chain" => pc[s] = "chain" /\ stamp'[s] = stamp[s])
         /\ stamp' \in [Sources -> Nat]
<1>1. CASE t \in Sources
  <2>1. /\ pc' = [pc EXCEPT ![t] = "idle"] /\ pair' = [pair EXCEPT ![t] = None]
        /\ stamp' = [stamp EXCEPT ![t] = 0]
    BY <1>1 DEF Missed, Goto
  <2>2. Places' /\ pc'[t] = "idle" /\ \A q \in Threads \ {t} : pc'[q] = pc[q]
    BY <2>1, PlaceOfOne DEF FxInv, States
  <2>. QED BY <1>1, <2>1, <2>2 DEF FxInv, LegIsLive, Threads
<1>2. CASE t \notin Sources
  <2>. DEFINE where == IF pc[t] \in {"again", "delete_again"} THEN "fetch" ELSE "again"
  <2>1. pc' = [pc EXCEPT ![t] = where] /\ pair' = pair /\ stamp' = stamp
    BY <1>2 DEF Missed, AskBelow, Goto
  <2>2. pair[t] \in Pair /\ where \in States /\ where \in {"fetch", "again"}
    BY DEF FxInv, Places, States
  <2>. HIDE DEF where
  <2>3. Places' /\ pc'[t] = where /\ \A q \in Threads \ {t} : pc'[q] = pc[q]
    BY <1>2, <2>1, <2>2, PlaceOfOneKept DEF FxInv
  <2>. QED BY <1>2, <2>1, <2>3 DEF FxInv, LegIsLive, Threads
<1>. QED BY <1>1, <1>2

LEMMA HitKeeps == ASSUME FxInv, NEW t \in Threads, Hit(t) PROVE FxInv'
<1>1. /\ pc[t] \in {"get", "again"} /\ cache[pair[t]] # None /\ cache[pair[t]].age <= Ttl
      /\ cache' = cache /\ stamp' = stamp
  <2>1. pair[t] \in Pair
    BY DEF Hit, FxInv, Places
  <2>2. cache[pair[t]] # None /\ cache[pair[t]] \in Entries
    BY <2>1 DEF Hit, FxInv, Entered
  <2>3. cache[pair[t]].age \in Nat
    BY <2>2 DEF Entries
  <2>. QED BY <2>2, <2>3, Assumed DEF Hit, Expired, sharedVars
<1>2. CASE t \in Sources
  <2>. DEFINE new == [won |-> cache["usd_krw"].won]
  <2>1. /\ leg' = [leg EXCEPT ![t] = new] /\ pc' = [pc EXCEPT ![t] = "chain"] /\ pair' = pair
    BY <1>2 DEF Hit, Goto
  <2>2. Places' /\ pc'[t] = "chain" /\ \A q \in Threads \ {t} : pc'[q] = pc[q]
    BY <2>1, PlaceOfOneKept DEF FxInv, States
  <2>3. pair[t] = "usd_krw" /\ "usd_krw" \in Pair
    BY <1>1, <1>2 DEF FxInv, Places, Pair
  <2>4. cache["usd_krw"] \in Entries /\ cache["usd_krw"] # None
    BY <1>1, <2>3 DEF FxInv, Entered
  <2>5. new \in [won : Nat \cup {None}] /\ new.won = cache["usd_krw"].won /\ new # None
    BY <2>4, Assumed DEF Entries
  <2>6. new.won # None => new.won <= cache["usd_krw"].age
    <3>1. Slack("usd_krw") = 0 /\ cache["usd_krw"].age \in Nat
      BY <2>4 DEF Slack, Entries
    <3>. QED BY <1>1, <2>3, <2>4, <2>5, <3>1 DEF FxInv, Entered
  <2>7. new.won # None => new.won <= stamp[t] + Ttl
    <3>1. cache["usd_krw"].age \in Nat /\ stamp[t] \in Nat
      BY <1>2, <2>4 DEF FxInv, LegIsLive, Entries
    <3>2. new.won # None => new.won \in Nat
      BY <2>5
    <3>. QED BY <1>1, <2>3, <2>6, <3>1, <3>2, Assumed
  <2>. HIDE DEF new
  <2>8. /\ leg' \in [Sources -> [won : Nat \cup {None}] \cup {None}]
        /\ \A s \in Sources : leg'[s] = IF s = t THEN new ELSE leg[s]
    BY <2>1, <2>5 DEF FxInv, LegIsLive
  <2>9. LegIsLive'
    BY <1>1, <1>2, <2>2, <2>5, <2>7, <2>8 DEF FxInv, LegIsLive, Threads
  <2>. QED BY <1>1, <2>2, <2>9 DEF FxInv, Entered
<1>3. CASE t \notin Sources
  <2>1. /\ leg' = leg /\ pc' = [pc EXCEPT ![t] = "idle"] /\ pair' = [pair EXCEPT ![t] = None]
    BY <1>3 DEF Hit, Goto
  <2>2. Places' /\ pc'[t] = "idle" /\ \A q \in Threads \ {t} : pc'[q] = pc[q]
    BY <1>3, <2>1, PlaceOfOne DEF FxInv, States
  <2>. QED BY <1>1, <1>3, <2>1, <2>2, PlacesOnly DEF Threads
<1>. QED BY <1>2, <1>3

LEMMA CacheStepKeeps == ASSUME FxInv, NEW t \in Threads, CacheStep(t) PROVE FxInv'
<1>1. CASE Hit(t)
  BY <1>1, HitKeeps
<1>2. CASE Miss(t)
  <2>1. Missed(t) /\ pc[t] \in {"get", "again"} /\ cache' = cache /\ leg' = leg
    BY <1>2 DEF Miss, sharedVars
  <2>. QED BY <2>1, MissedKeepsPlaces DEF FxInv, Entered, LegIsLive
<1>3. CASE FindExpired(t)
  <2>. DEFINE where == IF pc[t] = "get" THEN "delete" ELSE "delete_again"
  <2>1. /\ pc[t] \in {"get", "again"} /\ pc' = [pc EXCEPT ![t] = where]
        /\ UNCHANGED <<cache, pair, stamp, leg>>
    BY <1>3 DEF FindExpired, Goto, sharedVars
  <2>2. /\ pair[t] \in Pair /\ where \in States /\ where # "chain"
        /\ t \in Sources => where = "delete" /\ pair[t] = "usd_krw"
    BY <2>1 DEF FxInv, Places, States
  <2>. HIDE DEF where
  <2>3. Places' /\ pc'[t] = where /\ \A q \in Threads \ {t} : pc'[q] = pc[q]
    BY <2>1, <2>2, PlaceOfOneKept DEF FxInv
  <2>. QED BY <2>1, <2>2, <2>3, PlacesOnly DEF Threads
<1>4. CASE Delete(t)
  <2>1. /\ Missed(t) /\ pc[t] \in {"delete", "delete_again"} /\ leg' = leg
        /\ cache' = [cache EXCEPT ![pair[t]] = None]
    BY <1>4 DEF Delete
  <2>2. Entered'
    <3>1. cache' \in [Pair -> Entries]
          /\ \A p \in Pair : cache'[p] = IF p = pair[t] THEN None ELSE cache[p]
      BY <2>1 DEF FxInv, Entered, Entries
    <3>. QED BY <3>1 DEF FxInv, Entered
  <2>. QED BY <2>1, <2>2, MissedKeepsPlaces DEF FxInv, LegIsLive
<1>5. CASE DeleteRaises(t)
  <2>1. pc[t] \in {"delete", "delete_again"} /\ cache' = cache /\ leg' = leg
    BY <1>5 DEF DeleteRaises, sharedVars
  <2>2. CASE t \in Sources
    <3>1. Missed(t)
      BY <1>5, <2>2 DEF DeleteRaises
    <3>. QED BY <2>1, <3>1, MissedKeepsPlaces DEF FxInv, Entered, LegIsLive
  <2>3. CASE t \notin Sources
    <3>1. pc' = [pc EXCEPT ![t] = "raised"] /\ pair' = pair /\ stamp' = stamp
      BY <1>5, <2>3 DEF DeleteRaises, Goto
    <3>2. Places' /\ pc'[t] = "raised" /\ \A q \in Threads \ {t} : pc'[q] = pc[q]
      BY <2>3, <3>1, PlaceOfOneKept DEF FxInv, States
    <3>. QED BY <2>1, <2>3, <3>1, <3>2, PlacesOnly DEF Threads
  <2>. QED BY <2>2, <2>3
<1>. QED BY <1>1, <1>2, <1>3, <1>4, <1>5 DEF CacheStep

-----------------------------------------------------------------------------
(* The theorems. *)

THEOREM FxInvariant == FxSpec => []FxInv
<1>1. FxInit => FxInv
  BY Assumed DEF FxInit, FxInv, Places, Entered, LegIsLive, Entries, Threads, States
<1>2. FxInv /\ [FxNext]_vars => FxInv'
  <2>. SUFFICES ASSUME FxInv, [FxNext]_vars PROVE FxInv'
    OBVIOUS
  <2>1. CASE UNCHANGED vars
    BY <2>1 DEF vars, sharedVars, FxInv, Places, Entered, LegIsLive
  <2>. QED BY <2>1, SourceStepKeeps, ReaderStepKeeps, CacheStepKeeps, TickKeeps DEF FxNext
<1>. QED BY <1>1, <1>2, PTL DEF FxSpec

\* FxCache under both providers: an answer from the cache rests on a rate of the
\* won that is at most two lifetimes of an entry old, whatever the threads do.
THEOREM WonIsFreshEnough == FxSpec => WonLegAge
<1>1. FxInv /\ [FxNext]_vars =>
        [\A r \in Readers :
           /\ pc[r] \in {"get", "again"} /\ pc'[r] = "idle"
           /\ cache[pair[r]].won # None
           => cache[pair[r]].won <= 2 * Ttl]_vars
  <2>. SUFFICES ASSUME FxInv, FxNext, NEW r \in Readers,
                       pc[r] \in {"get", "again"}, pc'[r] = "idle", cache[pair[r]].won # None
                PROVE  cache[pair[r]].won <= 2 * Ttl
    OBVIOUS
  <2>1. r \in Threads /\ r \notin Sources /\ pair[r] \in Pair
    BY Assumed DEF Threads, FxInv, Places
  <2>2. Hit(r)
    <3>1. \A q \in Threads : q # r => \A where : ~Goto(q, where)
      BY <2>1 DEF FxInv, Places, Goto
    <3>2. \A where : Goto(r, where) => where = "idle"
      BY <2>1 DEF FxInv, Places, Goto
    <3>3. \A s \in Sources : ~SourceStep(s)
      BY <2>1, <3>1 DEF SourceStep, Receive, Store, StoreChain, Threads
    <3>4. \A q \in Readers : ~ReaderStep(q)
      BY <2>1, <3>1, <3>2 DEF ReaderStep, GetRate, Fetch, Threads
    <3>5. \A q \in Threads : ~Missed(q)
      BY <2>1, <3>1, <3>2 DEF Missed, AskBelow
    <3>6. \A q \in Threads : CacheStep(q) => q = r /\ Hit(r)
      BY <2>1, <3>1, <3>2, <3>5
      DEF CacheStep, Hit, Miss, FindExpired, Delete, DeleteRaises
    <3>. QED BY <3>3, <3>4, <3>6 DEF FxNext, Tick
  <2>3. cache[pair[r]] \in Entries /\ cache[pair[r]] # None /\ ~Expired(r)
    BY <2>1, <2>2 DEF Hit, FxInv, Entered
  <2>4. cache[pair[r]].age \in Nat /\ cache[pair[r]].age <= Ttl
    BY <2>3, Assumed DEF Entries, Expired
  <2>5. cache[pair[r]].won \in Nat
    BY <2>3 DEF Entries
  <2>6. Slack(pair[r]) \in Nat /\ Slack(pair[r]) <= Ttl
    BY Assumed DEF Slack
  <2>7. cache[pair[r]].won <= cache[pair[r]].age + Slack(pair[r])
    BY <2>1, <2>3, <2>4 DEF FxInv, Entered
  <2>. QED BY <2>4, <2>5, <2>6, <2>7, Assumed
<1>. QED BY <1>1, FxInvariant, PTL DEF FxSpec, WonLegAge

-----------------------------------------------------------------------------
(* What a source collects. *)

Heard ==
  /\ source \in [Sources -> Rates \cup {None}]
  /\ during \in [Sources -> [Sources -> SUBSET (Rates \cup {None})]]

LEMMA HeardKept == ASSUME Heard, [FxNext]_vars PROVE Heard'
<1>1. ASSUME NEW s \in Sources, NEW r \in Rates, Receive(s, r) PROVE Heard'
  <2>1. /\ source' = [source EXCEPT ![s] = r]
        /\ during' = [q \in Sources |->
              IF q = s THEN [p \in Sources |-> {source'[p]}]
              ELSE IF pc[q] = "collect" THEN [during[q] EXCEPT ![s] = @ \cup {r}]
              ELSE during[q]]
    BY <1>1 DEF Receive
  <2>2. source' \in [Sources -> Rates \cup {None}]
    BY <2>1 DEF Heard
  <2>3. ASSUME NEW q \in Sources PROVE during'[q] \in [Sources -> SUBSET (Rates \cup {None})]
    <3>1. CASE q = s
      BY <2>1, <2>2, <3>1
    <3>2. CASE q # s /\ pc[q] = "collect"
      <4>1. during'[q] = [during[q] EXCEPT ![s] = @ \cup {r}]
        BY <2>1, <3>2
      <4>. QED BY <4>1 DEF Heard
    <3>3. CASE q # s /\ pc[q] # "collect"
      BY <2>1, <3>3 DEF Heard
    <3>. QED BY <3>1, <3>2, <3>3
  <2>. QED BY <2>1, <2>2, <2>3 DEF Heard
<1>2. ASSUME NEW s \in Sources, Store(s) PROVE Heard'
  <2>1. source' = source /\ during' = [during EXCEPT ![s] = Unread]
    BY <1>2 DEF Store
  <2>2. Unread \in [Sources -> SUBSET (Rates \cup {None})]
    BY DEF Unread
  <2>. QED BY <2>1, <2>2 DEF Heard
<1>3. ASSUME NEW s \in Sources, StoreChain(s) PROVE Heard'
  BY <1>3 DEF StoreChain, Heard
<1>4. ASSUME NEW r \in Readers, ReaderStep(r) PROVE Heard'
  BY <1>4 DEF ReaderStep, GetRate, Fetch, sharedVars, Heard
<1>5. ASSUME NEW t \in Threads, CacheStep(t) PROVE Heard'
  BY <1>5 DEF CacheStep, Hit, Miss, FindExpired, Delete, DeleteRaises, sharedVars, Heard
<1>6. CASE Tick
  BY <1>6 DEF Tick, Heard
<1>7. CASE UNCHANGED vars
  BY <1>7 DEF vars, sharedVars, Heard
<1>. QED BY <1>1, <1>2, <1>3, <1>4, <1>5, <1>6, <1>7 DEF FxNext, SourceStep

THEOREM HeardInvariant == FxSpec => []Heard
<1>1. FxInit => Heard
  BY DEF FxInit, Heard, NoRates, Unread
<1>2. Heard /\ [FxNext]_vars => Heard'
  BY HeardKept
<1>. QED BY <1>1, <1>2, PTL DEF FxSpec

LEMMA OnlyStoreStores ==
  ASSUME FxInv, FxNext, NEW s \in Sources, pc[s] = "collect", pc'[s] = "get"
  PROVE  Store(s)
<1>1. s \in Threads /\ s \notin Readers /\ s \in DOMAIN pc
  BY Assumed DEF Threads, FxInv, Places
<1>2. \A t \in Threads : t # s => \A where : ~Goto(t, where)
  BY <1>1 DEF FxInv, Places, Goto
<1>3. \A where : Goto(s, where) => where = "get"
  BY <1>1 DEF FxInv, Places, Goto
<1>4. \A q \in Sources : SourceStep(q) => q = s /\ Store(s)
  <2>1. \A q \in Sources : q # s => ~SourceStep(q)
    BY <1>2 DEF SourceStep, Receive, Store, StoreChain, Threads
  <2>2. \A r \in Rates : ~Receive(s, r)
    BY DEF Receive
  <2>3. ~StoreChain(s)
    BY DEF StoreChain
  <2>. QED BY <2>1, <2>2, <2>3 DEF SourceStep
<1>5. \A r \in Readers : ~ReaderStep(r)
  BY <1>1, <1>2 DEF ReaderStep, GetRate, Fetch, Threads
<1>6. \A t \in Threads : t # s => ~Missed(t)
  BY <1>2 DEF Missed, AskBelow
<1>7. \A t \in Threads : ~CacheStep(t)
  <2>1. \A t \in Threads : CacheStep(t) => pc[t] \in {"get", "again", "delete", "delete_again"}
    BY DEF CacheStep, Hit, Miss, FindExpired, Delete, DeleteRaises
  <2>2. \A t \in Threads : t # s => ~CacheStep(t)
    BY <1>2, <1>6 DEF CacheStep, Hit, Miss, FindExpired, Delete, DeleteRaises
  <2>. QED BY <2>1, <2>2
<1>. QED BY <1>4, <1>5, <1>7 DEF FxNext, Tick

\* _aggregate_and_update_cache: sources that are a majority and agree to five per
\* cent bound what is stored, for any number of sources and any order in which the
\* rates of the other threads are seen.
THEOREM MajorityBoundsTheRate == FxSpec => AgreementBoundsRate
<1>1. FxInv /\ Heard /\ [FxNext]_vars =>
        [\A s \in Sources : pc[s] = "collect" /\ pc'[s] = "get" =>
           \A M \in SUBSET Sources :
             LET agreed == UNION {during[s][q] : q \in M} IN
             /\ 2 * Cardinality(M) > Cardinality(Sources)
             /\ None \notin agreed
             /\ \A x, y \in agreed : 20 * x <= 21 * y
             => (\E x \in agreed : x <= usdt') /\ (\E x \in agreed : usdt' <= x)]_vars
  <2>. SUFFICES ASSUME FxInv, Heard, FxNext, NEW s \in Sources, pc[s] = "collect", pc'[s] = "get",
                       NEW M \in SUBSET Sources,
                       2 * Cardinality(M) > Cardinality(Sources),
                       None \notin UNION {during[s][q] : q \in M},
                       \A x, y \in UNION {during[s][q] : q \in M} : 20 * x <= 21 * y
                PROVE  /\ \E x \in UNION {during[s][q] : q \in M} : x <= usdt'
                       /\ \E x \in UNION {during[s][q] : q \in M} : usdt' <= x
    OBVIOUS
  <2>. DEFINE agreed == UNION {during[s][q] : q \in M}
  <2>1. PICK v \in [Sources -> UNION {during[s][q] : q \in Sources}] :
          /\ \A q \in Sources : v[q] \in during[s][q]
          /\ usdt' = Aggregate(v)
    BY OnlyStoreStores DEF Store
  <2>2. \A q \in Sources : v[q] \in Nat \cup {None}
    <3>1. \A q \in Sources : during[s][q] \in SUBSET (Rates \cup {None})
      BY DEF Heard
    <3>2. \A q \in Sources : v[q] \in Rates \cup {None}
      BY <2>1, <3>1
    <3>. QED BY <3>2, Assumed
  <2>3. \A a \in M : v[a] \in agreed
    BY <2>1
  <2>4. (\A a \in M : v[a] # None) /\ (\A a, b \in M : 20 * v[a] <= 21 * v[b])
    BY <2>3
  <2>5. (\E a \in M : v[a] <= Aggregate(v)) /\ (\E b \in M : Aggregate(v) <= v[b])
    BY <2>2, <2>4, AggregateOfMajority
  <2>. HIDE DEF agreed
  <2>6. (\E x \in agreed : x <= usdt') /\ (\E x \in agreed : usdt' <= x)
    BY <2>1, <2>3, <2>5
  <2>. QED BY <2>6 DEF agreed
<1>. QED BY <1>1, FxInvariant, HeardInvariant, PTL DEF FxSpec, AgreementBoundsRate
=============================================================================
