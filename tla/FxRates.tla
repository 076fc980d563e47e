------------------------------ MODULE FxRates ------------------------------
(***************************************************************************)
(* The exchange rates (arbitrage/common/currency.py, fx_cache.py):         *)
(* MultiSourceFxRateProvider takes USDT/USD from the WebSocket thread of   *)
(* each source, drops outliers, and keeps the median in an FxCache that    *)
(* the RealFxRateProvider below it shares; what is not in the cache is     *)
(* asked for by HTTP, and is a fixed rate when that fails.                 *)
(*                                                                         *)
(* Nothing takes a lock.  One operation on a dictionary is a step; FxCache *)
(* looks an entry up and deletes it in two.  Rates in KRW are not told     *)
(* apart, only how long ago they were observed, and of the entry of        *)
(* USDT/USD, which no operation of the model looks up, only the rate is    *)
(* kept.  The alerts of the providers and their statistics are left out.   *)
(***************************************************************************)
EXTENDS Integers, FiniteSets, FiniteSetsExt

CONSTANTS
  Sources, Readers,  \* a thread each
  Rates,             \* of USDT/USD, in even parts of a cent
  Ttl,               \* ttl_seconds of the cache
  None,              \* no entry, no rate
  MaxUpdates, MaxBusy  \* bounds of the model; the last one: sources in their
                       \* callbacks at once

ASSUME FxAssumption ==
  /\ \A r \in Rates : r \in Nat \ {0} /\ r % 2 = 0
  /\ Ttl \in Nat /\ MaxUpdates \in Nat /\ MaxBusy \in Nat
  /\ None \notin Rates \cup [won : Nat \cup {None}]
  /\ IsFiniteSet(Sources) /\ Sources \cap Readers = {}

Threads == Sources \cup Readers
Pair == {"usd_krw", "usdt_krw"}

VARIABLES
  updates,
  source,  \* _source_rates
  usdt,    \* the entry of USDT/USD: its rate
  cache,   \* the entry of a pair with the won: how long ago updated_at was, and
           \* (history) how long ago its rate was observed, or None for a fixed one
  pc,
  pair,    \* the pair a thread looks up
  during,  \* the rates each source has had since a source's thread began to
           \* collect them
  stamp,   \* how long ago it took the time for both of its entries
  leg      \* the rate of USD/KRW it found, as in an entry

sharedVars == <<updates, source, usdt, cache>>
vars == <<sharedVars, pc, pair, during, stamp, leg>>

NoRates == [s \in Sources |-> None]
Unread == [s \in Sources |-> {}]
Goto(t, where) == pc' = [pc EXCEPT ![t] = where]
\* One more than the oldest age that matters stands for all beyond it.
Aged(a, limit) == IF a < limit THEN a + 1 ELSE limit
AgedWon(w) == IF w = None THEN None ELSE Aged(w, 2 * Ttl + 1)
AgedEntry(e) ==
  IF e = None THEN None ELSE [age |-> Aged(e.age, Ttl + 1), won |-> AgedWon(e.won)]
AgedLeg(l) == IF l = None THEN None ELSE [won |-> AgedWon(l.won)]

-----------------------------------------------------------------------------
(* _remove_outliers and _calculate_median, over the rates v of the sources S *)

Kth(v, S, k) ==
  CHOOSE x \in {v[s] : s \in S} :
    /\ Cardinality({s \in S : v[s] < x}) < k
    /\ k <= Cardinality({s \in S : v[s] <= x})

Median(v, S) ==
  LET n == Cardinality(S) IN
  IF n % 2 = 1 THEN Kth(v, S, (n + 1) \div 2)
  ELSE (Kth(v, S, n \div 2) + Kth(v, S, n \div 2 + 1)) \div 2

\* Within five per cent of the median; all of them if that is none.
Inliers(v, S) ==
  LET near == {s \in S : 20 * v[s] >= 19 * Median(v, S) /\ 20 * v[s] <= 21 * Median(v, S)}
  IN IF Cardinality(S) < 3 \/ near = {} THEN S ELSE near

Known(v) == {s \in Sources : v[s] # None}

\* A slip of a change to the providers (see the README; there are more further
\* down): the mean of the rates that are left.
AggregateMean(v) ==
  LET S == Inliers(v, Known(v)) IN MapThenSumSet(LAMBDA s : v[s], S) \div Cardinality(S)

Aggregate(v) == Median(v, Inliers(v, Known(v)))

-----------------------------------------------------------------------------
(* _on_source_update and _aggregate_and_update_cache, in the source's thread. *)

\* A source that falls silent keeps its last rate.
Receive(s, r) ==
  /\ pc[s] = "idle" /\ updates < MaxUpdates
  /\ Cardinality({q \in Sources : pc[q] # "idle"}) < MaxBusy
  /\ updates' = updates + 1
  /\ source' = [source EXCEPT ![s] = r]
  /\ during' = [q \in Sources |->
        IF q = s THEN [p \in Sources |-> {source'[p]}]
        ELSE IF pc[q] = "collect" THEN [during[q] EXCEPT ![s] = @ \cup {r}]
        ELSE during[q]]
  /\ Goto(s, "collect")
  /\ UNCHANGED <<usdt, cache, pair, stamp, leg>>

\* It reads one rate after the other, and the other threads go on meanwhile.
\* Nothing looks at what it does between the last of them and the time it takes.
Store(s) ==
  /\ pc[s] = "collect"
  /\ \E v \in [Sources -> UNION {during[s][q] : q \in Sources}] :
       /\ \A q \in Sources : v[q] \in during[s][q]
       /\ usdt' = Aggregate(v)
  /\ during' = [during EXCEPT ![s] = Unread]
  /\ stamp' = [stamp EXCEPT ![s] = 0]
  /\ pair' = [pair EXCEPT ![s] = "usd_krw"]
  /\ Goto(s, "get")
  /\ UNCHANGED <<updates, source, cache, leg>>

\* A slip: the chained rate is stamped when it is stored.
StoreChainLate(s) ==
  /\ pc[s] = "chain"
  /\ cache' = [cache EXCEPT !["usdt_krw"] = [age |-> 0, won |-> leg[s].won]]
  /\ leg' = [leg EXCEPT ![s] = None]
  /\ pair' = [pair EXCEPT ![s] = None]
  /\ stamp' = [stamp EXCEPT ![s] = 0]
  /\ Goto(s, "idle")
  /\ UNCHANGED <<updates, source, usdt, during>>

\* USDT/KRW is updated if there is a rate of the won.
StoreChain(s) ==
  /\ pc[s] = "chain"
  /\ cache' = [cache EXCEPT !["usdt_krw"] = [age |-> stamp[s], won |-> leg[s].won]]
  /\ leg' = [leg EXCEPT ![s] = None]
  /\ pair' = [pair EXCEPT ![s] = None]
  /\ stamp' = [stamp EXCEPT ![s] = 0]
  /\ Goto(s, "idle")
  /\ UNCHANGED <<updates, source, usdt, during>>

-----------------------------------------------------------------------------
(* FxCache.get, in any thread. *)

Expired(t) == cache[pair[t]].age > Ttl

\* The provider below has the same cache, and asks the network.
AskBelow(t) == Goto(t, IF pc[t] \in {"again", "delete_again"} THEN "fetch" ELSE "again")

\* Nothing there: a reader asks the provider below, then the network.
Missed(t) ==
  IF t \in Sources
  THEN /\ Goto(t, "idle")
       /\ pair' = [pair EXCEPT ![t] = None] /\ stamp' = [stamp EXCEPT ![t] = 0]
  ELSE AskBelow(t) /\ UNCHANGED <<pair, stamp>>

Hit(t) ==
  /\ pc[t] \in {"get", "again"} /\ cache[pair[t]] # None /\ ~Expired(t)
  /\ IF t \in Sources
     THEN /\ leg' = [leg EXCEPT ![t] = [won |-> cache["usd_krw"].won]]
          /\ Goto(t, "chain") /\ UNCHANGED pair
     ELSE Goto(t, "idle") /\ pair' = [pair EXCEPT ![t] = None] /\ UNCHANGED leg
  /\ UNCHANGED <<sharedVars, during, stamp>>

Miss(t) ==
  /\ pc[t] \in {"get", "again"} /\ cache[pair[t]] = None
  /\ Missed(t)
  /\ UNCHANGED <<sharedVars, during, leg>>

FindExpired(t) ==
  /\ pc[t] \in {"get", "again"} /\ cache[pair[t]] # None /\ Expired(t)
  /\ Goto(t, IF pc[t] = "get" THEN "delete" ELSE "delete_again")
  /\ UNCHANGED <<sharedVars, pair, during, stamp, leg>>

\* del: of the entry that is there by now.
Delete(t) ==
  /\ pc[t] \in {"delete", "delete_again"} /\ cache[pair[t]] # None
  /\ cache' = [cache EXCEPT ![pair[t]] = None]
  /\ Missed(t)
  /\ UNCHANGED <<updates, source, usdt, during, leg>>

\* Another thread was faster: KeyError.  The client of a source logs it.
DeleteRaises(t) ==
  /\ pc[t] \in {"delete", "delete_again"} /\ cache[pair[t]] = None
  /\ IF t \in Sources THEN Missed(t) ELSE Goto(t, "raised") /\ UNCHANGED <<pair, stamp>>
  /\ UNCHANGED <<sharedVars, during, leg>>

-----------------------------------------------------------------------------
(* get_rate, in the thread of a reader. *)

GetRate(r, p) ==
  /\ pc[r] \in {"idle", "raised"}
  /\ pair' = [pair EXCEPT ![r] = p]
  /\ Goto(r, "get")
  /\ UNCHANGED <<sharedVars, during, stamp, leg>>

\* The answer of the API, or the fixed rate, is cached alike.
Fetch(r, won) ==
  /\ pc[r] = "fetch"
  /\ cache' = [cache EXCEPT ![pair[r]] = [age |-> 0, won |-> won]]
  /\ pair' = [pair EXCEPT ![r] = None]
  /\ Goto(r, "idle")
  /\ UNCHANGED <<updates, source, usdt, during, stamp, leg>>

Tick ==
  /\ cache' = [p \in Pair |-> AgedEntry(cache[p])]
  /\ leg' = [s \in Sources |-> AgedLeg(leg[s])]
  /\ stamp' = [s \in Sources |->
        IF pc[s] \in {"get", "delete", "chain"} THEN Aged(stamp[s], Ttl + 1) ELSE 0]
  /\ UNCHANGED <<updates, source, usdt, pc, pair, during>>

-----------------------------------------------------------------------------
FxInit ==
  /\ updates = 0
  /\ source = NoRates
  /\ usdt = None /\ cache = [p \in Pair |-> None]
  /\ pc = [t \in Threads |-> "idle"] /\ pair = [t \in Threads |-> None]
  /\ during = [s \in Sources |-> Unread]
  /\ stamp = [s \in Sources |-> 0] /\ leg = [s \in Sources |-> None]

SourceStep(s) == (\E r \in Rates : Receive(s, r)) \/ Store(s) \/ StoreChain(s)
ReaderStep(r) == (\E p \in Pair : GetRate(r, p)) \/ Fetch(r, 0) \/ Fetch(r, None)
CacheStep(t) == Hit(t) \/ Miss(t) \/ FindExpired(t) \/ Delete(t) \/ DeleteRaises(t)

FxNext ==
  \/ \E s \in Sources : SourceStep(s)
  \/ \E r \in Readers : ReaderStep(r)
  \/ \E t \in Threads : CacheStep(t)
  \/ Tick

FxSpec == FxInit /\ [][FxNext]_vars

-----------------------------------------------------------------------------
(* Properties. *)

\* A majority of the sources, two of the three, whose rates stay within five per
\* cent of each other while they are collected bounds the rate that is kept,
\* whatever the others say or have never said and whatever the threads see of each
\* other's updates: no single source can pull it away.
AgreementBoundsRate ==
  [][\A s \in Sources : pc[s] = "collect" /\ pc'[s] = "get" =>
       \A M \in SUBSET Sources :
         LET agreed == UNION {during[s][q] : q \in M} IN
         /\ 2 * Cardinality(M) > Cardinality(Sources)
         /\ None \notin agreed
         /\ \A x, y \in agreed : 20 * x <= 21 * y
         => (\E x \in agreed : x <= usdt') /\ (\E x \in agreed : usdt' <= x)]_vars

\* An answer from the cache rests on a rate of the won that was observed at most
\* two lifetimes of an entry ago, or on the fixed rate: chaining renews an entry
\* with a leg that may be about to expire.
WonLegAge ==
  [][\A r \in Readers :
       /\ pc[r] \in {"get", "again"} /\ pc'[r] = "idle"
       /\ cache[pair[r]].won # None
       => cache[pair[r]].won <= 2 * Ttl]_vars
=============================================================================
