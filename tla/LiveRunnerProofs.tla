------------------------- MODULE LiveRunnerProofs -------------------------
(***************************************************************************)
(* Proofs about the live runner and the decision core inside it, for every *)
(* set of books, every cost, every limit, any number of trades and of      *)
(* restarts, and any answer of the exchanges.  The first part is about the *)
(* core on its own, EngineSpec; the second about RunnerSpec.               *)
(*                                                                         *)
(* The invariants of the runs are not inductive: a restart brings back     *)
(* what was saved, so the same must be true of the saved state, and the    *)
(* answer of the guard must still be true when the second order of a       *)
(* trade is answered.  RunnerInv says both.                                *)
(***************************************************************************)
EXTENDS LiveRunner, FiniteSetTheorems, TLAPS

-----------------------------------------------------------------------------
(* The decision core. *)

(* A quotient by a positive number has the sign of its dividend. *)
LEMMA QuotientSign ==
  ASSUME NEW n \in Int, NEW d \in Nat \ {0}
  PROVE  /\ n \div d \in Int
         /\ n \div d >= 0 <=> n >= 0
  <1>1. n \div d \in Int
    BY SMT
  <1>2. ASSUME n >= 0 PROVE n \div d >= 0
    BY <1>2, SMT
  <1>3. ASSUME n < 0 PROVE n \div d < 0
    BY <1>3, SMT
  <1> QED BY <1>1, <1>2, <1>3

(* Scaling by a positive number keeps the sign. *)
LEMMA ProductSign ==
  ASSUME NEW n \in Int, NEW k \in Nat \ {0}
  PROVE  n * k \in Int /\ (n * k >= 0 <=> n >= 0)
  OBVIOUS

-----------------------------------------------------------------------------
(* Books and spreads. *)

LEMMA QuoteType ==
  ASSUME NEW b \in Books, NEW side \in Side
  PROVE  BuyQuote(b, side) \in Nat /\ SellQuote(b, side) \in Nat
  BY EngineAssumption DEF BuyQuote, SellQuote

(* The sign of a spread is the sign of what the two legs earn, whatever the *)
(* scale and the rounding.                                                  *)
LEMMA SpreadSign ==
  ASSUME NEW b \in Books, NEW side \in Side, BuyQuote(b, side) # 0
  PROVE  /\ Spread(b, side) \in Int
         /\ Spread(b, side) >= 0 <=> SellQuote(b, side) >= BuyQuote(b, side)
  <1> DEFINE gain == SellQuote(b, side) - BuyQuote(b, side)
  <1>1. gain \in Int /\ BuyQuote(b, side) \in Nat \ {0}
    BY QuoteType
  <1>2. gain * BpsScale \in Int /\ (gain * BpsScale >= 0 <=> gain >= 0)
    BY <1>1, ProductSign, EngineAssumption
  <1>3. /\ Spread(b, side) \in Int
        /\ Spread(b, side) >= 0 <=> gain * BpsScale >= 0
    <2> HIDE DEF gain
    <2>1. Spread(b, side) = (gain * BpsScale) \div BuyQuote(b, side)
      BY DEF Spread, gain
    <2> QED BY <1>1, <1>2, <2>1, QuotientSign
  <1>4. gain >= 0 <=> SellQuote(b, side) >= BuyQuote(b, side)
    BY QuoteType
  <1> QED BY <1>2, <1>3, <1>4

LEMMA ValidBookSpread ==
  ASSUME NEW b \in Books, ValidBook(b), NEW side \in Side
  PROVE  BuyQuote(b, side) # 0 /\ Spread(b, side) \in Int
  <1>1. BuyQuote(b, side) # 0
    BY EngineAssumption DEF ValidBook, BuyQuote
  <1> QED BY <1>1, SpreadSign

(* A valid book favours at most one of the two sides: buying on one exchange *)
(* and selling on the other cannot pay in both directions when neither book  *)
(* is crossed.                                                               *)
THEOREM OneFavouredSide ==
  ASSUME NEW b \in Books, ValidBook(b), NEW s \in Side, NEW u \in Side,
         Spread(b, s) >= 0, Spread(b, u) >= 0
  PROVE  s = u
  <1>1. SellQuote(b, s) >= BuyQuote(b, s) /\ SellQuote(b, u) >= BuyQuote(b, u)
    BY ValidBookSpread, SpreadSign
  <1>2. b \in [bidA : Nat, askA : Nat, bidB : Nat, askB : Nat]
    BY EngineAssumption
  <1> QED BY <1>1, <1>2 DEF ValidBook, SellQuote, BuyQuote, Side

LEMMA NewTradeType ==
  ASSUME NEW b \in Books, NEW held, DetectOpportunity(b, held), nextId \in Nat \ {0}
  PROVE  /\ NewTrade(b) \in Trade
         /\ NewTrade(b).id = nextId
         /\ NewTrade(b).side = BestSide(b)
         /\ NewTrade(b).entry = Spread(b, BestSide(b))
         /\ NewTrade(b).entry >= CostBps
  <1>1. BestSide(b) \in Side
    BY DEF BestSide, Side
  <1>2. Spread(b, BestSide(b)) \in Int
    BY <1>1, ValidBookSpread DEF DetectOpportunity
  <1>3. Spread(b, BestSide(b)) \in Nat /\ Spread(b, BestSide(b)) >= CostBps
    BY <1>2, EngineAssumption DEF DetectOpportunity
  <1> QED BY <1>1, <1>3 DEF NewTrade, Trade

-----------------------------------------------------------------------------
(* The inductive invariant of the engine. *)

\* An identity names one trade.  The model numbers the trades, so this is its
\* assumption on the clock carried along the steps, and no result about the code.
DistinctIds ==
  \A t, u \in openTrades \cup closing \cup opening : t.id = u.id => t = u

EngineInv ==
  /\ EngineTypeOK
  /\ OpenTradesBounded
  /\ SingleDirection
  /\ \A t \in openTrades \cup closing \cup opening : t.entry >= CostBps
  /\ DistinctIds

LEMMA EngineInitInv == EngineInit => EngineInv
  <1> SUFFICES ASSUME EngineInit PROVE EngineInv
    OBVIOUS
  <1>1. OpenTradesBounded
    BY FS_EmptySet, EngineAssumption DEF EngineInit, OpenTradesBounded
  <1> QED
    BY <1>1 DEF EngineInit, EngineInv, EngineTypeOK, SingleDirection, DistinctIds

(* One call of on_snapshot, for any caller that has the engine in a state   *)
(* of the invariant.                                                        *)
LEMMA OnSnapshotInv ==
  ASSUME EngineInv, NEW b \in Books, OnSnapshot(b)
  PROVE  EngineInv'
  <1> DEFINE held == openTrades \ TradesToClose(b)
             new  == IF DetectOpportunity(b, held) THEN {NewTrade(b)} ELSE {}
  <1>1. /\ openTrades' = held \cup new
        /\ closing' = TradesToClose(b)
        /\ opening' = new
        /\ nextId' = IF new = {} THEN nextId ELSE nextId + 1
    BY DEF OnSnapshot
  <1>2. held \subseteq openTrades /\ closing' \subseteq openTrades
    BY <1>1 DEF TradesToClose
  <1>3. ~ZeroDivision(b)
    BY DEF OnSnapshot
  <1>4. \A n \in new : /\ DetectOpportunity(b, held)
                       /\ n = NewTrade(b)
                       /\ n \in Trade
                       /\ n.id = nextId
                       /\ n.side = BestSide(b)
                       /\ n.entry = Spread(b, BestSide(b))
                       /\ n.entry >= CostBps
    BY NewTradeType DEF EngineInv, EngineTypeOK
  <1> HIDE DEF held, new
  <1>5. EngineTypeOK'
    <2>1. nextId \in Nat \ {0} /\ nextId' \in Nat \ {0} /\ nextId' >= nextId
      BY <1>1 DEF EngineInv, EngineTypeOK
    <2>2. openTrades' \subseteq Trade /\ closing' \subseteq Trade /\ opening' \subseteq Trade
      BY <1>1, <1>2, <1>4 DEF EngineInv, EngineTypeOK
    <2>3. ASSUME NEW t \in openTrades' \cup closing' \cup opening'
          PROVE  t.id < nextId'
      <3>1. CASE t \in openTrades
        BY <2>1, <3>1 DEF EngineInv, EngineTypeOK, Trade
      <3>2. CASE t \in new
        BY <1>1, <1>4, <2>1, <3>2
      <3> QED BY <1>1, <1>2, <2>3, <3>1, <3>2
    <2> QED BY <2>1, <2>2, <2>3 DEF EngineTypeOK
  <1>6. OpenTradesBounded'
    <2>1. IsFiniteSet(held) /\ Cardinality(held) <= MaxOpenTrades
      <3>1. IsFiniteSet(held) /\ Cardinality(held) <= Cardinality(openTrades)
        BY <1>2, FS_Subset DEF EngineInv, OpenTradesBounded
      <3>2. Cardinality(held) \in Nat /\ Cardinality(openTrades) \in Nat
        BY <3>1, FS_CardinalityType DEF EngineInv, OpenTradesBounded
      <3> QED BY <3>1, <3>2, EngineAssumption DEF EngineInv, OpenTradesBounded
    <2>2. CASE new = {}
      BY <1>1, <2>1, <2>2 DEF OpenTradesBounded
    <2>3. CASE new # {}
      <3>1. openTrades' = held \cup {NewTrade(b)} /\ Cardinality(held) < MaxOpenTrades
        BY <1>1, <1>4, <2>3 DEF DetectOpportunity, new
      <3>2. /\ IsFiniteSet(openTrades')
            /\ Cardinality(openTrades') \in {Cardinality(held), Cardinality(held) + 1}
        BY <2>1, <3>1, FS_AddElement
      <3>3. Cardinality(held) \in Nat
        BY <2>1, FS_CardinalityType
      <3> QED BY <3>1, <3>2, <3>3, EngineAssumption DEF OpenTradesBounded
    <2> QED BY <2>2, <2>3
  <1>7. SingleDirection'
    <2> SUFFICES ASSUME CloseOnReversal, NEW t \in openTrades', NEW u \in openTrades'
                 PROVE  t.side = u.side
      BY DEF SingleDirection
    <2>1. CASE t \in held /\ u \in held
      BY <1>2, <2>1 DEF EngineInv, SingleDirection
    <2>2. ASSUME NEW h \in held, NEW n \in new
          PROVE  h.side = n.side
      <3>1. h \in openTrades /\ h.side \in Side
        BY <1>2 DEF EngineInv, EngineTypeOK, Trade
      <3>2. ValidBook(b) /\ n.side = BestSide(b)
        BY <1>4 DEF DetectOpportunity
      <3>3. n.side \in Side /\ Spread(b, n.side) >= 0
        <4>1. Spread(b, n.side) = n.entry /\ n.entry >= CostBps /\ n \in Trade
          BY <1>4
        <4> QED BY <4>1, EngineAssumption DEF Trade
      <3>4. Spread(b, h.side) >= 0
        <4>1. ~(Spread(b, h.side) < 0)
          BY <3>1 DEF held, TradesToClose
        <4> QED BY <3>1, <3>2, <4>1, ValidBookSpread
      <3> QED BY <3>1, <3>2, <3>3, <3>4, OneFavouredSide
    <2>3. \A n, m \in new : n.side = m.side
      BY <1>4
    <2> QED BY <1>1, <2>1, <2>2, <2>3
  <1>8. (\A t \in openTrades \cup closing \cup opening : t.entry >= CostBps)'
    BY <1>1, <1>2, <1>4 DEF EngineInv
  <1>9. DistinctIds'
    <2> SUFFICES ASSUME NEW t \in openTrades' \cup closing' \cup opening',
                        NEW u \in openTrades' \cup closing' \cup opening',
                        t.id = u.id
                 PROVE  t = u
      BY DEF DistinctIds
    <2>1. \A x \in openTrades : x.id < nextId /\ x.id \in Nat /\ nextId \in Nat
      BY DEF EngineInv, EngineTypeOK, Trade
    <2>2. /\ t \in openTrades \/ t \in new
          /\ u \in openTrades \/ u \in new
      BY <1>1, <1>2
    <2>3. CASE t \in openTrades /\ u \in openTrades
      BY <2>3 DEF EngineInv, DistinctIds
    <2>4. CASE t \in new /\ u \in new
      BY <1>4, <2>4
    <2>5. ~(t \in openTrades /\ u \in new) /\ ~(t \in new /\ u \in openTrades)
      BY <1>4, <2>1
    <2> QED BY <2>2, <2>3, <2>4, <2>5
  <1> QED BY <1>5, <1>6, <1>7, <1>8, <1>9 DEF EngineInv

LEMMA OnSnapshotRaisesInv ==
  ASSUME EngineInv, NEW b \in Books, OnSnapshotRaises(b)
  PROVE  EngineInv'
  BY DEF OnSnapshotRaises, EngineInv, EngineTypeOK, OpenTradesBounded,
         SingleDirection, DistinctIds

(* The engine alone: its list stays within the limit and in one direction,  *)
(* and timestamps name trades, in every reachable state.                    *)
THEOREM EngineInvariant == EngineSpec => []EngineInv
  <1>1. EngineInv /\ [EngineNext]_engineVars => EngineInv'
    <2> SUFFICES ASSUME EngineInv, [EngineNext]_engineVars PROVE EngineInv'
      OBVIOUS
    <2>1. ASSUME NEW b \in Books, OnSnapshot(b) PROVE EngineInv'
      BY <2>1, OnSnapshotInv
    <2>2. ASSUME NEW b \in Books, OnSnapshotRaises(b) PROVE EngineInv'
      BY <2>2, OnSnapshotRaisesInv
    <2>3. CASE UNCHANGED engineVars
      BY <2>3 DEF engineVars, EngineInv, EngineTypeOK, OpenTradesBounded,
                  SingleDirection, DistinctIds
    <2> QED BY <2>1, <2>2, <2>3 DEF EngineNext
  <1> QED BY <1>1, EngineInitInv, PTL DEF EngineSpec

-----------------------------------------------------------------------------
(* The properties of the runs, for every value of the constants. *)

(* The list of the engine never outgrows max_open_trades. *)
THEOREM OpenTradesStayBounded == EngineSpec => []OpenTradesBounded
  <1>1. EngineInv => OpenTradesBounded
    BY DEF EngineInv
  <1> QED BY <1>1, EngineInvariant, PTL

(* The engine never holds both directions at once. *)
THEOREM DirectionIsSingle == EngineSpec => []SingleDirection
  <1>1. EngineInv => SingleDirection
    BY DEF EngineInv
  <1> QED BY <1>1, EngineInvariant, PTL

(* No close of the engine books a loss. *)
THEOREM ClosesNeverLose == EngineSpec => []NoLossAtClose
  <1>1. EngineInv => NoLossAtClose
    <2> SUFFICES ASSUME EngineInv, NEW t \in openTrades \cup closing
                 PROVE  ClosePnl(t) >= 0
      BY DEF NoLossAtClose
    <2>1. t.entry \in Nat /\ t.entry >= CostBps
      BY DEF EngineInv, EngineTypeOK, Trade
    <2> QED BY <2>1, EngineAssumption DEF ClosePnl
  <1> QED BY <1>1, EngineInvariant, PTL

(* A snapshot closes what pays a negative spread and opens what covers its   *)
(* costs: not the same side.                                                 *)
THEOREM ReversalOpensTheOtherSide == EngineSpec => NoReopenOnReversal
  <1>1. ASSUME [EngineNext]_engineVars, EngineInv
        PROVE  [\A t \in closing', u \in opening' : t.side # u.side]_engineVars
    <2>1. ASSUME NEW b \in Books, OnSnapshot(b), NEW t \in closing', NEW u \in opening'
          PROVE  t.side # u.side
      <3>1. Spread(b, t.side) < 0
        BY <2>1 DEF OnSnapshot, TradesToClose
      <3>2. /\ u = NewTrade(b)
            /\ DetectOpportunity(b, openTrades \ TradesToClose(b))
        BY <2>1 DEF OnSnapshot
      <3>3. u.side = BestSide(b) /\ u.entry = Spread(b, BestSide(b)) /\ u.entry >= CostBps
        BY <1>1, <3>2, NewTradeType DEF EngineInv, EngineTypeOK
      <3>4. u.entry \in Nat
        BY <1>1, <3>2, NewTradeType DEF EngineInv, EngineTypeOK, Trade
      <3> QED BY <3>1, <3>3, <3>4
    <2>2. ASSUME NEW b \in Books, OnSnapshotRaises(b) PROVE closing' = {}
      BY <2>2 DEF OnSnapshotRaises
    <2> QED BY <1>1, <2>1, <2>2 DEF EngineNext
  <1> QED BY <1>1, EngineInvariant, PTL DEF EngineSpec, NoReopenOnReversal

-----------------------------------------------------------------------------
(* The live runner. *)

\* Every identifier stands for two executed legs of a hedge.
Hedged(ids, legs) ==
  \A id \in ids : \E buy, sell \in legs :
    /\ buy.id = id /\ sell.id = id
    /\ buy.order = "BUY" /\ sell.order = "SELL"
    /\ buy.exchange # sell.exchange

\* What is true of the state in memory and of the one saved: the positions,
\* the loss and the statistics c, given the next id n, the legs executed and
\* the loss the session really had.
SoundState(ids, loss, c, n, legs, trueLoss) ==
  /\ ids \subseteq 1 .. (n - 1)
  /\ Cardinality(ids) <= GuardMaxOpenTrades
  /\ loss \in Nat
  /\ loss <= trueLoss
  /\ c \in Counters
  /\ c.totalPnl = c.symbolPnl
  /\ 0 - c.totalPnl <= loss
  /\ c.winning <= c.closed
  /\ Hedged(ids, legs)

MemorySound ==
  SoundState(activeOrders, dailyLoss, counters, nextId, filled, sessionLoss)

SavedSound ==
  \A s \in snapshot :
    SoundState(s.active, s.loss, s.counters, nextId, filled, sessionLoss)

\* A trade still to be opened is the newest of the engine and has no position.
OpeningFresh ==
  \A t \in opening : t \in openTrades /\ t.id = nextId - 1 /\ t.id \notin activeOrders

\* Between the orders of a trade the answer of the guard is still valid.
GuardStillHolds ==
  pc = "secondLeg" =>
    /\ closing = {} /\ ~stopRequested
    /\ Cardinality(activeOrders) < GuardMaxOpenTrades
    /\ dailyLoss < MaxDailyLoss
    /\ \A t \in opening : FirstLeg(t) \in filled

\* The session is stopped for its loss only, and no loss is ever taken back.
StoppedAtLimit ==
  /\ stopRequested => dailyLoss >= MaxDailyLoss /\ pc # "down"
  /\ pc = "down" => activeOrders = {} /\ dailyLoss = 0

RunnerInv ==
  /\ EngineInv
  /\ RunnerTypeOK
  /\ MemorySound
  /\ SavedSound
  /\ OpeningFresh
  /\ GuardStillHolds
  /\ StoppedAtLimit

-----------------------------------------------------------------------------
(* Lemmas about the operators of the runner. *)

(* A sound state stays sound while the session goes on.                     *)
LEMMA SoundStateGrows ==
  ASSUME NEW ids, NEW loss, NEW c, NEW n \in Int, NEW legs, NEW trueLoss \in Int,
         NEW n2 \in Int, NEW legs2, NEW trueLoss2 \in Int,
         SoundState(ids, loss, c, n, legs, trueLoss),
         n <= n2, legs \subseteq legs2, trueLoss <= trueLoss2
  PROVE  SoundState(ids, loss, c, n2, legs2, trueLoss2)
  <1>1. ids \subseteq 1 .. (n2 - 1)
    BY DEF SoundState
  <1>2. loss <= trueLoss2
    BY DEF SoundState
  <1>3. Hedged(ids, legs2)
    BY DEF SoundState, Hedged
  <1> QED BY <1>1, <1>2, <1>3 DEF SoundState

LEMMA IdsGrow ==
  ASSUME NEW m \in Int, NEW n \in Int, m <= n
  PROVE  1 .. (m - 1) \subseteq 1 .. (n - 1)
  OBVIOUS

(* Identifiers below a bound are a finite set.                              *)
LEMMA IdsFinite ==
  ASSUME NEW n \in Int, NEW ids \in SUBSET (1 .. (n - 1))
  PROVE  IsFiniteSet(ids) /\ Cardinality(ids) \in Nat
  <1>1. IsFiniteSet(1 .. (n - 1))
    BY FS_Interval
  <1> QED BY <1>1, FS_Subset, FS_CardinalityType

(* A forced loss is a number of the same unit as the gain it replaces.      *)
LEMMA BookedPnlType ==
  ASSUME NEW t \in Trade, NEW lossCycle \in BOOLEAN
  PROVE  BookedPnl(t, lossCycle) \in Int
  <1>1. ClosePnl(t) \in Int
    BY EngineAssumption DEF ClosePnl, Trade
  <1>2. ClosePnl(t) \div 10 \in Int
    BY <1>1, QuotientSign
  <1>3. LossTenths \in Int
    BY RunnerAssumption
  <1> QED BY <1>1, <1>2, <1>3 DEF BookedPnl

LEMMA LegType ==
  ASSUME NEW t \in Trade
  PROVE  /\ FirstLeg(t) \in Leg /\ FirstLeg(t).id = t.id
         /\ FirstLeg(t).order = "BUY"
         /\ SecondLeg(t) \in Leg /\ SecondLeg(t).id = t.id
         /\ SecondLeg(t).order = "SELL"
         /\ FirstLeg(t).exchange # SecondLeg(t).exchange
  BY DEF FirstLeg, SecondLeg, Leg, Trade

(* What booking a close and counting an open do to the statistics.          *)
LEMMA CountersOfClose ==
  ASSUME NEW c \in Counters, NEW pnl \in Int
  PROVE  /\ Booked(c, pnl) \in Counters
         /\ Booked(c, pnl).totalPnl = c.totalPnl + pnl
         /\ Booked(c, pnl).symbolPnl = c.symbolPnl + pnl
         /\ Booked(c, pnl).closed = c.closed + 1
         /\ Booked(c, pnl).winning \in {c.winning, c.winning + 1}
  <1> DEFINE more == c.closed + 1
             wins == IF pnl > 0 THEN c.winning + 1 ELSE c.winning
             total == c.totalPnl + pnl
             symbol == c.symbolPnl + pnl
  <1>1. /\ more \in Nat /\ wins \in Nat /\ total \in Int /\ symbol \in Int
        /\ wins \in {c.winning, c.winning + 1}
    BY DEF Counters
  <1>2. Booked(c, pnl) = [c EXCEPT !.closed = more, !.winning = wins,
                                   !.totalPnl = total, !.symbolPnl = symbol]
    BY DEF Booked
  <1>3. /\ Booked(c, pnl).closed = more
        /\ Booked(c, pnl).winning = wins
        /\ Booked(c, pnl).totalPnl = total
        /\ Booked(c, pnl).symbolPnl = symbol
    BY DEF Counters, Booked
  <1>4. Booked(c, pnl) \in Counters
    <2> HIDE DEF more, wins, total, symbol
    <2> QED BY <1>1, <1>2, Zenon DEF Counters
  <1> QED BY <1>1, <1>3, <1>4

LEMMA CountersOfOpen ==
  ASSUME NEW c \in Counters
  PROVE  /\ Tried(c) \in Counters /\ Tracked(c) \in Counters
         /\ \A c2 \in {Tried(c), Tracked(c)} :
              /\ c2.totalPnl = c.totalPnl /\ c2.symbolPnl = c.symbolPnl
              /\ c2.winning = c.winning /\ c2.closed = c.closed
  <1> DEFINE one == c.opened + 1
             two == c.opened + 2
             symbol == c.symbolOpened + 1
  <1>1. one \in Nat /\ two \in Nat /\ symbol \in Nat
    BY DEF Counters
  <1>2. /\ Tried(c) = [c EXCEPT !.opened = one]
        /\ Tracked(c) = [c EXCEPT !.opened = two, !.symbolOpened = symbol]
    BY DEF Tried, Tracked
  <1>3. Tried(c) \in Counters /\ Tracked(c) \in Counters
    <2> HIDE DEF one, two, symbol
    <2> QED BY <1>1, <1>2, Zenon DEF Counters
  <1>4. /\ Tried(c).totalPnl = c.totalPnl /\ Tried(c).symbolPnl = c.symbolPnl
        /\ Tried(c).winning = c.winning /\ Tried(c).closed = c.closed
    BY DEF Tried, Counters
  <1>5. /\ Tracked(c).totalPnl = c.totalPnl /\ Tracked(c).symbolPnl = c.symbolPnl
        /\ Tracked(c).winning = c.winning /\ Tracked(c).closed = c.closed
    BY DEF Tracked, Counters
  <1> QED BY <1>3, <1>4, <1>5

(* The guard lets an order pass only below both limits.                     *)
LEMMA GuardAnswers ==
  ASSUME NEW n \in Int, NEW loss \in Int
  PROVE  /\ CheckTradeAllowed(n, loss) = "OK"
              => n < GuardMaxOpenTrades /\ loss < MaxDailyLoss
         /\ CheckTradeAllowed(n, loss) = "SESSION_STOP" => loss >= MaxDailyLoss
  BY GuardAssumption DEF CheckTradeAllowed

(* Taking trades off the lists of the engine keeps its invariant.           *)
LEMMA EngineShrinks ==
  ASSUME EngineInv,
         openTrades' = openTrades \/ openTrades' = {},
         closing' \subseteq closing, opening' \subseteq opening, nextId' = nextId
  PROVE  EngineInv'
  <1>1. openTrades' \subseteq openTrades
    OBVIOUS
  <1>2. EngineTypeOK'
    BY <1>1 DEF EngineInv, EngineTypeOK
  <1>3. OpenTradesBounded'
    <2>1. CASE openTrades' = openTrades
      BY <2>1 DEF EngineInv, OpenTradesBounded
    <2>2. CASE openTrades' = {}
      <3>1. IsFiniteSet({}) /\ Cardinality({}) = 0
        BY FS_EmptySet
      <3> QED BY <2>2, <3>1, EngineAssumption DEF OpenTradesBounded
    <2> QED BY <2>1, <2>2
  <1>4. SingleDirection' /\ DistinctIds'
    BY <1>1 DEF EngineInv, SingleDirection, DistinctIds
  <1>5. (\A t \in openTrades \cup closing \cup opening : t.entry >= CostBps)'
    BY <1>1 DEF EngineInv
  <1> QED BY <1>2, <1>3, <1>4, <1>5 DEF EngineInv

-----------------------------------------------------------------------------
(* The initial state, and one lemma per action. *)

LEMMA RunnerInitInv == RunnerInit => RunnerInv
  <1> SUFFICES ASSUME RunnerInit PROVE RunnerInv
    OBVIOUS
  <1>1. EngineInv
    BY EngineInitInv DEF RunnerInit
  <1>2. Cardinality({}) = 0
    BY FS_EmptySet
  <1>3. ZeroCounters \in Counters
    BY DEF ZeroCounters, Counters
  <1>4. RunnerTypeOK
    <2>1. /\ closing = {} /\ opening = {}
          /\ Cardinality(opening) <= 1
          /\ activeOrders \subseteq 1 .. (nextId - 1)
      BY <1>2 DEF RunnerInit, EngineInit
    <2>2. EngineTypeOK
      BY <1>1 DEF EngineInv
    <2> QED BY <1>3, <2>1, <2>2 DEF RunnerInit, RunnerTypeOK, Pc
  <1>5. MemorySound
    BY <1>2, <1>3, GuardAssumption
    DEF RunnerInit, EngineInit, MemorySound, SoundState, Hedged, ZeroCounters
  <1> QED
    BY <1>1, <1>4, <1>5
    DEF RunnerInit, EngineInit, RunnerInv, SavedSound, OpeningFresh,
        GuardStillHolds, StoppedAtLimit

(* A sound saved state stays sound as long as nothing is saved over it.     *)
LEMMA SavedSoundGrows ==
  ASSUME RunnerInv, snapshot' = snapshot,
         nextId' \in Int, nextId <= nextId', filled \subseteq filled',
         sessionLoss' \in Int, sessionLoss <= sessionLoss'
  PROVE  SavedSound'
  <1> SUFFICES ASSUME NEW s \in snapshot
               PROVE  SoundState(s.active, s.loss, s.counters,
                                 nextId', filled', sessionLoss')
    BY DEF SavedSound
  <1>1. SoundState(s.active, s.loss, s.counters, nextId, filled, sessionLoss)
    BY DEF RunnerInv, SavedSound
  <1>2. nextId \in Int /\ sessionLoss \in Int
    BY DEF RunnerInv, RunnerTypeOK, EngineTypeOK
  <1> QED BY <1>1, <1>2, SoundStateGrows

(* The engine opens one trade at a time.                                    *)
LEMMA OpeningIsOne ==
  ASSUME RunnerInv, NEW t \in opening, NEW u \in opening
  PROVE  u = t
  <1>1. t.id = nextId - 1 /\ u.id = nextId - 1
    BY DEF RunnerInv, OpeningFresh
  <1> QED BY <1>1 DEF RunnerInv, EngineInv, DistinctIds

LEMMA ProcessSnapshotInv ==
  ASSUME RunnerInv, NEW b \in Books, ProcessSnapshot(b)
  PROVE  RunnerInv'
  <1>0. /\ pc = "top" /\ pc' = "execute"
        /\ UNCHANGED <<processVars, storeVars>>
        /\ OnSnapshot(b) \/ OnSnapshotRaises(b)
    BY DEF ProcessSnapshot
  <1>1. EngineInv'
    BY <1>0, OnSnapshotInv, OnSnapshotRaisesInv DEF RunnerInv
  <1>2. /\ nextId \in Nat \ {0} /\ nextId' \in Nat \ {0}
        /\ nextId <= nextId'
    BY <1>0, <1>1 DEF RunnerInv, EngineInv, EngineTypeOK, OnSnapshot, OnSnapshotRaises
  <1>3. opening' = {} \/ (opening' = {NewTrade(b)} /\ nextId' = nextId + 1
                           /\ opening' \subseteq openTrades')
    <2>1. CASE OnSnapshotRaises(b)
      BY <2>1 DEF OnSnapshotRaises
    <2>2. CASE OnSnapshot(b)
      BY <2>2 DEF OnSnapshot
    <2> QED BY <1>0, <2>1, <2>2
  <1>4. Cardinality(opening') <= 1
    <2>1. Cardinality({}) = 0
      BY FS_EmptySet
    <2>2. Cardinality({NewTrade(b)}) = 1
      BY FS_Singleton
    <2> QED BY <1>3, <2>1, <2>2
  <1>5. activeOrders' \subseteq 1 .. (nextId' - 1)
    <2>1. activeOrders' = activeOrders /\ activeOrders \subseteq 1 .. (nextId - 1)
      BY <1>0 DEF RunnerInv, RunnerTypeOK, processVars
    <2>2. 1 .. (nextId - 1) \subseteq 1 .. (nextId' - 1)
      <3>1. nextId \in Int /\ nextId' \in Int /\ nextId <= nextId'
        BY <1>2
      <3> QED BY <3>1, IdsGrow
    <2> QED BY <2>1, <2>2
  <1>6. RunnerTypeOK'
    BY <1>0, <1>1, <1>4, <1>5
    DEF RunnerInv, EngineInv, RunnerTypeOK, processVars, storeVars, Pc
  <1>7. MemorySound'
    <2>1. SoundState(activeOrders, dailyLoss, counters, nextId', filled, sessionLoss)
      BY <1>2, SoundStateGrows DEF RunnerInv, RunnerTypeOK, MemorySound
    <2> QED BY <1>0, <2>1 DEF MemorySound, processVars, storeVars
  <1>8. SavedSound'
    BY <1>0, <1>2, SavedSoundGrows DEF RunnerInv, RunnerTypeOK, storeVars
  <1>9. OpeningFresh'
    <2> SUFFICES ASSUME NEW t \in opening'
                 PROVE  t \in openTrades' /\ t.id = nextId' - 1 /\ t.id \notin activeOrders'
      BY DEF OpeningFresh
    <2>1. t = NewTrade(b) /\ nextId' = nextId + 1 /\ t \in openTrades'
      BY <1>3
    <2>2. t.id = nextId
      BY <2>1 DEF NewTrade
    <2>3. nextId \notin activeOrders'
      BY <1>0, <1>2 DEF RunnerInv, RunnerTypeOK, processVars
    <2> QED BY <1>2, <2>1, <2>2, <2>3
  <1>10. GuardStillHolds' /\ StoppedAtLimit'
    BY <1>0 DEF RunnerInv, GuardStillHolds, StoppedAtLimit, processVars
  <1> QED BY <1>1, <1>6, <1>7, <1>8, <1>9, <1>10 DEF RunnerInv

LEMMA ExecuteCloseInv ==
  ASSUME RunnerInv, NEW t \in closing, NEW lossCycle \in BOOLEAN,
         ExecuteClose(t, lossCycle)
  PROVE  RunnerInv'
  <1> DEFINE pnl == BookedPnl(t, lossCycle)
  <1>1. t \in Trade /\ pnl \in Int
    BY BookedPnlType DEF RunnerInv, RunnerTypeOK, EngineTypeOK
  <1> HIDE DEF pnl
  <1>2. /\ counters' = Booked(counters, pnl)
        /\ dailyLoss' = UpdateDailyLoss(dailyLoss, pnl)
        /\ sessionLoss' = sessionLoss + LossOf(pnl)
        /\ activeOrders' = activeOrders \ {t.id}
        /\ closing' = closing \ {t}
        /\ pc = "execute"
        /\ UNCHANGED <<openTrades, nextId, opening, pc, stopRequested,
                       filled, snapshot, crashes>>
    BY DEF ExecuteClose, Untracked, pnl
  <1>3. /\ nextId \in Int
        /\ activeOrders \subseteq 1 .. (nextId - 1)
        /\ dailyLoss \in Nat /\ sessionLoss \in Nat /\ dailyLoss <= sessionLoss
        /\ counters \in Counters
    BY DEF RunnerInv, RunnerTypeOK, EngineTypeOK, MemorySound, SoundState
  <1>4. /\ dailyLoss' \in Nat /\ sessionLoss' \in Nat
        /\ dailyLoss <= dailyLoss' /\ dailyLoss - pnl <= dailyLoss'
        /\ dailyLoss' <= sessionLoss' /\ sessionLoss <= sessionLoss'
    BY <1>1, <1>2, <1>3 DEF UpdateDailyLoss, LossOf
  <1>5. /\ counters' \in Counters
        /\ counters'.totalPnl = counters.totalPnl + pnl
        /\ counters'.symbolPnl = counters.symbolPnl + pnl
        /\ counters'.closed = counters.closed + 1
        /\ counters'.winning \in {counters.winning, counters.winning + 1}
    BY <1>1, <1>2, <1>3, CountersOfClose
  <1>6. EngineInv'
    BY <1>2, EngineShrinks DEF RunnerInv
  <1>7. RunnerTypeOK'
    BY <1>2, <1>3, <1>4, <1>5, <1>6 DEF RunnerInv, EngineInv, RunnerTypeOK
  <1>8. Cardinality(activeOrders') <= GuardMaxOpenTrades
    <2>1. IsFiniteSet(activeOrders) /\ Cardinality(activeOrders) \in Nat
      BY <1>3, IdsFinite
    <2>2. /\ Cardinality(activeOrders') \in Nat
          /\ Cardinality(activeOrders') <= Cardinality(activeOrders)
      BY <1>2, <2>1, FS_Subset, FS_CardinalityType
    <2>3. Cardinality(activeOrders) <= GuardMaxOpenTrades
      BY DEF RunnerInv, MemorySound, SoundState
    <2> QED BY <2>1, <2>2, <2>3, GuardAssumption
  <1>9. MemorySound'
    <2>1. /\ counters'.totalPnl = counters'.symbolPnl
          /\ 0 - counters'.totalPnl <= dailyLoss'
          /\ counters'.winning <= counters'.closed
      BY <1>1, <1>3, <1>4, <1>5 DEF RunnerInv, MemorySound, SoundState, Counters
    <2>2. Hedged(activeOrders', filled')
      BY <1>2 DEF RunnerInv, MemorySound, SoundState, Hedged
    <2> QED BY <1>2, <1>3, <1>4, <1>5, <1>8, <2>1, <2>2 DEF MemorySound, SoundState
  <1>10. SavedSound'
    BY <1>2, <1>3, <1>4, SavedSoundGrows
  <1>11. OpeningFresh'
    BY <1>2 DEF RunnerInv, OpeningFresh
  <1>12. GuardStillHolds' /\ StoppedAtLimit'
    BY <1>2, <1>3, <1>4, GuardAssumption DEF RunnerInv, GuardStillHolds, StoppedAtLimit
  <1> QED BY <1>6, <1>7, <1>9, <1>10, <1>11, <1>12 DEF RunnerInv

(* The state in memory stays sound when only statistics of opened trades    *)
(* change and an exchange executes a leg.                                   *)
LEMMA MemorySoundUncounted ==
  ASSUME RunnerInv,
         UNCHANGED <<activeOrders, dailyLoss, nextId, sessionLoss>>,
         counters' \in {counters, Tried(counters)}, filled \subseteq filled'
  PROVE  MemorySound' /\ counters' \in Counters
  <1>1. counters \in Counters
    BY DEF RunnerInv, RunnerTypeOK
  <1>2. /\ counters' \in Counters
        /\ counters'.totalPnl = counters.totalPnl
        /\ counters'.symbolPnl = counters.symbolPnl
        /\ counters'.winning = counters.winning /\ counters'.closed = counters.closed
    BY <1>1, CountersOfOpen
  <1>3. Hedged(activeOrders', filled')
    BY DEF RunnerInv, MemorySound, SoundState, Hedged
  <1> QED BY <1>2, <1>3 DEF RunnerInv, MemorySound, SoundState

LEMMA OrdersCounted ==
  ASSUME RunnerInv
  PROVE  Cardinality(activeOrders) \in Int /\ dailyLoss \in Int
  <1>1. nextId \in Int /\ activeOrders \in SUBSET (1 .. (nextId - 1)) /\ dailyLoss \in Int
    BY DEF RunnerInv, RunnerTypeOK, EngineTypeOK
  <1>2. Cardinality(activeOrders) \in Nat
    BY <1>1, IdsFinite
  <1> QED BY <1>1, <1>2

LEMMA GuardDropsInv ==
  ASSUME RunnerInv, RejectOpen \/ StopSession \/ OpenWithoutQuantity
  PROVE  RunnerInv'
  <1>1. /\ pc = "execute" /\ closing = {} /\ opening' = {}
        /\ counters' \in {counters, Tried(counters)}
        /\ stopRequested' \in {stopRequested, TRUE}
        /\ UNCHANGED <<openTrades, nextId, closing, pc, activeOrders, dailyLoss, storeVars>>
    BY DEF RejectOpen, StopSession, OpenWithoutQuantity, Decided, processVars
  <1>2. MemorySound' /\ counters' \in Counters
    BY <1>1, MemorySoundUncounted DEF storeVars
  <1>3. EngineInv'
    BY <1>1, EngineShrinks DEF RunnerInv
  <1>4. Cardinality(opening') <= 1
    BY <1>1, FS_EmptySet
  <1>5. RunnerTypeOK'
    BY <1>1, <1>2, <1>3, <1>4 DEF RunnerInv, EngineInv, RunnerTypeOK, storeVars, Pc
  <1>6. SavedSound'
    BY <1>1 DEF RunnerInv, SavedSound, storeVars
  <1>7. stopRequested' => dailyLoss >= MaxDailyLoss
    <2>1. CASE StopSession
      BY <2>1, OrdersCounted, GuardAnswers DEF StopSession, Decided
    <2>2. CASE RejectOpen \/ OpenWithoutQuantity
      BY <2>2 DEF RejectOpen, OpenWithoutQuantity, processVars, RunnerInv, StoppedAtLimit
    <2> QED BY <2>1, <2>2
  <1>8. OpeningFresh' /\ GuardStillHolds' /\ StoppedAtLimit'
    BY <1>1, <1>7 DEF RunnerInv, OpeningFresh, GuardStillHolds, StoppedAtLimit
  <1> QED BY <1>2, <1>3, <1>5, <1>6, <1>8 DEF RunnerInv

(* The guard has answered OK: there is room, and the trade is fresh.        *)
LEMMA DecidedOK ==
  ASSUME RunnerInv, Decided("OK")
  PROVE  /\ pc = "execute" /\ closing = {} /\ opening # {}
         /\ ~stopRequested
         /\ Cardinality(activeOrders) < GuardMaxOpenTrades
         /\ dailyLoss < MaxDailyLoss
  <1>1. Cardinality(activeOrders) \in Int /\ dailyLoss \in Int
    BY OrdersCounted
  <1>2. MaxDailyLoss \in Int
    BY GuardAssumption
  <1> QED BY <1>1, <1>2, GuardAnswers DEF RunnerInv, Decided, StoppedAtLimit

LEMMA PlaceFirstLegInv ==
  ASSUME RunnerInv, NEW outcome, PlaceFirstLeg(outcome)
  PROVE  RunnerInv'
  <1>1. /\ pc = "execute" /\ closing = {} /\ opening # {}
        /\ ~stopRequested
        /\ Cardinality(activeOrders) < GuardMaxOpenTrades
        /\ dailyLoss < MaxDailyLoss
    BY DecidedOK DEF PlaceFirstLeg
  <1>2. PICK t \in opening : filled' = Executed(FirstLeg(t), outcome)
    BY DEF PlaceFirstLeg
  <1>3. UNCHANGED <<openTrades, nextId, closing, activeOrders, dailyLoss,
                    stopRequested, snapshot, sessionLoss, crashes>>
    BY DEF PlaceFirstLeg
  <1>4. \/ opening' = {} /\ counters' = Tried(counters) /\ pc' = "execute"
        \/ /\ opening' = opening /\ counters' = counters /\ pc' = "secondLeg"
           /\ ~Raises(outcome)
    BY <1>1 DEF PlaceFirstLeg
  <1>5. FirstLeg(t) \in Leg
    BY LegType DEF RunnerInv, RunnerTypeOK, EngineTypeOK
  <1>6. filled' \subseteq Leg /\ filled \subseteq filled'
    BY <1>2, <1>5 DEF Executed, RunnerInv, RunnerTypeOK
  <1>7. MemorySound' /\ counters' \in Counters
    BY <1>3, <1>4, <1>6, MemorySoundUncounted
  <1>8. EngineInv'
    BY <1>3, <1>4, EngineShrinks DEF RunnerInv
  <1>9. Cardinality(opening') <= 1
    BY <1>4, FS_EmptySet DEF RunnerInv, RunnerTypeOK
  <1>10. RunnerTypeOK'
    BY <1>1, <1>3, <1>4, <1>6, <1>7, <1>8, <1>9
    DEF RunnerInv, EngineInv, RunnerTypeOK, Pc
  <1>11. SavedSound'
    BY <1>3, <1>6, SavedSoundGrows DEF RunnerInv, RunnerTypeOK, EngineTypeOK
  <1>12. OpeningFresh'
    BY <1>3, <1>4 DEF RunnerInv, OpeningFresh
  <1>13. GuardStillHolds'
    <2> SUFFICES ASSUME pc' = "secondLeg" PROVE GuardStillHolds'
      BY DEF GuardStillHolds
    <2>1. opening' = opening /\ ~Raises(outcome)
      BY <1>4
    <2>2. \A u \in opening : u = t
      BY <1>2, OpeningIsOne
    <2>3. FirstLeg(t) \in filled'
      BY <1>2, <2>1 DEF Executed, Raises
    <2> QED BY <1>1, <1>3, <2>1, <2>2, <2>3 DEF GuardStillHolds
  <1>14. StoppedAtLimit'
    BY <1>1, <1>3, <1>4 DEF RunnerInv, StoppedAtLimit
  <1> QED BY <1>7, <1>8, <1>10, <1>11, <1>12, <1>13, <1>14 DEF RunnerInv

LEMMA PlaceSecondLegInv ==
  ASSUME RunnerInv, NEW outcome, PlaceSecondLeg(outcome)
  PROVE  RunnerInv'
  <1>1. /\ pc = "secondLeg" /\ pc' = "execute" /\ opening' = {}
        /\ UNCHANGED <<openTrades, nextId, closing, dailyLoss, stopRequested,
                       snapshot, sessionLoss, crashes>>
    BY DEF PlaceSecondLeg
  <1>2. PICK t \in opening :
          /\ filled' = Executed(SecondLeg(t), outcome)
          /\ \/ activeOrders' = activeOrders /\ counters' = Tried(counters)
             \/ /\ activeOrders' = activeOrders \cup {t.id}
                /\ counters' = Tracked(counters) /\ ~Raises(outcome)
    BY DEF PlaceSecondLeg
  <1>3. /\ closing = {} /\ ~stopRequested
        /\ Cardinality(activeOrders) < GuardMaxOpenTrades
        /\ FirstLeg(t) \in filled
    BY <1>1 DEF RunnerInv, GuardStillHolds
  <1>4. t \in Trade /\ t.id = nextId - 1 /\ t.id \in Nat \ {0}
    BY DEF RunnerInv, OpeningFresh, RunnerTypeOK, EngineTypeOK, Trade
  <1>5. filled' \subseteq Leg /\ filled \subseteq filled'
    BY <1>2, <1>4, LegType DEF Executed, RunnerInv, RunnerTypeOK
  <1>6. /\ counters \in Counters /\ nextId \in Int /\ sessionLoss \in Int
        /\ activeOrders \in SUBSET (1 .. (nextId - 1))
    BY DEF RunnerInv, RunnerTypeOK, EngineTypeOK
  <1>7. /\ counters' \in Counters
        /\ counters'.totalPnl = counters.totalPnl
        /\ counters'.symbolPnl = counters.symbolPnl
        /\ counters'.winning = counters.winning /\ counters'.closed = counters.closed
    BY <1>2, <1>6, CountersOfOpen
  <1>8. EngineInv'
    BY <1>1, EngineShrinks DEF RunnerInv
  <1>9. activeOrders' \subseteq 1 .. (nextId' - 1)
    <2>1. t.id \in 1 .. (nextId - 1)
      BY <1>4, <1>6
    <2> QED BY <1>1, <1>2, <1>6, <2>1
  <1>10. Cardinality(activeOrders') <= GuardMaxOpenTrades
    <2>1. IsFiniteSet(activeOrders) /\ Cardinality(activeOrders) \in Nat
      BY <1>6, IdsFinite
    <2>2. Cardinality(activeOrders \cup {t.id})
            \in {Cardinality(activeOrders), Cardinality(activeOrders) + 1}
      BY <2>1, FS_AddElement
    <2> QED BY <1>2, <1>3, <2>1, <2>2, GuardAssumption
  <1>11. Hedged(activeOrders', filled')
    <2>1. Hedged(activeOrders, filled')
      BY <1>5 DEF RunnerInv, MemorySound, SoundState, Hedged
    <2>2. ASSUME ~Raises(outcome) PROVE Hedged({t.id}, filled')
      <3>1. FirstLeg(t) \in filled' /\ SecondLeg(t) \in filled'
        BY <1>2, <1>3, <1>5, <2>2 DEF Executed, Raises
      <3> QED BY <1>4, <3>1, LegType DEF Hedged
    <2> QED BY <1>2, <2>1, <2>2 DEF Hedged
  <1>12. Cardinality(opening') <= 1
    BY <1>1, FS_EmptySet
  <1>13. RunnerTypeOK'
    BY <1>1, <1>5, <1>7, <1>8, <1>9, <1>12 DEF RunnerInv, EngineInv, RunnerTypeOK, Pc
  <1>14. MemorySound'
    BY <1>1, <1>7, <1>9, <1>10, <1>11 DEF RunnerInv, MemorySound, SoundState
  <1>15. SavedSound'
    BY <1>1, <1>5, <1>6, SavedSoundGrows
  <1>16. OpeningFresh' /\ GuardStillHolds' /\ StoppedAtLimit'
    BY <1>1, <1>3 DEF OpeningFresh, GuardStillHolds, StoppedAtLimit
  <1> QED BY <1>8, <1>13, <1>14, <1>15, <1>16 DEF RunnerInv

LEMMA LoopControlInv ==
  ASSUME RunnerInv, LoopStops \/ RuntimeExpires \/ ExecuteDone
  PROVE  RunnerInv'
  <1>1. /\ pc' \in {"top", "stopped"} /\ closing = {} /\ opening = {} /\ pc # "down"
        /\ UNCHANGED <<engineVars, processVars, storeVars>>
    BY DEF LoopStops, RuntimeExpires, ExecuteDone, RunnerInv, RunnerTypeOK
  <1>2. EngineInv'
    BY <1>1, EngineShrinks DEF RunnerInv, engineVars
  <1>3. RunnerTypeOK'
    BY <1>1, <1>2
    DEF RunnerInv, EngineInv, RunnerTypeOK, engineVars, processVars, storeVars, Pc
  <1>4. MemorySound' /\ SavedSound'
    BY <1>1 DEF RunnerInv, MemorySound, SavedSound, engineVars, processVars, storeVars
  <1>5. OpeningFresh' /\ GuardStillHolds' /\ StoppedAtLimit'
    BY <1>1 DEF RunnerInv, OpeningFresh, GuardStillHolds, StoppedAtLimit,
                engineVars, processVars
  <1> QED BY <1>2, <1>3, <1>4, <1>5 DEF RunnerInv

LEMMA SaveSnapshotInv ==
  ASSUME RunnerInv, SaveSnapshot
  PROVE  RunnerInv'
  <1>1. /\ snapshot' = {[active |-> activeOrders, loss |-> dailyLoss, counters |-> counters]}
        /\ pc # "secondLeg" /\ pc # "down"
        /\ UNCHANGED <<engineVars, pc, processVars, filled, sessionLoss, crashes>>
    BY DEF SaveSnapshot, CurrentState
  <1>2. EngineInv'
    BY <1>1, EngineShrinks DEF RunnerInv, engineVars
  <1>3. snapshot' \subseteq Saved
    <2>1. activeOrders \subseteq Nat \ {0} /\ dailyLoss \in Nat /\ counters \in Counters
      BY DEF RunnerInv, RunnerTypeOK, EngineTypeOK
    <2> QED BY <1>1, <2>1 DEF Saved
  <1>4. RunnerTypeOK'
    BY <1>1, <1>2, <1>3
    DEF RunnerInv, EngineInv, RunnerTypeOK, engineVars, processVars
  <1>5. MemorySound' /\ SavedSound'
    BY <1>1 DEF RunnerInv, MemorySound, SavedSound, engineVars, processVars
  <1>6. OpeningFresh' /\ GuardStillHolds' /\ StoppedAtLimit'
    BY <1>1 DEF RunnerInv, OpeningFresh, GuardStillHolds, StoppedAtLimit,
                engineVars, processVars
  <1> QED BY <1>2, <1>4, <1>5, <1>6 DEF RunnerInv

(* An empty memory is sound in any session.                                 *)
LEMMA NothingSound ==
  ASSUME NEW n, NEW legs, NEW trueLoss \in Nat
  PROVE  SoundState({}, 0, ZeroCounters, n, legs, trueLoss)
  <1>1. Cardinality({}) = 0
    BY FS_EmptySet
  <1> QED BY <1>1, GuardAssumption DEF SoundState, Hedged, ZeroCounters, Counters

LEMMA CrashInv ==
  ASSUME RunnerInv, Crash
  PROVE  RunnerInv'
  <1>1. /\ pc' = "down" /\ openTrades' = {} /\ closing' = {} /\ opening' = {}
        /\ activeOrders' = {} /\ dailyLoss' = 0 /\ stopRequested' = FALSE
        /\ counters' = ZeroCounters /\ crashes' = crashes + 1
        /\ UNCHANGED <<nextId, filled, snapshot, sessionLoss>>
    BY DEF Crash
  <1>2. EngineInv'
    BY <1>1, EngineShrinks DEF RunnerInv
  <1>3. sessionLoss \in Nat /\ crashes \in Nat
    BY DEF RunnerInv, RunnerTypeOK
  <1>4. MemorySound'
    BY <1>1, <1>3, NothingSound DEF MemorySound
  <1>5. Cardinality(opening') <= 1
    BY <1>1, FS_EmptySet
  <1>6. RunnerTypeOK'
    <2>1. /\ EngineTypeOK' /\ counters' \in Counters
          /\ activeOrders' \subseteq 1 .. (nextId' - 1)
      BY <1>1, <1>2, <1>4 DEF EngineInv, MemorySound, SoundState
    <2>2. /\ pc' \in Pc /\ stopRequested' \in BOOLEAN /\ filled' \subseteq Leg
      BY <1>1 DEF RunnerInv, RunnerTypeOK, Pc
    <2>3. dailyLoss' \in Nat /\ crashes' \in Nat /\ sessionLoss' \in Nat
      BY <1>1, <1>3
    <2>4. snapshot' \subseteq Saved
      BY <1>1 DEF RunnerInv, RunnerTypeOK
    <2> QED BY <1>1, <1>5, <2>1, <2>2, <2>3, <2>4 DEF RunnerTypeOK
  <1>7. SavedSound'
    BY <1>1 DEF RunnerInv, SavedSound
  <1>8. OpeningFresh' /\ GuardStillHolds' /\ StoppedAtLimit'
    BY <1>1 DEF OpeningFresh, GuardStillHolds, StoppedAtLimit
  <1> QED BY <1>2, <1>4, <1>6, <1>7, <1>8 DEF RunnerInv

LEMMA RestartInv ==
  ASSUME RunnerInv, CleanReset \/ Resume \/ ResumeFresh
  PROVE  RunnerInv'
  <1>1. /\ pc = "down" /\ pc' = "top"
        /\ UNCHANGED <<engineVars, stopRequested, filled, crashes>>
    BY DEF CleanReset, Resume, ResumeFresh, processVars, storeVars
  <1>2. /\ closing = {} /\ opening = {} /\ ~stopRequested
        /\ activeOrders = {} /\ dailyLoss = 0
    BY <1>1 DEF RunnerInv, RunnerTypeOK, StoppedAtLimit
  <1>3. EngineInv'
    BY <1>1, EngineShrinks DEF RunnerInv, engineVars
  <1>4. MemorySound' /\ SavedSound' /\ sessionLoss' \in Nat
        /\ snapshot' \subseteq Saved
    <2>1. CASE CleanReset
      <3>1. /\ snapshot' = {} /\ sessionLoss' = 0
            /\ UNCHANGED <<nextId, filled, activeOrders, dailyLoss, counters>>
        BY <2>1 DEF CleanReset, processVars, engineVars
      <3> QED BY <1>2, <3>1 DEF RunnerInv, MemorySound, SavedSound, SoundState
    <2>2. CASE Resume
      BY <2>2 DEF Resume, RunnerInv, RunnerTypeOK, MemorySound, SavedSound,
                  engineVars, storeVars
    <2>3. CASE ResumeFresh
      BY <2>3 DEF ResumeFresh, RunnerInv, RunnerTypeOK, MemorySound, SavedSound,
                  engineVars, processVars, storeVars
    <2> QED BY <2>1, <2>2, <2>3
  <1>5. RunnerTypeOK'
    <2>1. /\ EngineTypeOK' /\ pc' \in Pc
          /\ activeOrders' \subseteq 1 .. (nextId' - 1)
          /\ dailyLoss' \in Nat /\ counters' \in Counters
      BY <1>1, <1>3, <1>4 DEF EngineInv, MemorySound, SoundState, Pc
    <2>2. /\ stopRequested' \in BOOLEAN /\ filled' \subseteq Leg /\ crashes' \in Nat
          /\ closing' = {} /\ opening' = {} /\ Cardinality(opening') <= 1
      BY <1>1, <1>2 DEF RunnerInv, RunnerTypeOK, engineVars
    <2> QED BY <1>1, <1>4, <2>1, <2>2 DEF RunnerTypeOK
  <1>6. OpeningFresh' /\ GuardStillHolds' /\ StoppedAtLimit'
    BY <1>1, <1>2 DEF OpeningFresh, GuardStillHolds, StoppedAtLimit, engineVars
  <1> QED BY <1>3, <1>4, <1>5, <1>6 DEF RunnerInv

-----------------------------------------------------------------------------
(* The theorems. *)

(* One step of the runner, whichever it is.                                 *)
LEMMA RunnerStepInv ==
  ASSUME RunnerInv, [RunnerNext]_runnerVars
  PROVE  RunnerInv'
  <1>1. CASE LoopStops \/ RuntimeExpires \/ ExecuteDone
    BY <1>1, LoopControlInv
  <1>2. ASSUME NEW b \in Books, ProcessSnapshot(b) PROVE RunnerInv'
    BY <1>2, ProcessSnapshotInv
  <1>3. ASSUME NEW t \in closing, NEW lossCycle \in BOOLEAN, ExecuteClose(t, lossCycle)
        PROVE  RunnerInv'
    BY <1>3, ExecuteCloseInv
  <1>4. CASE RejectOpen \/ StopSession \/ OpenWithoutQuantity
    BY <1>4, GuardDropsInv
  <1>5. ASSUME NEW outcome \in OrderOutcomes,
               PlaceFirstLeg(outcome) \/ PlaceSecondLeg(outcome)
        PROVE  RunnerInv'
    BY <1>5, PlaceFirstLegInv, PlaceSecondLegInv
  <1>6. CASE SaveSnapshot
    BY <1>6, SaveSnapshotInv
  <1>7. CASE Crash
    BY <1>7, CrashInv
  <1>8. CASE CleanReset \/ Resume \/ ResumeFresh
    BY <1>8, RestartInv
  <1>9. CASE UNCHANGED runnerVars
    <2>1. UNCHANGED <<engineVars, pc, processVars, storeVars>>
      BY <1>9 DEF runnerVars
    <2>2. EngineInv'
      BY <2>1, EngineShrinks DEF RunnerInv, engineVars
    <2>3. RunnerTypeOK'
      BY <2>1, <2>2
      DEF RunnerInv, EngineInv, RunnerTypeOK, engineVars, processVars, storeVars
    <2>4. MemorySound' /\ SavedSound'
      BY <2>1 DEF RunnerInv, MemorySound, SavedSound, engineVars, processVars, storeVars
    <2>5. OpeningFresh' /\ GuardStillHolds' /\ StoppedAtLimit'
      BY <2>1 DEF RunnerInv, OpeningFresh, GuardStillHolds, StoppedAtLimit,
                  engineVars, processVars, storeVars
    <2> QED BY <2>2, <2>3, <2>4, <2>5 DEF RunnerInv
  <1> QED
    BY <1>1, <1>2, <1>3, <1>4, <1>5, <1>6, <1>7, <1>8, <1>9
    DEF RunnerNext, Loop, Execute

(* RunnerInv holds in every reachable state of the runner.                  *)
THEOREM RunnerInvariant == RunnerSpec => []RunnerInv
  BY RunnerInitInv, RunnerStepInv, PTL DEF RunnerSpec

(* The types of the runner's state.                                         *)
THEOREM RunnerTyped == RunnerSpec => []RunnerTypeOK
  <1>1. RunnerInv => RunnerTypeOK
    BY DEF RunnerInv
  <1> QED BY <1>1, RunnerInvariant, PTL

(* The positions stay within the limit of the guard, restarts included.     *)
THEOREM ActiveOrdersStayBounded == RunnerSpec => []ActiveOrdersBounded
  <1>1. RunnerInv => ActiveOrdersBounded
    BY DEF RunnerInv, MemorySound, SoundState, ActiveOrdersBounded
  <1> QED BY <1>1, RunnerInvariant, PTL

(* Every position the runner knows of is a complete hedge.                  *)
THEOREM PositionsAreHedged == RunnerSpec => []ActiveOrdersHedged
  <1>1. RunnerInv => ActiveOrdersHedged
    BY DEF RunnerInv, MemorySound, SoundState, Hedged, ActiveOrdersHedged
  <1> QED BY <1>1, RunnerInvariant, PTL

(* The statistics, the symbol's PnL and the guard's loss agree.             *)
THEOREM LedgersStayInAgreement == RunnerSpec => []LedgersAgree
  <1>1. RunnerInv => LedgersAgree
    BY DEF RunnerInv, MemorySound, SoundState, LedgersAgree
  <1> QED BY <1>1, RunnerInvariant, PTL

(* The guard never counts a loss the session did not have.                  *)
THEOREM LossIsReal == RunnerSpec => []LossNotOvercounted
  <1>1. RunnerInv => LossNotOvercounted
    BY DEF RunnerInv, MemorySound, SoundState, LossNotOvercounted
  <1> QED BY <1>1, RunnerInvariant, PTL

(* The orders of an exchange change at the two order steps only.            *)
LEMMA OrdersAreSentWhere ==
  ASSUME [RunnerNext]_runnerVars, filled' # filled
  PROVE  \E outcome \in OrderOutcomes : PlaceFirstLeg(outcome) \/ PlaceSecondLeg(outcome)
  BY DEF RunnerNext, Loop, Execute, LoopStops, RuntimeExpires, ProcessSnapshot,
         ExecuteClose, RejectOpen, StopSession, OpenWithoutQuantity, ExecuteDone,
         SaveSnapshot, Crash, CleanReset, Resume, ResumeFresh, runnerVars, storeVars

(* No order leaves once the counted loss has reached the limit.             *)
THEOREM NoOrderBeyondTheLimit == RunnerSpec => NoOrderBeyondLossLimit
  <1>1. RunnerInv /\ [RunnerNext]_runnerVars
          => [filled' # filled => dailyLoss < MaxDailyLoss]_runnerVars
    <2> SUFFICES ASSUME RunnerInv, [RunnerNext]_runnerVars, filled' # filled
                 PROVE  dailyLoss < MaxDailyLoss
      OBVIOUS
    <2>1. PICK outcome \in OrderOutcomes : PlaceFirstLeg(outcome) \/ PlaceSecondLeg(outcome)
      BY OrdersAreSentWhere
    <2>2. CASE PlaceFirstLeg(outcome)
      BY <2>2, DecidedOK DEF PlaceFirstLeg
    <2>3. CASE PlaceSecondLeg(outcome)
      BY <2>3 DEF PlaceSecondLeg, RunnerInv, GuardStillHolds
    <2> QED BY <2>1, <2>2, <2>3
  <1> QED BY <1>1, RunnerInvariant, PTL DEF RunnerSpec, NoOrderBeyondLossLimit

(* A requested stop holds until the process ends.                           *)
THEOREM StopHolds == RunnerSpec => StopIsFinal
  <1>1. RunnerInv /\ [RunnerNext]_runnerVars
          => [stopRequested /\ pc' # "down" => stopRequested' /\ filled' = filled]_runnerVars
    <2> SUFFICES ASSUME RunnerInv, [RunnerNext]_runnerVars, stopRequested, pc' # "down"
                 PROVE  stopRequested' /\ filled' = filled
      OBVIOUS
    <2>1. filled' = filled
      <3>1. \A outcome : ~PlaceFirstLeg(outcome)
        BY DecidedOK DEF PlaceFirstLeg
      <3>2. \A outcome : ~PlaceSecondLeg(outcome)
        BY DEF PlaceSecondLeg, RunnerInv, GuardStillHolds
      <3> QED BY <3>1, <3>2, OrdersAreSentWhere
    <2>2. stopRequested' \in {stopRequested, TRUE}
      BY DEF RunnerNext, Loop, Execute, LoopStops, RuntimeExpires, ProcessSnapshot,
             ExecuteClose, RejectOpen, StopSession, OpenWithoutQuantity, PlaceFirstLeg,
             PlaceSecondLeg, ExecuteDone, SaveSnapshot, Crash, CleanReset, Resume,
             ResumeFresh, runnerVars, processVars
    <2> QED BY <2>1, <2>2
  <1> QED BY <1>1, RunnerInvariant, PTL DEF RunnerSpec, StopIsFinal

(* Orders are sent for trades the engine holds and that have no position.   *)
THEOREM OrdersAreForHeldTrades == RunnerSpec => OrdersForHeldTrades
  <1>1. RunnerInv /\ [RunnerNext]_runnerVars
          => [\A leg \in filled' \ filled :
                /\ \E t \in openTrades : t.id = leg.id
                /\ leg.id \notin activeOrders]_runnerVars
    <2> SUFFICES ASSUME RunnerInv, [RunnerNext]_runnerVars,
                        NEW leg \in filled' \ filled
                 PROVE  \E t \in openTrades : t.id = leg.id /\ t.id \notin activeOrders
      OBVIOUS
    <2>1. PICK outcome \in OrderOutcomes : PlaceFirstLeg(outcome) \/ PlaceSecondLeg(outcome)
      BY OrdersAreSentWhere
    <2>2. PICK t \in opening : leg = FirstLeg(t) \/ leg = SecondLeg(t)
      BY <2>1 DEF PlaceFirstLeg, PlaceSecondLeg, Executed
    <2>3. t \in Trade /\ t \in openTrades /\ t.id \notin activeOrders
      BY DEF RunnerInv, OpeningFresh, RunnerTypeOK, EngineTypeOK
    <2> QED BY <2>2, <2>3, LegType
  <1> QED BY <1>1, RunnerInvariant, PTL DEF RunnerSpec, OrdersForHeldTrades

-----------------------------------------------------------------------------
(* The runner implements TradingSession. *)

\* The state of the session as TradingSession sees it.
SavedSession == {[positions |-> s.active, loss |-> s.loss] : s \in snapshot}

sessionVars == <<pc # "down", stopRequested, activeOrders, dailyLoss, SavedSession>>

(* The steps that change nothing of the session, or only its end.           *)
LEMMA SessionStutters ==
  ASSUME (pc' # "down") = (pc # "down"),
         UNCHANGED <<stopRequested, activeOrders, dailyLoss, snapshot>>
  PROVE  UNCHANGED sessionVars
  BY DEF sessionVars, SavedSession

(* TradingSession counts its positions as the runner does.                  *)
LEMMA SameCardinality ==
  ASSUME NEW S
  PROVE  Session!Cardinality(S) = Cardinality(S)
  BY DEF Cardinality, Session!Cardinality

(* One order step at a time, a trade becomes a position in one step.        *)
LEMMA PlaceSecondLegOpens ==
  ASSUME RunnerInv, NEW outcome, PlaceSecondLeg(outcome)
  PROVE  Session!Open \/ UNCHANGED sessionVars
  <1>1. /\ pc = "secondLeg" /\ pc' = "execute"
        /\ UNCHANGED <<dailyLoss, stopRequested, snapshot>>
    BY DEF PlaceSecondLeg
  <1>2. PICK t \in opening : activeOrders' \in {activeOrders, activeOrders \cup {t.id}}
    BY DEF PlaceSecondLeg
  <1>3. /\ ~stopRequested /\ t.id \notin activeOrders
        /\ Cardinality(activeOrders) < GuardMaxOpenTrades /\ dailyLoss < MaxDailyLoss
    BY <1>1 DEF RunnerInv, GuardStillHolds, OpeningFresh
  <1>4. CASE activeOrders' = activeOrders
    BY <1>1, <1>4, SessionStutters
  <1>5. CASE activeOrders' = activeOrders \cup {t.id}
    <2>1. \E id \in activeOrders' \ activeOrders : activeOrders' = activeOrders \cup {id}
      BY <1>3, <1>5
    <2>2. pc # "down" /\ (pc' # "down") = (pc # "down") /\ SavedSession' = SavedSession
      BY <1>1 DEF SavedSession
    <2>3. Session!Cardinality(activeOrders) < GuardMaxOpenTrades
      BY <1>3, SameCardinality
    <2> QED BY <1>1, <1>3, <2>1, <2>2, <2>3 DEF Session!Open, SavedSession
  <1> QED BY <1>2, <1>4, <1>5

LEMMA ExecuteCloseSettles ==
  ASSUME RunnerInv, NEW t \in closing, NEW lossCycle \in BOOLEAN,
         ExecuteClose(t, lossCycle)
  PROVE  Session!Settle
  <1>1. /\ pc = "execute" /\ pc' = pc
        /\ activeOrders' = activeOrders \ {t.id}
        /\ dailyLoss' = UpdateDailyLoss(dailyLoss, BookedPnl(t, lossCycle))
        /\ UNCHANGED <<stopRequested, snapshot>>
    BY DEF ExecuteClose, Untracked
  <1>2. dailyLoss' >= dailyLoss
    <2>1. BookedPnl(t, lossCycle) \in Int /\ dailyLoss \in Nat
      BY BookedPnlType DEF RunnerInv, RunnerTypeOK, EngineTypeOK
    <2> QED BY <1>1, <2>1 DEF UpdateDailyLoss
  <1>3. activeOrders' = activeOrders \/ \E id \in activeOrders : activeOrders' = activeOrders \ {id}
    <2>1. CASE t.id \in activeOrders
      BY <1>1, <2>1
    <2>2. CASE t.id \notin activeOrders
      BY <1>1, <2>2
    <2> QED BY <2>1, <2>2
  <1> QED BY <1>1, <1>2, <1>3 DEF Session!Settle

LEMMA RestartResumes ==
  ASSUME RunnerInv, CleanReset \/ Resume \/ ResumeFresh
  PROVE  Session!Restart \/ Session!Recover
  <1>1. pc = "down" /\ pc' = "top" /\ UNCHANGED stopRequested
    BY DEF CleanReset, Resume, ResumeFresh, processVars
  <1>2. CASE CleanReset
    BY <1>1, <1>2 DEF CleanReset, processVars, Session!Restart
  <1>3. CASE ResumeFresh
    BY <1>1, <1>3 DEF ResumeFresh, processVars, storeVars, Session!Restart
  <1>4. CASE Resume
    <2>1. snapshot' = snapshot
      BY <1>4 DEF Resume, storeVars
    <2>2. PICK s \in snapshot : activeOrders' = s.active /\ dailyLoss' = s.loss
      BY <1>4 DEF Resume
    <2>3. [positions |-> s.active, loss |-> s.loss] \in SavedSession
      BY DEF SavedSession
    <2>4. \E r \in SavedSession : activeOrders' = r.positions /\ dailyLoss' = r.loss
      BY <2>2, <2>3
    <2> QED BY <1>1, <2>1, <2>4 DEF Session!Recover, SavedSession
  <1> QED BY <1>2, <1>3, <1>4

LEMMA SessionStep ==
  ASSUME RunnerInv, [RunnerNext]_runnerVars
  PROVE  Session!Next \/ UNCHANGED sessionVars
  <1>1. CASE LoopStops \/ RuntimeExpires \/ ExecuteDone
    BY <1>1, SessionStutters
    DEF LoopStops, RuntimeExpires, ExecuteDone, processVars, storeVars
  <1>2. ASSUME NEW b \in Books, ProcessSnapshot(b) PROVE UNCHANGED sessionVars
    BY <1>2, SessionStutters DEF ProcessSnapshot, processVars, storeVars
  <1>3. ASSUME NEW t \in closing, NEW lossCycle \in BOOLEAN, ExecuteClose(t, lossCycle)
        PROVE  Session!Next
    BY <1>3, ExecuteCloseSettles DEF Session!Next
  <1>4. CASE RejectOpen \/ OpenWithoutQuantity
    BY <1>4, SessionStutters
    DEF RejectOpen, OpenWithoutQuantity, Decided, processVars, storeVars
  <1>5. CASE StopSession
    <2>1. /\ pc = "execute" /\ pc' = pc /\ stopRequested' = TRUE
          /\ CheckTradeAllowed(Cardinality(activeOrders), dailyLoss) = "SESSION_STOP"
          /\ UNCHANGED <<activeOrders, dailyLoss, snapshot>>
      BY <1>5 DEF StopSession, Decided, storeVars
    <2>2. Cardinality(activeOrders) \in Int /\ dailyLoss \in Int
      BY OrdersCounted
    <2>3. dailyLoss >= MaxDailyLoss
      BY <2>1, <2>2, GuardAnswers
    <2> QED BY <2>1, <2>3 DEF Session!Halt, Session!Next
  <1>6. ASSUME NEW outcome, PlaceFirstLeg(outcome) PROVE UNCHANGED sessionVars
    BY <1>6, DecidedOK, SessionStutters DEF PlaceFirstLeg
  <1>7. ASSUME NEW outcome, PlaceSecondLeg(outcome)
        PROVE  Session!Next \/ UNCHANGED sessionVars
    BY <1>7, PlaceSecondLegOpens DEF Session!Next
  <1>8. CASE SaveSnapshot
    <2>1. /\ pc # "down" /\ pc' = pc
          /\ snapshot' = {[active |-> activeOrders, loss |-> dailyLoss, counters |-> counters]}
          /\ UNCHANGED <<stopRequested, activeOrders, dailyLoss>>
      BY <1>8 DEF SaveSnapshot, CurrentState, processVars
    <2>2. SavedSession' = {[positions |-> activeOrders, loss |-> dailyLoss]}
      BY <2>1 DEF SavedSession
    <2> QED BY <2>1, <2>2 DEF Session!Save, Session!Next, SavedSession
  <1>9. CASE Crash
    <2>1. /\ pc # "down" /\ pc' = "down" /\ stopRequested' = FALSE
          /\ activeOrders' = {} /\ dailyLoss' = 0 /\ snapshot' = snapshot
      BY <1>9 DEF Crash
    <2> QED BY <2>1 DEF Session!Forget, Session!Next
  <1>10. CASE CleanReset \/ Resume \/ ResumeFresh
    BY <1>10, RestartResumes DEF Session!Next
  <1>11. CASE UNCHANGED runnerVars
    BY <1>11, SessionStutters DEF runnerVars, processVars, storeVars
  <1> QED
    BY <1>1, <1>2, <1>3, <1>4, <1>5, <1>6, <1>7, <1>8, <1>9, <1>10, <1>11
    DEF RunnerNext, Loop, Execute

(* The runner implements the session it promises: every step of the runner  *)
(* is a step of TradingSession or leaves the session as it is.              *)
THEOREM RunnerImplementsSession == RunnerSpec => SessionRefined
  <1>1. RunnerInit => Session!Init
    BY DEF RunnerInit, Session!Init
  <1>2. RunnerInv /\ [RunnerNext]_runnerVars => [Session!Next]_(Session!vars)
    BY SessionStep DEF sessionVars, SavedSession, Session!vars
  <1> QED BY <1>1, <1>2, RunnerInvariant, PTL DEF RunnerSpec, SessionRefined, Session!Spec

-----------------------------------------------------------------------------
(* The engine's list and the runner's table, up to the first restart. *)

\* What the table holds the engine holds; a reversal closes everything that is
\* not just being opened; at the loss limit the closes have emptied the table, and
\* after the stop nothing fills it again.
HeldInv ==
  crashes = 0 =>
    /\ pc # "down"
    /\ activeOrders \subseteq {t.id : t \in openTrades \cup closing}
    /\ CloseOnReversal /\ closing # {} => openTrades \subseteq opening
    /\ CloseOnReversal /\ closing = {} /\ dailyLoss >= MaxDailyLoss
         => activeOrders = {}
    /\ CloseOnReversal /\ stopRequested => activeOrders = {}

(* A reversal leaves no trade of the other direction: there is none.        *)
LEMMA ReversalClosesAll ==
  ASSUME EngineInv, CloseOnReversal, NEW b \in Books, TradesToClose(b) # {}
  PROVE  TradesToClose(b) = openTrades
  <1>1. PICK t \in openTrades : Spread(b, t.side) < 0
    BY DEF TradesToClose
  <1>2. \A u \in openTrades : u.side = t.side
    BY DEF EngineInv, SingleDirection
  <1> QED BY <1>1, <1>2 DEF TradesToClose

LEMMA ProcessSnapshotHeld ==
  ASSUME RunnerInv, HeldInv, NEW b \in Books, ProcessSnapshot(b)
  PROVE  HeldInv'
  <1> SUFFICES ASSUME crashes = 0 PROVE HeldInv'
    BY DEF HeldInv, ProcessSnapshot, storeVars
  <1>1. /\ closing = {} /\ pc' = "execute"
        /\ UNCHANGED <<activeOrders, dailyLoss, stopRequested, crashes>>
    BY DEF ProcessSnapshot, processVars, storeVars, RunnerInv, RunnerTypeOK
  <1>2. /\ activeOrders \subseteq {t.id : t \in openTrades}
        /\ CloseOnReversal /\ dailyLoss >= MaxDailyLoss => activeOrders = {}
        /\ CloseOnReversal /\ stopRequested => activeOrders = {}
    BY <1>1 DEF HeldInv
  <1>3. CASE OnSnapshotRaises(b)
    BY <1>1, <1>2, <1>3 DEF OnSnapshotRaises, HeldInv
  <1>4. CASE OnSnapshot(b)
    <2>1. /\ closing' = TradesToClose(b)
          /\ openTrades' = (openTrades \ TradesToClose(b)) \cup opening'
      BY <1>4 DEF OnSnapshot
    <2>2. openTrades \subseteq openTrades' \cup closing'
      BY <2>1
    <2>3. CloseOnReversal /\ closing' # {} => openTrades' \subseteq opening'
      BY <2>1, ReversalClosesAll DEF RunnerInv
    <2> QED BY <1>1, <1>2, <2>2, <2>3 DEF HeldInv
  <1> QED BY <1>3, <1>4 DEF ProcessSnapshot

LEMMA ExecuteCloseHeld ==
  ASSUME RunnerInv, HeldInv, NEW t \in closing, NEW lossCycle \in BOOLEAN,
         ExecuteClose(t, lossCycle)
  PROVE  HeldInv'
  <1>1. /\ activeOrders' = activeOrders \ {t.id}
        /\ closing' = closing \ {t}
        /\ UNCHANGED <<openTrades, opening, pc, stopRequested, crashes>>
    BY DEF ExecuteClose, Untracked
  <1> SUFFICES ASSUME crashes = 0 PROVE HeldInv'
    BY <1>1 DEF HeldInv
  <1>2. /\ pc # "down"
        /\ activeOrders \subseteq {u.id : u \in openTrades \cup closing}
        /\ CloseOnReversal => openTrades \subseteq opening
        /\ CloseOnReversal /\ stopRequested => activeOrders = {}
    BY DEF HeldInv
  <1>3. activeOrders' \subseteq {u.id : u \in openTrades' \cup closing'}
    BY <1>1, <1>2
  <1>4. ASSUME CloseOnReversal, closing' = {} PROVE activeOrders' = {}
    <2>1. \A u \in openTrades : u.id \notin activeOrders
      BY <1>2, <1>4 DEF RunnerInv, OpeningFresh
    <2>2. \A u \in closing : u = t
      BY <1>1, <1>4
    <2>3. activeOrders \subseteq {t.id}
      BY <1>2, <2>1, <2>2
    <2> QED BY <1>1, <2>3
  <1> QED BY <1>1, <1>2, <1>3, <1>4 DEF HeldInv

LEMMA PlaceSecondLegHeld ==
  ASSUME RunnerInv, HeldInv, NEW outcome, PlaceSecondLeg(outcome)
  PROVE  HeldInv'
  <1>1. /\ pc = "secondLeg" /\ pc' = "execute"
        /\ UNCHANGED <<openTrades, closing, dailyLoss, stopRequested, crashes>>
        /\ \E t \in opening : activeOrders' \in {activeOrders, activeOrders \cup {t.id}}
    BY DEF PlaceSecondLeg
  <1>2. PICK t \in opening : activeOrders' \subseteq activeOrders \cup {t.id}
    BY <1>1
  <1>3. t \in openTrades
    BY DEF RunnerInv, OpeningFresh
  <1>4. closing = {} /\ ~stopRequested /\ ~(dailyLoss >= MaxDailyLoss)
    BY <1>1, GuardAssumption DEF RunnerInv, RunnerTypeOK, GuardStillHolds
  <1> QED BY <1>1, <1>2, <1>3, <1>4 DEF HeldInv

(* The other steps of a living process leave both lists alone.              *)
LEMMA QuietStepHeld ==
  ASSUME RunnerInv, HeldInv,
         \/ LoopStops \/ RuntimeExpires \/ ExecuteDone
         \/ RejectOpen \/ StopSession \/ OpenWithoutQuantity
         \/ SaveSnapshot
         \/ \E outcome \in OrderOutcomes : PlaceFirstLeg(outcome)
         \/ UNCHANGED runnerVars
  PROVE  HeldInv'
  <1>1. UNCHANGED <<openTrades, closing, activeOrders, dailyLoss, crashes>>
    BY DEF LoopStops, RuntimeExpires, ExecuteDone, RejectOpen, StopSession,
           OpenWithoutQuantity, SaveSnapshot, PlaceFirstLeg, runnerVars,
           engineVars, processVars, storeVars
  <1>2. pc # "down" => pc' # "down"
    BY DEF LoopStops, RuntimeExpires, ExecuteDone, RejectOpen, StopSession,
           OpenWithoutQuantity, SaveSnapshot, PlaceFirstLeg, runnerVars
  <1>3. closing = {} \/ opening' = opening
    BY DEF LoopStops, RuntimeExpires, ExecuteDone, RejectOpen, StopSession,
           OpenWithoutQuantity, SaveSnapshot, PlaceFirstLeg, Decided, runnerVars,
           engineVars
  <1>4. \/ stopRequested' = stopRequested
        \/ closing = {} /\ dailyLoss >= MaxDailyLoss
    <2>1. CASE StopSession
      BY <2>1, OrdersCounted, GuardAnswers DEF StopSession, Decided
    <2>2. CASE ~StopSession
      BY <2>2 DEF LoopStops, RuntimeExpires, ExecuteDone, RejectOpen,
             OpenWithoutQuantity, SaveSnapshot, PlaceFirstLeg, runnerVars, processVars
    <2> QED BY <2>1, <2>2
  <1> QED BY <1>1, <1>2, <1>3, <1>4 DEF HeldInv

LEMMA HeldInvariant == RunnerSpec => []HeldInv
  <1>1. RunnerInit => HeldInv
    BY DEF RunnerInit, EngineInit, HeldInv
  <1>2. ASSUME RunnerInv, HeldInv, [RunnerNext]_runnerVars PROVE HeldInv'
    <2>1. ASSUME NEW b \in Books, ProcessSnapshot(b) PROVE HeldInv'
      BY <1>2, <2>1, ProcessSnapshotHeld
    <2>2. ASSUME NEW t \in closing, NEW lossCycle \in BOOLEAN, ExecuteClose(t, lossCycle)
          PROVE  HeldInv'
      BY <1>2, <2>2, ExecuteCloseHeld
    <2>3. ASSUME NEW outcome \in OrderOutcomes, PlaceSecondLeg(outcome) PROVE HeldInv'
      BY <1>2, <2>3, PlaceSecondLegHeld
    <2>4. CASE Crash
      <3>1. crashes' # 0
        BY <1>2, <2>4 DEF Crash, RunnerInv, RunnerTypeOK
      <3> QED BY <3>1 DEF HeldInv
    <2>5. CASE CleanReset \/ Resume \/ ResumeFresh
      <3>1. pc = "down" /\ crashes' = crashes
        BY <2>5 DEF CleanReset, Resume, ResumeFresh, storeVars
      <3> QED BY <1>2, <3>1 DEF HeldInv
    <2>6. CASE \/ LoopStops \/ RuntimeExpires \/ ExecuteDone
               \/ RejectOpen \/ StopSession \/ OpenWithoutQuantity
               \/ SaveSnapshot
               \/ \E outcome \in OrderOutcomes : PlaceFirstLeg(outcome)
               \/ UNCHANGED runnerVars
      BY <1>2, <2>6, QuietStepHeld
    <2> QED BY <1>2, <2>1, <2>2, <2>3, <2>4, <2>5, <2>6 DEF RunnerNext, Loop, Execute
  <1> QED BY <1>1, <1>2, RunnerInvariant, PTL DEF RunnerSpec

(* Until the first restart the engine holds a trade for every position.     *)
THEOREM PositionsStayHeld == RunnerSpec => []PositionsHeldByEngine
  <1>1. HeldInv => PositionsHeldByEngine
    BY DEF HeldInv, PositionsHeldByEngine
  <1> QED BY <1>1, HeldInvariant, PTL

(* The guard stops a session only after the last position was closed. It    *)
(* rests on SingleDirection of the engine.                                  *)
THEOREM StopLeavesNoPosition == RunnerSpec => []StopFindsNoPosition
  <1>1. HeldInv => StopFindsNoPosition
    BY DEF HeldInv, StopFindsNoPosition
  <1> QED BY <1>1, HeldInvariant, PTL
=============================================================================
