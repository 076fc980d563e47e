------------------------- MODULE ArbitrageEngine -------------------------
(***************************************************************************)
(* The decision core of arbitrage/arbitrage_core.py.  ArbitrageEngine      *)
(* keeps the list of the trades it believes are open; on every order book  *)
(* snapshot it closes the trades whose spread has turned negative and then *)
(* opens at most one new trade.                                            *)
(*                                                                         *)
(* Data.  A book holds the four best quotes, those of exchange B already   *)
(* multiplied by exchange_a_to_b_rate.  Spreads are floored to an integer  *)
(* number of basis points: the floor of a spread is negative exactly when  *)
(* the spread is, and is below an integer cost exactly when the spread is, *)
(* so every branch of the code is decided as in floating point.  A trade   *)
(* is named by its open_timestamp, the time of its snapshot: an increasing *)
(* integer here, on the assumption that no two snapshots share a time.     *)
(***************************************************************************)
EXTENDS Integers, FiniteSets

CONSTANTS
  Books,            \* the order book snapshots the exchanges may show
  BpsScale,         \* 10_000 in the code; smaller for a coarser unit
  CostBps,          \* taker_fee_a_bps + taker_fee_b_bps + slippage_bps
  MaxOpenTrades,    \* ArbitrageConfig.max_open_trades
  CloseOnReversal,  \* ArbitrageConfig.close_on_spread_reversal
  MaxTrades         \* bound of the model: trades opened in a behaviour

ASSUME EngineAssumption ==
  /\ Books \subseteq [bidA : Nat, askA : Nat, bidB : Nat, askB : Nat]
  /\ BpsScale \in Nat \ {0}
  /\ CostBps \in Nat
  /\ MaxOpenTrades \in Nat
  /\ CloseOnReversal \in BOOLEAN
  /\ MaxTrades \in Nat

VARIABLES
  openTrades,  \* _open_trades
  nextId,      \* the open_timestamp of the next trade
  closing,     \* trades_changed, the part just closed and not yet executed
  opening      \* trades_changed, the trade just opened (at most one)

engineVars == <<openTrades, nextId, closing, opening>>

Side == {"LONG_A_SHORT_B", "LONG_B_SHORT_A"}
Trade == [id : Nat \ {0}, side : Side, entry : Nat]

-----------------------------------------------------------------------------
(* Spreads and the detection of an opportunity. *)

\* What the side pays for the leg it buys, and what it gets for the other.
BuyQuote(b, side)  == IF side = "LONG_A_SHORT_B" THEN b.askA ELSE b.askB
SellQuote(b, side) == IF side = "LONG_A_SHORT_B" THEN b.bidB ELSE b.bidA

Spread(b, side) ==
  ((SellQuote(b, side) - BuyQuote(b, side)) * BpsScale) \div BuyQuote(b, side)

\* All quotes positive and neither book crossed.
ValidBook(b) ==
  /\ b.bidA > 0 /\ b.askA > 0 /\ b.bidB > 0 /\ b.askB > 0
  /\ b.bidA < b.askA
  /\ b.bidB < b.askB

BestSide(b) ==
  IF Spread(b, "LONG_A_SHORT_B") >= Spread(b, "LONG_B_SHORT_A")
  THEN "LONG_A_SHORT_B" ELSE "LONG_B_SHORT_A"

-----------------------------------------------------------------------------
(* Slips a change to arbitrage_core.py could make; the properties below must *)
(* fail when the definition of the code is replaced by one of these.         *)

\* The cost check is dropped: any book that is not crossed opens a trade.
DetectWithoutEdge(b, held) ==
  ValidBook(b) /\ Cardinality(held) < MaxOpenTrades

\* The close pass forgets the trades of the second direction.
CloseFirstSideOnly(b) ==
  {t \in openTrades : /\ CloseOnReversal
                      /\ t.side = "LONG_A_SHORT_B"
                      /\ Spread(b, t.side) < 0}

-----------------------------------------------------------------------------
(* The decisions of the engine. *)

\* min_spread_bps is not consulted: any edge that covers the costs will do.
DetectOpportunity(b, held) ==
  /\ ValidBook(b)
  /\ Spread(b, BestSide(b)) - CostBps >= 0
  /\ Cardinality(held) < MaxOpenTrades

\* ArbitrageTrade.close with the exit spread of 0.0 that on_snapshot passes,
\* in tenths of a basis point of the notional.
ClosePnl(t) == 10 * (t.entry - 0 - CostBps)

-----------------------------------------------------------------------------
(* on_snapshot. *)

TradesToClose(b) ==
  {t \in openTrades : CloseOnReversal /\ Spread(b, t.side) < 0}

NewTrade(b) ==
  [id |-> nextId, side |-> BestSide(b), entry |-> Spread(b, BestSide(b))]

\* A zero ask divides by zero while the spread of an open trade is computed.
ZeroDivision(b) ==
  CloseOnReversal /\ \E t \in openTrades : BuyQuote(b, t.side) = 0

OnSnapshot(b) ==
  LET held == openTrades \ TradesToClose(b)
      new  == IF DetectOpportunity(b, held) THEN {NewTrade(b)} ELSE {}
  IN  /\ ~ZeroDivision(b)
      /\ new # {} => nextId <= MaxTrades
      /\ openTrades' = held \cup new
      /\ closing' = TradesToClose(b)
      /\ opening' = new
      /\ nextId' = IF new = {} THEN nextId ELSE nextId + 1

\* The exception leaves on_snapshot before any trade is touched; the caller
\* (process_snapshot) swallows it and goes on with an empty list.
OnSnapshotRaises(b) ==
  /\ ZeroDivision(b)
  /\ closing' = {}
  /\ opening' = {}
  /\ UNCHANGED <<openTrades, nextId>>

EngineInit ==
  /\ openTrades = {}
  /\ nextId = 1
  /\ closing = {}
  /\ opening = {}

EngineNext == \E b \in Books : OnSnapshot(b) \/ OnSnapshotRaises(b)

EngineSpec == EngineInit /\ [][EngineNext]_engineVars

-----------------------------------------------------------------------------
(* Properties. *)

\* Types: the engine holds trades with an identifier below the next one.
EngineTypeOK ==
  /\ openTrades \subseteq Trade
  /\ nextId \in Nat \ {0}
  /\ closing \subseteq Trade
  /\ opening \subseteq Trade
  /\ \A t \in openTrades \cup closing \cup opening : t.id < nextId

\* The list on_snapshot keeps never outgrows max_open_trades, although
\* closing and opening happen in one call and the count is taken in between.
OpenTradesBounded ==
  /\ IsFiniteSet(openTrades)
  /\ Cardinality(openTrades) <= MaxOpenTrades

\* The engine never holds both directions at once: a valid book cannot favour
\* both sides, and the books that do not favour a held side close it first.
SingleDirection ==
  CloseOnReversal => \A t, u \in openTrades : t.side = u.side

\* A closed trade never books a loss.  A trade opens only when its entry
\* spread covers the costs and closes at an exit spread of zero, so the daily
\* loss limit of the runner is out of reach of the engine's own results.
NoLossAtClose == \A t \in openTrades \cup closing : ClosePnl(t) >= 0

\* A snapshot never reopens the side it has just closed.
NoReopenOnReversal ==
  [][\A t \in closing', u \in opening' : t.side # u.side]_engineVars
=============================================================================
