---------------------------- MODULE PaperRunner ----------------------------
(***************************************************************************)
(* The paper campaign over the top symbols: the loop of                    *)
(* scripts/run_d77_0_topn_arbitrage_paper.py with its ExitStrategy         *)
(* (domain/exit_strategy.py) and its PaperExecutor (execution/executor.py) *)
(* with a fill model (execution/fill_model.py).                            *)
(*                                                                         *)
(* One symbol stands for the universe: a round tries to enter its first    *)
(* symbol only.  A round reads the book twice, once to enter and once for  *)
(* each open position, and the book may have changed or show nothing.      *)
(* Quantities are integers that no fill rounds, and PnL is counted in      *)
(* ten-thousandths, so that a price moved by basis points is one too.      *)
(* What the executor keeps of a trade is read by nothing here and left out.*)
(***************************************************************************)
EXTENDS Integers, FiniteSets, FiniteSetsExt

CONSTANTS
  Quotes,     \* best bids and asks, as [bid, ask]
  FillModels, \* what a fill model may be configured to, as [pct, buyBps, sellBps]:
              \* the part of an order it fills, in per cent, and the slippage
  EntryBps, TpBps, SlBps, ReversalBps,
  MaxHold,    \* max_hold_time_seconds, in sleeps of the loop
  Notional,   \* max_notional_per_trade
  MaxConcurrent,  \* entry_max_concurrent_positions
  KillLimit,  \* the loss at which the kill switch ends the run, in the unit of PnL
  MaxEntries  \* bound

ASSUME PaperAssumption ==
  /\ Quotes \subseteq [bid : Nat, ask : Nat]
  /\ \A q \in Quotes : 0 < q.bid /\ q.bid <= q.ask /\ Notional % q.bid = 0
  /\ FillModels \subseteq [pct : Nat, buyBps : Nat, sellBps : Nat]
  /\ \A m \in FillModels : m.pct <= 100 /\ m.sellBps <= 10000
  /\ {TpBps, SlBps, MaxHold, Notional, MaxConcurrent, KillLimit} \subseteq Nat \ {0}

VARIABLES
  pc,         \* "entry", "exit" or "stopped"
  positions,  \* the positions of the ExitStrategy, by id
  toCheck,    \* those of them this round still looks at
  metrics,
  fill        \* what the fill model was configured to: constant

paperVars == <<pc, positions, toCheck, metrics, fill>>

-----------------------------------------------------------------------------
(* PaperExecutor.execute_trades for one trade *)

\* Without order books the fill model takes the available volume for a
\* multiple of the order, so that the same part of every order is filled,
\* of the two orders of a trade alike, and its price always slips by as much.
Filled(quantity) == (quantity * fill.pct) \div 100

\* _calculate_slippage: an order is filled at a worse price than the book shows,
\* in ten-thousandths here.
BuyAt(price)  == price * (10000 + fill.buyBps)
SellAt(price) == price * (10000 - fill.sellBps)

Result(quantity, buyPrice, sellPrice) ==
  LET filled == Filled(quantity)
  IN [status   |-> IF filled = 0 THEN "failed"
                   ELSE IF filled < quantity THEN "partial" ELSE "success",
      quantity |-> filled,
      pnl      |-> (SellAt(sellPrice) - BuyAt(buyPrice)) * filled]

-----------------------------------------------------------------------------
(* ExitStrategy *)

SpreadBps(q) == (20000 * (q.ask - q.bid)) \div (q.bid + q.ask)

\* _calculate_pnl_percent, times 100 and times the entry's bid
PnlBps(p, q) == 10000 * ((q.bid - p.quote.bid) - (q.ask - p.quote.ask))

ExitReason(p, q) ==
  IF PnlBps(p, q) >= TpBps * p.quote.bid THEN "take_profit"
  ELSE IF PnlBps(p, q) <= -(SlBps * p.quote.bid) THEN "stop_loss"
  ELSE IF p.held >= MaxHold THEN "time_limit"
  ELSE IF SpreadBps(q) < ReversalBps THEN "spread_reversal"
  ELSE "none"

Position(q, quantity) == [quote |-> q, size |-> quantity, held |-> 0]

With(i, position) ==
  [j \in DOMAIN positions \cup {i} |-> IF j = i THEN position ELSE positions[j]]

-----------------------------------------------------------------------------
(* Slips of a change to the runner; see the README. *)

\* The symbols of open positions are not left out.
MayEnterAgain == Cardinality(DOMAIN positions) < MaxConcurrent

\* A partial fill is counted and not registered.
RegisterWholeOnly(result, q) ==
  IF result.status = "success" THEN positions' = With(metrics.entries, Position(q, result.quantity))
  ELSE UNCHANGED positions

\* The time a position was held is forgotten with every new look at it.
NotOlder(p, time) == p

-----------------------------------------------------------------------------
(* run *)

KillSwitch ==
  /\ pc = "entry" /\ metrics.pnl <= -KillLimit
  /\ pc' = "stopped"
  /\ UNCHANGED <<positions, toCheck, metrics, fill>>

TimeIsUp ==
  /\ pc = "entry"
  /\ pc' = "stopped"
  /\ UNCHANGED <<positions, toCheck, metrics, fill>>

\* The symbol has no open position, and there are not too many of any.
MayEnter == positions = << >> /\ Cardinality(DOMAIN positions) < MaxConcurrent

Register(result, q) ==
  positions' = With(metrics.entries, Position(q, result.quantity))

\* The entry buys at the bid and sells at the ask.
Enter(q) ==
  LET result == Result(Notional \div q.bid, q.bid, q.ask)
  IN /\ pc = "entry" /\ metrics.pnl > -KillLimit
     /\ MayEnter
     /\ SpreadBps(q) >= EntryBps
     /\ metrics.entries < MaxEntries
     /\ IF result.status \in {"success", "partial"}
        THEN /\ Register(result, q)
             /\ metrics' = [metrics EXCEPT !.entries = @ + 1]
        ELSE UNCHANGED <<positions, metrics>>
     /\ pc' = "exit" /\ toCheck' = DOMAIN positions'
     /\ UNCHANGED fill

\* The symbol is taken, its book shows nothing, or its spread is too small.
NoEntry ==
  /\ pc = "entry" /\ metrics.pnl > -KillLimit
  /\ pc' = "exit" /\ toCheck' = DOMAIN positions
  /\ UNCHANGED <<positions, metrics, fill>>

\* The positions are looked at in the order they were entered.
IsNext(i) == i \in toCheck /\ \A j \in toCheck : i <= j

Hold(i, q) ==
  /\ pc = "exit" /\ IsNext(i)
  /\ ExitReason(positions[i], q) = "none"
  /\ toCheck' = toCheck \ {i}
  /\ UNCHANGED <<pc, positions, metrics, fill>>

\* The exit buys at the ask and sells at the bid; the position is gone
\* however much of it was filled, and only this PnL is counted.
Exit(i, q) ==
  LET result == Result(positions[i].size, q.ask, q.bid)
  IN /\ pc = "exit" /\ IsNext(i)
     /\ ExitReason(positions[i], q) # "none"
     /\ positions' = [j \in DOMAIN positions \ {i} |-> positions[j]]
     /\ metrics' = [metrics EXCEPT !.roundTrips = @ + 1,
                                   !.pnl = @ + result.pnl,
                                   !.wins = @ + (IF result.pnl > 0 THEN 1 ELSE 0),
                                   !.losses = @ + (IF result.pnl > 0 THEN 0 ELSE 1)]
     /\ toCheck' = toCheck \ {i}
     /\ UNCHANGED <<pc, fill>>

\* No spread data.
NoExitCheck(i) ==
  /\ pc = "exit" /\ IsNext(i)
  /\ toCheck' = toCheck \ {i}
  /\ UNCHANGED <<pc, positions, metrics, fill>>

\* Held longer than the maximum is held as long as it.
Older(p, time) == [p EXCEPT !.held = Min({@ + time, MaxHold})]

\* A round takes as long as its sleep, or longer.
Sleep ==
  /\ pc = "exit" /\ toCheck = {}
  /\ pc' = "entry"
  /\ \E time \in 1 .. MaxHold :
       positions' = [i \in DOMAIN positions |-> Older(positions[i], time)]
  /\ UNCHANGED <<toCheck, metrics, fill>>

-----------------------------------------------------------------------------
PaperInit ==
  /\ pc = "entry"
  /\ positions = << >> /\ toCheck = {}
  /\ metrics = [entries |-> 0, roundTrips |-> 0, wins |-> 0, losses |-> 0, pnl |-> 0]
  /\ fill \in FillModels

CheckExit(i) == \E q \in Quotes : Hold(i, q) \/ Exit(i, q)

Round ==
  \/ KillSwitch \/ NoEntry \/ Sleep
  \/ \E q \in Quotes : Enter(q)
  \/ \E i \in toCheck : CheckExit(i) \/ NoExitCheck(i)

PaperNext == TimeIsUp \/ Round
PaperSpec == PaperInit /\ [][PaperNext]_paperVars

\* The loop goes round, and the book of an open position shows prices again
\* and again when it is looked at.
FairPaperSpec ==
  /\ PaperSpec
  /\ WF_paperVars(Round)
  /\ \A i \in 0 .. MaxEntries : SF_paperVars(i \in toCheck /\ CheckExit(i))

-----------------------------------------------------------------------------

(* Every entry is open or one round trip, and every round trip won or lost:  *)
(* partial fills and failed orders leave no entry that no exit will count.   *)
RoundTripsAgree ==
  /\ metrics.entries = metrics.roundTrips + Cardinality(DOMAIN positions)
  /\ metrics.roundTrips = metrics.wins + metrics.losses

(* The kill switch is looked at once a round and PnL is booked by exits: the *)
(* loss goes past its limit by less than one exit can lose: the spread and   *)
(* what both its orders slip, on the largest position the notional allows.   *)
ExitLoss(p, q) == (BuyAt(q.ask) - SellAt(q.bid)) * (Notional \div p.bid)
LossBounded ==
  \/ metrics.pnl > -KillLimit
  \/ \E p, q \in Quotes : metrics.pnl > -(KillLimit + ExitLoss(p, q))

(* A position is left in the end, whatever its book does, or the run ends.   *)
PositionsExit ==
  \A i \in 0 .. MaxEntries : i \in DOMAIN positions ~> (i \notin DOMAIN positions \/ pc = "stopped")

=============================================================================
