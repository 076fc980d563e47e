--------------------------- MODULE LiveRunner ----------------------------
(***************************************************************************)
(* ArbitrageLiveRunner of arbitrage/live_runner.py: the loop that turns    *)
(* order books into trades (ArbitrageEngine), asks the RiskGuard, sends    *)
(* the two market orders of a trade to the two exchanges, books the result *)
(* of a closed trade, and saves and restores its state (D70).  It runs in  *)
(* run_forever or in the loop of arbitrage/multi_symbol_engine.py.         *)
(*                                                                         *)
(* The snapshot and the engine's answer to it are one action (nothing else *)
(* touches the runner at its two sleep(0) points), every trade executed is *)
(* one, and the two orders of a trade are two, because each of them may    *)
(* fail and the process may die between them.  The exchanges are external: *)
(* an order is accepted, or refused, or accepted although the call raises  *)
(* (the answer is lost).                                                   *)
(*                                                                         *)
(* Money is in tenths of a basis point of the notional, so that the forced *)
(* losses of the paper campaigns (50, 80 and 40 per cent) are integers.    *)
(***************************************************************************)
EXTENDS ArbitrageEngine, RiskGuard

CONSTANTS
  OrderOutcomes,  \* what an order may come to, a subset of Outcome
  LossTenths,     \* tenths of a gain a loss cycle turns into a loss: 0 outside
                  \* the campaigns, 5 in C3 and M1, 8 and 4 in M3
  RuntimeLimited, \* max_runtime_seconds (or max_iterations) is set
  HeedsStop,      \* the loop is run_forever; _run_for_symbol of the multi-symbol
                  \* engine never looks at _session_stop_requested
  MaxCrashes      \* bound of the model: process ends that are followed by a restart

Outcome == {"accepted", "refused", "lost"}

ASSUME RunnerAssumption ==
  /\ OrderOutcomes \subseteq Outcome
  /\ LossTenths \in {0, 4, 5, 8}
  /\ RuntimeLimited \in BOOLEAN
  /\ HeedsStop \in BOOLEAN
  /\ MaxCrashes \in Nat

VARIABLES
  pc,             \* where the process is in its loop
  activeOrders,   \* the keys of _active_orders
  dailyLoss,      \* _risk_guard.daily_loss_usd
  stopRequested,  \* _session_stop_requested
  counters,       \* the statistics of the runner, see Counters
  filled,         \* the orders the exchanges executed (external)
  snapshot,       \* the state saved last for the session in PostgreSQL, or none
  sessionLoss,    \* history: the losses booked since the session began
  crashes         \* restarts so far

processVars == <<activeOrders, dailyLoss, stopRequested, counters>>
storeVars == <<filled, snapshot, sessionLoss, crashes>>
runnerVars == <<engineVars, pc, processVars, storeVars>>

Pc == {"top", "execute", "firstLeg", "secondLeg", "stopped", "down"}

Counters == [opened : Nat,        \* _total_trades_opened
             closed : Nat,        \* _total_trades_closed
             winning : Nat,       \* _total_winning_trades
             totalPnl : Int,      \* _total_pnl_usd
             symbolPnl : Int,     \* _per_symbol_pnl of the symbol
             symbolOpened : Nat]  \* _per_symbol_trades_opened of the symbol

ZeroCounters == [opened |-> 0, closed |-> 0, winning |-> 0,
                 totalPnl |-> 0, symbolPnl |-> 0, symbolOpened |-> 0]

Leg == [id : Nat \ {0}, exchange : {"A", "B"}, order : {"BUY", "SELL"}]

Saved == [active : SUBSET (Nat \ {0}), loss : Nat, counters : Counters]

-----------------------------------------------------------------------------
(* The legs of a trade: it buys first, then sells on the other exchange. *)

FirstLeg(t) == [id |-> t.id, order |-> "BUY",
                exchange |-> IF t.side = "LONG_A_SHORT_B" THEN "A" ELSE "B"]

\* Slip: both orders of a trade go to the same exchange.
SecondLegSameExchange(t) == [FirstLeg(t) EXCEPT !.order = "SELL"]

SecondLeg(t) == [id |-> t.id, order |-> "SELL",
                 exchange |-> IF t.side = "LONG_A_SHORT_B" THEN "B" ELSE "A"]

\* What the books of the exchange show after an order came to an outcome.
Executed(leg, outcome) == IF outcome = "refused" THEN filled ELSE filled \cup {leg}

\* create_order raises unless the order was accepted and answered.
Raises(outcome) == outcome # "accepted"

\* execute_trades walks the list in order: trades opened earlier come first.
FirstToClose(t) == t \in closing /\ \A u \in closing : t.id <= u.id

\* The result _execute_close_trade books: a campaign turns part of a gain
\* into a loss during every second period of twenty seconds.
BookedPnl(t, lossCycle) ==
  IF lossCycle /\ LossTenths > 0 /\ ClosePnl(t) > 0
  THEN 0 - (ClosePnl(t) \div 10) * LossTenths
  ELSE ClosePnl(t)

\* Slip: a trade that closes flat is not taken off the list.
UntrackedUnlessFlat(t) ==
  IF ClosePnl(t) > 0 THEN activeOrders \ {t.id} ELSE activeOrders

\* A closed trade has no active orders any more, if it ever had.
Untracked(t) == activeOrders \ {t.id}

\* What a closed trade adds to the statistics.
Booked(c, pnl) == [c EXCEPT !.closed = @ + 1,
                            !.winning = IF pnl > 0 THEN @ + 1 ELSE @,
                            !.totalPnl = @ + pnl,
                            !.symbolPnl = @ + pnl]

\* execute_trades counts every trade it tried to open; a trade whose two
\* orders are there was already counted by _execute_open_trade.
Tried(c) == [c EXCEPT !.opened = @ + 1]
Tracked(c) == [c EXCEPT !.opened = @ + 2, !.symbolOpened = @ + 1]

\* What a result takes from the session, for the history variable.
LossOf(pnl) == IF pnl < 0 THEN 0 - pnl ELSE 0

-----------------------------------------------------------------------------
(* The loop, run_forever or _run_for_symbol, and the first half of run_once. *)

\* Slip: the stop is looked at with the running time only.
LoopStopsWithTheClock ==
  /\ pc = "top"
  /\ RuntimeLimited /\ HeedsStop /\ stopRequested
  /\ pc' = "stopped"
  /\ UNCHANGED <<engineVars, processVars, storeVars>>

\* The stop flag and the running time are looked at the loop top only, and the
\* flag by run_forever only.
LoopStops ==
  /\ pc = "top"
  /\ HeedsStop /\ stopRequested
  /\ pc' = "stopped"
  /\ UNCHANGED <<engineVars, processVars, storeVars>>

RuntimeExpires ==
  /\ pc = "top"
  /\ RuntimeLimited
  /\ HeedsStop => ~stopRequested
  /\ pc' = "stopped"
  /\ UNCHANGED <<engineVars, processVars, storeVars>>

\* A build_snapshot that fails changes nothing and the loop comes round again.
ProcessSnapshot(b) ==
  /\ pc = "top"
  /\ HeedsStop => ~stopRequested
  /\ OnSnapshot(b) \/ OnSnapshotRaises(b)
  /\ pc' = "execute"
  /\ UNCHANGED <<processVars, storeVars>>

-----------------------------------------------------------------------------
(* execute_trades: first the closed trades in their order, then the new one. *)

\* _execute_close_trade and the lines after it.  Nothing is sent to the
\* exchanges; the trade may never have been executed (see RejectOpen).
ExecuteClose(t, lossCycle) ==
  LET pnl == BookedPnl(t, lossCycle)
  IN  /\ pc = "execute"
      /\ FirstToClose(t)
      /\ counters' = Booked(counters, pnl)
      /\ dailyLoss' = UpdateDailyLoss(dailyLoss, pnl)
      /\ sessionLoss' = sessionLoss + LossOf(pnl)
      /\ activeOrders' = Untracked(t)
      /\ closing' = closing \ {t}
      /\ UNCHANGED <<openTrades, nextId, opening, pc, stopRequested,
                     filled, snapshot, crashes>>

\* The new trade is next, and the guard has spoken.
Decided(decision) ==
  /\ pc = "execute"
  /\ closing = {} /\ opening # {}
  /\ decision = CheckTradeAllowed(Cardinality(activeOrders), dailyLoss)

\* The engine is not told: the trade stays in its list as if it were open.
RejectOpen ==
  /\ Decided("TRADE_REJECTED")
  /\ opening' = {}
  /\ UNCHANGED <<openTrades, nextId, closing, pc, processVars, storeVars>>

StopSession ==
  /\ Decided("SESSION_STOP")
  /\ stopRequested' = TRUE
  /\ opening' = {}
  /\ UNCHANGED <<openTrades, nextId, closing, pc,
                 activeOrders, dailyLoss, counters, storeVars>>

\* No order is sent because the second snapshot, which the quantity is
\* computed from, cannot be built (the trade is counted as opened all the
\* same) or shows an ask of zero (the division raises before the count).
OpenWithoutQuantity ==
  /\ Decided("OK")
  /\ opening' = {}
  /\ counters' \in {Tried(counters), counters}
  /\ UNCHANGED <<openTrades, nextId, closing, pc,
                 activeOrders, dailyLoss, stopRequested, storeVars>>

\* The first create_order of _execute_open_trade.  An exception is caught
\* in the method, and execute_trades counts the trade as opened.
PlaceFirstLeg(outcome) ==
  /\ Decided("OK")
  /\ \E t \in opening : filled' = Executed(FirstLeg(t), outcome)
  /\ IF Raises(outcome)
     THEN /\ opening' = {}
          /\ counters' = Tried(counters)
          /\ pc' = pc
     ELSE /\ pc' = "secondLeg"
          /\ UNCHANGED <<opening, counters>>
  /\ UNCHANGED <<openTrades, nextId, closing, activeOrders, dailyLoss,
                 stopRequested, snapshot, sessionLoss, crashes>>

\* The second one.  If it raises, the first leg stays where it is and no
\* entry of _active_orders stands for it.
PlaceSecondLeg(outcome) ==
  /\ pc = "secondLeg"
  /\ \E t \in opening :
       /\ filled' = Executed(SecondLeg(t), outcome)
       /\ IF Raises(outcome)
          THEN /\ counters' = Tried(counters)
               /\ UNCHANGED activeOrders
          ELSE /\ counters' = Tracked(counters)
               /\ activeOrders' = activeOrders \cup {t.id}
  /\ opening' = {}
  /\ pc' = "execute"
  /\ UNCHANGED <<openTrades, nextId, closing, dailyLoss, stopRequested,
                 snapshot, sessionLoss, crashes>>

ExecuteDone ==
  /\ pc = "execute"
  /\ closing = {} /\ opening = {}
  /\ pc' = "top"
  /\ UNCHANGED <<engineVars, processVars, storeVars>>

-----------------------------------------------------------------------------
(* State persistence (D70). *)

CurrentState == [active |-> activeOrders, loss |-> dailyLoss, counters |-> counters]

\* _save_snapshot_to_db: one transaction, called by the driving script between
\* iterations or after the loop; an error rolls it back and changes nothing.
SaveSnapshot ==
  /\ pc \in {"top", "stopped"}
  /\ snapshot' = {CurrentState}
  /\ UNCHANGED <<engineVars, pc, processVars, filled, sessionLoss, crashes>>

\* The process ends, wherever it is, and with it everything it kept in memory.
Crash ==
  /\ pc # "down"
  /\ crashes < MaxCrashes
  /\ crashes' = crashes + 1
  /\ pc' = "down"
  /\ openTrades' = {} /\ closing' = {} /\ opening' = {}
  /\ activeOrders' = {}
  /\ dailyLoss' = 0
  /\ stopRequested' = FALSE
  /\ counters' = ZeroCounters
  /\ UNCHANGED <<nextId, filled, snapshot, sessionLoss>>

\* _initialize_session("CLEAN_RESET"): a new session_id, no rows yet.
CleanReset ==
  /\ pc = "down"
  /\ pc' = "top"
  /\ snapshot' = {}
  /\ sessionLoss' = 0
  /\ UNCHANGED <<engineVars, processVars, filled, crashes>>

\* Slip: the guard is not part of what is restored.
ResumeWithoutGuard ==
  /\ pc = "down"
  /\ pc' = "top"
  /\ \E s \in snapshot : activeOrders' = s.active /\ counters' = s.counters
  /\ UNCHANGED <<engineVars, stopRequested, dailyLoss, storeVars>>

\* _initialize_session("RESUME_FROM_STATE") with a snapshot: counters, active
\* orders and the guard come back; the list of the engine, which is what
\* closes trades, and the stop flag do not.
Resume ==
  /\ pc = "down"
  /\ pc' = "top"
  /\ \E s \in snapshot : /\ activeOrders' = s.active
                         /\ dailyLoss' = s.loss
                         /\ counters' = s.counters
  /\ UNCHANGED <<engineVars, stopRequested, storeVars>>

\* The same without one, or with a database that cannot be read: the session
\* keeps its name and starts from nothing.
ResumeFresh ==
  /\ pc = "down"
  /\ pc' = "top"
  /\ UNCHANGED <<engineVars, processVars, storeVars>>

-----------------------------------------------------------------------------
RunnerInit ==
  /\ EngineInit
  /\ pc = "top"
  /\ activeOrders = {}
  /\ dailyLoss = 0
  /\ stopRequested = FALSE
  /\ counters = ZeroCounters
  /\ filled = {}
  /\ snapshot = {}
  /\ sessionLoss = 0
  /\ crashes = 0

Execute ==
  \/ \E t \in closing, lossCycle \in BOOLEAN : ExecuteClose(t, lossCycle)
  \/ RejectOpen
  \/ StopSession
  \/ OpenWithoutQuantity
  \/ \E outcome \in OrderOutcomes : PlaceFirstLeg(outcome) \/ PlaceSecondLeg(outcome)
  \/ ExecuteDone

\* run_forever, or the loop of one symbol in the multi-symbol engine: every
\* symbol there has a runner, an engine and a guard of its own.
Loop ==
  \/ LoopStops
  \/ \E b \in Books : ProcessSnapshot(b)
  \/ Execute

RunnerNext ==
  \/ Loop
  \/ RuntimeExpires
  \/ SaveSnapshot
  \/ Crash
  \/ CleanReset
  \/ Resume
  \/ ResumeFresh

RunnerSpec == RunnerInit /\ [][RunnerNext]_runnerVars

-----------------------------------------------------------------------------
(* Safety. *)

\* Types of the runner's state; nothing is being executed outside
\* execute_trades, and a saved row set has the shape of a state.
RunnerTypeOK ==
  /\ EngineTypeOK
  /\ pc \in Pc
  /\ activeOrders \subseteq 1 .. (nextId - 1)
  /\ dailyLoss \in Nat
  /\ stopRequested \in BOOLEAN
  /\ counters \in Counters
  /\ filled \subseteq Leg
  /\ snapshot \subseteq Saved
  /\ sessionLoss \in Nat
  /\ crashes \in Nat
  /\ pc \in {"top", "stopped", "down"} => closing = {} /\ opening = {}
  /\ pc = "secondLeg" => opening # {}
  /\ Cardinality(opening) <= 1

\* The positions the runner keeps orders for stay within the limit of the
\* guard, also when a snapshot brings them back after a crash.
ActiveOrdersBounded == Cardinality(activeOrders) <= GuardMaxOpenTrades

\* Whatever the exchanges answer, an entry of _active_orders stands for two
\* executed orders of opposite direction on the two exchanges.
ActiveOrdersHedged ==
  \A id \in activeOrders : \E buy, sell \in filled :
    /\ buy.id = id /\ sell.id = id
    /\ buy.order = "BUY" /\ sell.order = "SELL"
    /\ buy.exchange # sell.exchange

\* The ledgers agree: the session's PnL is the PnL of the symbol (D67), and a
\* negative PnL never exceeds what the guard counted as loss, forced losses
\* and restored sessions included.
LedgersAgree ==
  /\ counters.totalPnl = counters.symbolPnl
  /\ 0 - counters.totalPnl <= dailyLoss
  /\ counters.winning <= counters.closed

\* The guard never counts a loss the session did not have.
LossNotOvercounted == dailyLoss <= sessionLoss

\* Until the first restart every position has a trade in the engine's list
\* (or just closed by it), which is what will one day close the position.
PositionsHeldByEngine ==
  crashes = 0 => activeOrders \subseteq {t.id : t \in openTrades \cup closing}

\* The guard's stop never abandons a position: the result that takes the loss
\* to the limit closes a reversed direction, and with it all that is open; a
\* loop that runs on after the stop opens none again.
StopFindsNoPosition ==
  CloseOnReversal /\ crashes = 0 /\ stopRequested => activeOrders = {}

\* No order leaves for an exchange once the counted loss reached the limit,
\* not even the second leg of a trade under way.
NoOrderBeyondLossLimit ==
  [][filled' # filled => dailyLoss < MaxDailyLoss]_runnerVars

\* A requested stop holds until the process ends: no order, no withdrawal.
StopIsFinal ==
  [][stopRequested /\ pc' # "down" => stopRequested' /\ filled' = filled]_runnerVars

\* Orders are sent for trades the engine holds, before they have a position.
OrdersForHeldTrades ==
  [][\A leg \in filled' \ filled :
       /\ \E t \in openTrades : t.id = leg.id
       /\ leg.id \notin activeOrders]_runnerVars

-----------------------------------------------------------------------------
(* The runner implements TradingSession. *)

Session == INSTANCE TradingSession WITH
  MaxPositions <- GuardMaxOpenTrades,
  LossLimit <- MaxDailyLoss,
  up <- pc # "down",
  halted <- stopRequested,
  positions <- activeOrders,
  loss <- dailyLoss,
  saved <- {[positions |-> s.active, loss |-> s.loss] : s \in snapshot}

\* Two orders that may each fail, a close that only books, a save that may
\* come too late and a restart that restores parts: seen from outside it is a
\* session that opens one position at a time, under its limits.
SessionRefined == Session!Spec

-----------------------------------------------------------------------------
(* Liveness.  The loop runs on: nothing but max_runtime_seconds, a stop or  *)
(* the end of the process keeps it from its next step.                      *)

FairRunnerSpec == RunnerSpec /\ WF_runnerVars(Loop)

\* Each direction reverses again and again in the books the loop processes.
ReversalsRecur ==
  \A side \in Side :
    []<><<\E b \in Books : /\ ValidBook(b)
                           /\ Spread(b, side) < 0
                           /\ ProcessSnapshot(b)>>_runnerVars

\* Every position is closed in the end as long as spreads keep reversing.
PositionsClose ==
  ReversalsRecur =>
    \A id \in 1 .. MaxTrades : id \in activeOrders ~> id \notin activeOrders

\* A stop the guard asked for ends the loop.
StopEndsLoop == stopRequested ~> pc \in {"stopped", "down"}
=============================================================================
