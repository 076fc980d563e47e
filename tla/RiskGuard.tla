---------------------------- MODULE RiskGuard ----------------------------
(***************************************************************************)
(* RiskGuard of arbitrage/live_runner.py: the decision taken before an     *)
(* order is sent, and the loss counter it is taken from.  The state        *)
(* (daily_loss_usd) is a variable of the runner that owns the guard.       *)
(***************************************************************************)
EXTENDS Integers

CONSTANTS
  PositionUsd,          \* notional of every trade: max_position_usd
  MaxNotionalPerTrade,  \* RiskLimits.max_notional_per_trade
  MaxDailyLoss,         \* RiskLimits.max_daily_loss
  GuardMaxOpenTrades    \* RiskLimits.max_open_trades

ASSUME GuardAssumption ==
  /\ PositionUsd \in Nat
  /\ MaxNotionalPerTrade \in Nat
  /\ MaxDailyLoss \in Nat
  /\ GuardMaxOpenTrades \in Nat

\* Slips: each of the two limits admits one step too many.
CheckOnePositionMore(numActiveOrders, loss) ==
  IF \/ PositionUsd > MaxNotionalPerTrade
     \/ numActiveOrders > GuardMaxOpenTrades
  THEN "TRADE_REJECTED"
  ELSE IF loss >= MaxDailyLoss THEN "SESSION_STOP" ELSE "OK"

CheckAtTheLimit(numActiveOrders, loss) ==
  IF \/ PositionUsd > MaxNotionalPerTrade
     \/ numActiveOrders >= GuardMaxOpenTrades
  THEN "TRADE_REJECTED"
  ELSE IF loss > MaxDailyLoss THEN "SESSION_STOP" ELSE "OK"

\* The checks in their order: while the slots are full the loss is not even
\* looked at, so a guard beyond its limit answers TRADE_REJECTED.
CheckTradeAllowed(numActiveOrders, loss) ==
  IF \/ PositionUsd > MaxNotionalPerTrade
     \/ numActiveOrders >= GuardMaxOpenTrades
  THEN "TRADE_REJECTED"
  ELSE IF loss >= MaxDailyLoss THEN "SESSION_STOP" ELSE "OK"

\* Only losses count, gains never reduce the counter.
UpdateDailyLoss(loss, pnl) == IF pnl < 0 THEN loss - pnl ELSE loss
=============================================================================
