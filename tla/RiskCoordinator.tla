-------------------------- MODULE RiskCoordinator --------------------------
(***************************************************************************)
(* MultiSymbolRiskCoordinator and its guards                               *)
(* (arbitrage/risk/multi_symbol_risk_guard.py): every trade is checked by  *)
(* the global, the portfolio and the symbol guard in turn, and its entry   *)
(* and exit are booked with all three.                                     *)
(*                                                                         *)
(* The caller has one task per symbol, as MultiSymbolEngineRunner has: it  *)
(* asks, waits for its orders, and books the entry.  So between a check    *)
(* and its booking the tasks of the other symbols may check and book.      *)
(* Time is modelled by what it ends: a cooldown, and the rest of a circuit *)
(* breaker.  Amounts are integers; of what only get_stats reads, the       *)
(* exposure of a symbol guard is kept, and the counters are left out.      *)
(***************************************************************************)
EXTENDS Integers, FiniteSets, Sums

CONSTANTS
  Symbols, Sizes, Losses,
  Allocation,      \* symbol_allocations, by allocate_capital; 0 without one
  MaxExposure,     \* max_total_exposure_usd
  MaxDailyLoss, EmergencyLoss,
  MaxSize, MaxCount, MaxSymbolLoss,
  LossCount,       \* circuit_breaker_loss_count
  LossBound,       \* bound of the model: no more losses beyond it
  EntryBound       \* bound of the model: what a symbol may enter in all

ASSUME CoordinatorAssumption ==
  /\ IsFiniteSet(Symbols) /\ IsFiniteSet(Sizes)
  /\ Sizes \subseteq Nat \ {0} /\ Losses \subseteq Nat \ {0}
  /\ Allocation \in [Symbols -> Nat]
  /\ {MaxExposure, MaxSize, MaxCount, LossBound, EntryBound} \subseteq Nat
  /\ {MaxDailyLoss, EmergencyLoss, MaxSymbolLoss, LossCount} \subseteq Nat \ {0}

VARIABLES
  exposure, dailyLoss, emergency,   \* the state of the global guard
  symbolExposure,                   \* the state of the portfolio guard
  guarded,                          \* the symbols that have a SymbolGuard
  positions, symbolLoss, streak, breaker, cooling,  \* its state
  guardExposure,                    \* and its current_exposure_usd
  decision,                         \* what the task of a symbol was told last
  pending,                          \* a size it was allowed and has not booked, or 0
  open, exited                      \* history: the positions it has, by size,
                                    \* and the sum of those it has left

globalVars == <<exposure, dailyLoss, emergency>>
symbolVars == <<positions, symbolLoss, streak, breaker, cooling, guardExposure>>
historyVars == <<open, exited>>
taskVars == <<decision, pending, historyVars>>
vars == <<globalVars, symbolExposure, guarded, symbolVars, taskVars>>

Funded == {s \in Symbols : Allocation[s] > 0}
Total(f) == SumOver(f, DOMAIN f)
Held(s) == Total([size \in Sizes |-> size * open[s][size]])
Count(s) == Total(open[s])

-----------------------------------------------------------------------------
(* Slips of a change to the guards; see the README. *)

\* The size is left out of the sum.
PortfolioCheckLoose(s, size) == IF symbolExposure[s] > Allocation[s] THEN "REJECTED_PORTFOLIO" ELSE "OK"
GlobalCheckLoose(size) ==
  IF emergency \/ dailyLoss >= EmergencyLoss THEN "SESSION_STOP"
  ELSE IF dailyLoss >= MaxDailyLoss \/ exposure > MaxExposure THEN "REJECTED_GLOBAL"
  ELSE "OK"

\* The breaker is released by the check, whether or not it has rested.
ReleasedEarly(s) == breaker[s] # "off"

\* The portfolio guard is told of losing exits only.
ReleaseAfterLoss(s, size, pnl) ==
  /\ exposure' = exposure - size
  /\ symbolExposure' = [symbolExposure EXCEPT ![s] = @ - (IF pnl < 0 THEN size ELSE 0)]

-----------------------------------------------------------------------------
(* The three checks.  A symbol that has no guard passes the third. *)

GlobalCheck(size) ==
  IF emergency \/ dailyLoss >= EmergencyLoss THEN "SESSION_STOP"
  ELSE IF dailyLoss >= MaxDailyLoss \/ exposure + size > MaxExposure THEN "REJECTED_GLOBAL"
  ELSE "OK"

PortfolioCheck(s, size) ==
  IF symbolExposure[s] + size > Allocation[s] THEN "REJECTED_PORTFOLIO" ELSE "OK"

\* A breaker that has rested is released by the check.
Released(s) == breaker[s] = "rested"

SymbolCheck(s, size) ==
  IF \/ breaker[s] # "off" /\ ~Released(s)
     \/ cooling[s]
     \/ size > MaxSize
     \/ positions[s] >= MaxCount
     \/ symbolLoss[s] >= MaxSymbolLoss
  THEN "REJECTED_SYMBOL" ELSE "OK"

\* check_trade_allowed.  The release of a breaker stands even if a later test
\* of the same check rejects the trade.
Answer(s, size) ==
  IF GlobalCheck(size) # "OK" THEN GlobalCheck(size)
  ELSE IF PortfolioCheck(s, size) # "OK" THEN PortfolioCheck(s, size)
  ELSE IF s \in guarded THEN SymbolCheck(s, size) ELSE "OK"

AsksSymbol(s, size) ==
  s \in guarded /\ GlobalCheck(size) = "OK" /\ PortfolioCheck(s, size) = "OK"

CheckTradeAllowed(s, size) ==
  /\ pending[s] = 0
  /\ decision' = [decision EXCEPT ![s] = Answer(s, size)]
  /\ pending' = [pending EXCEPT ![s] = IF Answer(s, size) = "OK" THEN size ELSE 0]
  /\ emergency' = (GlobalCheck(size) = "SESSION_STOP")
  /\ IF AsksSymbol(s, size) /\ Released(s)
     THEN /\ breaker' = [breaker EXCEPT ![s] = "off"]
          /\ streak' = [streak EXCEPT ![s] = 0]
     ELSE UNCHANGED <<breaker, streak>>
  /\ UNCHANGED <<exposure, dailyLoss, symbolExposure, guarded, positions, symbolLoss, cooling,
                 guardExposure, historyVars>>

-----------------------------------------------------------------------------
(* on_trade_entry and on_trade_exit *)

\* on_entry of the symbol guard
BookEntry(s, size) ==
  IF s \notin guarded THEN UNCHANGED <<positions, cooling, guardExposure>>
  ELSE /\ positions' = [positions EXCEPT ![s] = @ + 1]
       /\ cooling' = [cooling EXCEPT ![s] = TRUE]
       /\ guardExposure' = [guardExposure EXCEPT ![s] = @ + size]

OnTradeEntry(s) ==
  /\ pending[s] # 0
  /\ exposure' = exposure + pending[s]
  /\ symbolExposure' = [symbolExposure EXCEPT ![s] = @ + pending[s]]
  /\ BookEntry(s, pending[s])
  /\ pending' = [pending EXCEPT ![s] = 0]
  /\ open' = [open EXCEPT ![s][pending[s]] = @ + 1]
  /\ UNCHANGED <<dailyLoss, emergency, guarded, symbolLoss, streak, breaker, decision, exited>>

\* The orders failed: nothing is booked.
EntryFails(s) ==
  /\ pending[s] # 0
  /\ pending' = [pending EXCEPT ![s] = 0]
  /\ UNCHANGED <<globalVars, symbolExposure, guarded, symbolVars, decision, historyVars>>

ReleaseExposure(s, size, pnl) ==
  /\ exposure' = exposure - size
  /\ symbolExposure' = [symbolExposure EXCEPT ![s] = @ - size]

\* on_exit of the symbol guard: the count, the losses in a row and the breaker.
\* Its current_exposure_usd is not reduced.
BookPnl(s, pnl) ==
  /\ UNCHANGED guardExposure
  /\ IF s \notin guarded THEN UNCHANGED <<positions, symbolLoss, streak, breaker>>
     ELSE /\ positions' = [positions EXCEPT ![s] = IF @ > 0 THEN @ - 1 ELSE 0]
          /\ streak' = [streak EXCEPT ![s] = IF pnl < 0 THEN @ + 1 ELSE 0]
          /\ symbolLoss' = [symbolLoss EXCEPT ![s] = IF pnl < 0 THEN @ - pnl ELSE @]
          /\ breaker' = [breaker EXCEPT ![s] =
               IF pnl < 0 /\ streak[s] + 1 >= LossCount THEN "on" ELSE @]

OnTradeExit(s, size, pnl) ==
  /\ open[s][size] > 0
  /\ open' = [open EXCEPT ![s][size] = @ - 1]
  /\ exited' = [exited EXCEPT ![s] = @ + size]
  /\ ReleaseExposure(s, size, pnl)
  /\ dailyLoss' = IF pnl < 0 THEN dailyLoss - pnl ELSE dailyLoss
  /\ BookPnl(s, pnl)
  /\ UNCHANGED <<emergency, guarded, cooling, decision, pending>>

\* add_symbol gives a symbol a guard, and no capital.
AddSymbol(s) ==
  /\ s \notin guarded
  /\ guarded' = guarded \cup {s}
  /\ UNCHANGED <<globalVars, symbolExposure, symbolVars, taskVars>>

CooldownEnds(s) ==
  /\ cooling[s]
  /\ cooling' = [cooling EXCEPT ![s] = FALSE]
  /\ UNCHANGED <<globalVars, symbolExposure, guarded, positions, symbolLoss, streak, breaker, guardExposure, taskVars>>

\* circuit_breaker_duration has passed since the loss that set it last.
BreakerRests(s) ==
  /\ breaker[s] = "on"
  /\ breaker' = [breaker EXCEPT ![s] = "rested"]
  /\ UNCHANGED <<globalVars, symbolExposure, guarded, positions, symbolLoss, streak, cooling, guardExposure, taskVars>>

-----------------------------------------------------------------------------
CoordinatorInit ==
  /\ exposure = 0 /\ dailyLoss = 0 /\ emergency = FALSE
  /\ symbolExposure = [s \in Symbols |-> 0]
  /\ guarded = Funded
  /\ positions = [s \in Symbols |-> 0] /\ symbolLoss = [s \in Symbols |-> 0]
  /\ streak = [s \in Symbols |-> 0]
  /\ breaker = [s \in Symbols |-> "off"] /\ cooling = [s \in Symbols |-> FALSE]
  /\ decision = [s \in Symbols |-> "OK"] /\ pending = [s \in Symbols |-> 0]
  /\ guardExposure = [s \in Symbols |-> 0]
  /\ open = [s \in Symbols |-> [size \in Sizes |-> 0]] /\ exited = [s \in Symbols |-> 0]

Profit == 0

Task(s) ==
  \/ \E size \in Sizes : CheckTradeAllowed(s, size)
  \/ guardExposure[s] + pending[s] <= EntryBound /\ OnTradeEntry(s)
  \/ EntryFails(s)
  \/ \E size \in Sizes :
       \/ OnTradeExit(s, size, Profit)
       \/ \E loss \in Losses : dailyLoss + loss <= LossBound /\ OnTradeExit(s, size, -loss)

TimePasses(s) == CooldownEnds(s) \/ BreakerRests(s)

CoordinatorNext == \E s \in Symbols : Task(s) \/ AddSymbol(s) \/ TimePasses(s)

CoordinatorSpec == CoordinatorInit /\ [][CoordinatorNext]_vars

-----------------------------------------------------------------------------
(* Properties. *)

\* The total exposure is the sum of the symbols', a symbol's is what its open
\* positions are worth, its guard counts these positions, and the losses of the
\* symbols add up to the daily loss.  The exposure a symbol guard keeps for itself
\* is another matter: on_exit leaves it as it is, so that it is what is open and
\* everything that was ever left.
BooksAgree ==
  /\ exposure = Total(symbolExposure)
  /\ \A s \in Symbols : symbolExposure[s] = Held(s)
  /\ \A s \in Symbols : positions[s] = Count(s)
  /\ dailyLoss = Total(symbolLoss)
  /\ \A s \in Symbols : guardExposure[s] = Held(s) + exited[s]

\* A symbol never has more than the capital allocated to it: its task books an
\* entry before it asks again, so only other symbols come between.  One that was
\* added later has no capital, and never trades.
AllocationKept == \A s \in Symbols : symbolExposure[s] + pending[s] <= Allocation[s]

\* The check and the booking are two calls, so the total may pass its limit; by
\* no more than one position of every other symbol that has capital.
OvershootBounded ==
  \A s \in Funded : exposure <= MaxExposure + Cardinality(Funded \ {s}) * MaxSize

\* A symbol that lost LossCount times in a row is not allowed a trade until
\* its breaker has rested since the last of these losses.
BreakerHolds ==
  [][\A s \in guarded :
       pending[s] = 0 /\ pending'[s] # 0 => breaker[s] # "on" /\ streak'[s] < LossCount]_vars
=============================================================================
