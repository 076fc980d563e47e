# Verification of the arbitrage trading bot

TLA+ models of the code under `src/arbitrage`, checked by TLC on small instances,
and theorems about them that TLAPS checks for every value of the constants.
Definitions carry the names of the code where TLA+ allows it; `PROJECT.json` says
for every definition which lines it stands for.

## 1. The system

The bot watches two exchanges (A: Upbit spot, B: Binance futures), trades the
spread between them, and reports what happens through an alerting stack. It was
built in phases (D16 ... D99); several generations of the same component are still
in the tree. The current trading path is `arbitrage_core` -> `live_runner` ->
exchange adapters, with `state_store` beside it and `multi_symbol_engine` around it; the
current alert path is `alerting/helpers` -> `manager` -> `dispatcher` -> `queue_backend` ->
`dispatcher` (worker) -> `failsafe_notifier`. The coordinator of several symbols
(`risk/multi_symbol_risk_guard`) and the exchange rates (`common/currency`) stand beside
the trading path and are asked for advice. Books arrive from the streams of `exchanges/*_l2_ws_provider`.
The paper campaign `scripts/run_d77_0_topn_arbitrage_paper` is a second way to trade, with a loop,
an exit strategy and an executor of its own.

```
 order books                                        rule or event
     |                                                   |
 ArbitrageEngine --trades_changed--> LiveRunner     emit_rule_based_alert (throttler, rate limit)
  _open_trades                        |   |   |          |
                          RiskGuard <-+   |   |     AlertDispatcher.enqueue (routing, buffers)
                      daily_loss_usd      |   |          |
                       create_order x 2 <-+   |     PersistentAlertQueue   pending / processing
                      exchanges A and B       |          |                 retry / dlq
                                              |     worker thread: dequeue, dispatch, ack / nack
     StateStore (Redis, PostgreSQL) <---------+          |
         save / resume                              fallback chain -> FailSafeNotifier x n -> log

 source threads --_on_source_update--> FxCache <--get_rate-- readers
 symbol tasks --check, book--> MultiSymbolRiskCoordinator (global, portfolio, symbol guard)
 L2 provider (start, stop) --thread, event loop--> web socket adapter --> latest book
 paper campaign --enter, exit--> ExitStrategy, PaperExecutor --> fill model
```

| component | state | operations | what makes it hard | correct when |
|---|---|---|---|---|
| `arbitrage_core.ArbitrageEngine` | `_open_trades` | `detect_opportunity`, `on_snapshot`, `ArbitrageTrade.close` | closes and opens in one call; limits counted in between; a zero quote divides by zero | at most `max_open_trades`, one direction at a time, no trade opened below its cost |
| `live_runner.RiskGuard` | `daily_loss_usd` | `check_trade_allowed`, `update_daily_loss` | order of its checks; the answer is used by two later orders | no order at or beyond the daily loss limit |
| `live_runner.ArbitrageLiveRunner` | `_active_orders`, counters, PnL, stop flag | `run_forever`, `run_once`, `execute_trades`, start / resume / save | one of two orders fails; an answer is lost; crash between the orders; restart from an old save; the engine's list and the runner's table are two truths | tracked positions bounded and hedged, ledgers agree, a stop is final, positions close |
| `multi_symbol_engine` | one runner, engine and guard per symbol | gather over one loop per symbol | a loop of its own around `run_once`, which does not look at the stop flag | the guard alone keeps every order back after a stop |
| `state_store.StateStore` | Redis keys, PostgreSQL rows, failure counter, fallback mode | save, load, delete, health check, reload | keys written one by one; old Redis state after a fallback; a failed transaction | what was saved is one state; snapshots never go back |
| `alerting/{helpers,throttler,manager,routing}` | times of sent alerts, rate limit, aggregation buffers | emit, throttle, limit, aggregate | ask and mark are two calls; sliding window; a flush keeps one alert of the batch | no repeat within the window, no burst over the limit, nothing dropped unspoken for |
| `alerting/queue_backend.PersistentAlertQueue` | pending, processing, retry, DLQ lists | `enqueue`, `dequeue`, `ack`, `nack`, `process_retry_queue` | several commands per method, each may raise; two workers; crash | no accepted alert lost, given up only after all retries |
| `alerting/dispatcher.AlertDispatcher` | worker thread and its flag, chains and notifiers by channel | `enqueue`, `start_worker`, `stop_worker`, `_worker_loop`, `_dispatch_alert` | the thread outlives `stop_worker`; a send that timed out arrives late; a time-out cut to zero seconds | every alert is settled in the end; what is reported as sent was taken |
| `alerting/failsafe_notifier` | circuit, consecutive failures, locks | `send`, `is_available`, `NotifierFallbackChain.send` | a look and a send are two calls; nested locks; an open circuit is skipped and only a try closes it | a dead service is left alone, no alert is given up before the log was asked, a channel that recovers is used again |
| `risk/multi_symbol_risk_guard` | exposure, positions, losses at three tiers | `check_trade_allowed`, `on_trade_entry`, `on_trade_exit`, `add_symbol` | check and book are two calls; an exit is booked in three guards | tiers add up; no symbol beyond its capital; a breaker is waited for |
| `common/{currency,fx_cache}` | rates of the sources, entries of the cache | `_on_source_update`, aggregation, `get_rate`, `FxCache.get` | four threads and no lock; an entry deleted in two steps; rates chained from old ones | one source cannot pull the rate away; an answer rests on a rate of bounded age |
| `cross_exchange/position_manager` | one Redis key per symbol | open, mark closing, close | read, judge, write without a transaction | one position per symbol |
| `infrastructure/{rate_limiter,exchange_health}` | tokens, window, health | `acquire`, `record`, failover | time arithmetic; advice nobody follows | the budget is never exceeded |
| `exchanges/{ws_client, *_l2_ws_provider}` | two flags named `_is_running`/`is_running`, attempts, thread and loop, socket | `start`, `stop`, `connect`, `subscribe`, `receive_loop`, reconnects | a stop during an await; a restart over a thread that still sleeps; three places that reconnect | a lost stream is retried or given up; a provider that says it runs has a thread |
| `scripts/run_d77_0..`, `domain/exit_strategy`, `execution/executor` | open positions, metrics | one round: kill switch, entry, exits, sleep | the book changes between the decision and the next look; partial fills; two computations of one profit | every entry is one open position or one round trip; the loss stays near the limit; positions are left |
| `exchanges/paper_exchange` | balances, orders | `create_order` | buys are checked, sells are not | no order fills without the balance for it |

The full list, with the parts that are not modelled and the reason for each, is
`components` in `PROJECT.json`; what is hard to test, at its line, is `hazards`.

## 2. Modules

| module | what it is |
|---|---|
| `ArbitrageEngine` | `arbitrage_core.py`: state, decisions, `on_snapshot` |
| `RiskGuard` | the guard of `live_runner.py` as two operators; its counter lives in the runner |
| `LiveRunner` | the loop, execution, persistence and restart of `live_runner.py`, and the loop of `multi_symbol_engine.py`; EXTENDS the two above |
| `TradingSession` | abstract: what a session promises; `LiveRunner` implements it |
| `StateStore` | `state_store.py` below the saves and resumes of the runner, command by command |
| `AlertIntake` | `helpers.py`, `throttler.py`, `send_alert` of `manager.py`, `enqueue` and the router: up to the queue |
| `AlertQueue` | `queue_backend.py` driven by the worker threads of `dispatcher.py` |
| `AlertDelivery` | abstract: what is promised of every alert; `AlertQueue` implements it |
| `NotifierChain` | `_dispatch_alert` of `dispatcher.py` over `failsafe_notifier.py`: what a worker does while `AlertQueue` says "send" |
| `AlertSend` | abstract: what a send promises to the queue's worker; `NotifierChain` implements it |
| `RiskCoordinator` | `multi_symbol_risk_guard.py` under the tasks of several symbols |
| `FxRates` | `currency.py` and `fx_cache.py` under the threads of sources and readers |
| `L2Stream` | `ws_client.py` under the providers `upbit_l2_ws_provider.py` and `binance_l2_ws_provider.py` and their threads |
| `PaperRunner` | the loop of `run_d77_0_topn_arbitrage_paper.py` with `exit_strategy.py` and `PaperExecutor` |
| `Sums` | the sum of a function over a finite set, which the coordinator and the intake keep limits on |
| `*Proofs` | eight modules of theorems, about every component above; those about `RiskCoordinator` and `AlertIntake`, which share the lemmas about sums, are in `AdmissionProofs` |
| `MC*` and `*.cfg` | instances for TLC |

The alert path is cut into three models at the places where the code hands an alert over.
`AlertIntake` ends with an alert accepted by the queue, which is `Enqueue` of `AlertQueue`;
`AlertQueue` lets a send succeed or fail as it likes, and `AlertSend`, which `NotifierChain`
implements, says what the two answers mean.

Some modules hold, beside the definitions of the code, variants called *slips*:
what a careless change of that code would look like. No specification uses them;
replacing a definition by its slip must make a property fail, which shows that
the property depends on the code.

### ArbitrageEngine

`openTrades` is `_open_trades`; `closing` and `opening` are the two parts of the
list `on_snapshot` returns. `OnSnapshot(b)` is the whole method: close what reversed,
then at most one new trade, against the trades that are left.

* Spreads are floored to integer basis points. Every branch compares a spread with
  zero or with the integer cost, which flooring decides the same way; a trade's PnL
  is linear in its entry spread. Constants with other values (fees that are not
  integers) need a finer `BpsScale`.
* `on_snapshot` closes with an exit spread of 0.0 whatever the book says, and
  `detect_opportunity` never consults `min_spread_bps`; both are modelled as written.
* A quote of zero divides by zero while the spread of an open trade is computed; the
  runner swallows the exception (`OnSnapshotRaises`).
* A trade is named by its `open_timestamp`, here an increasing integer: two
  snapshots with one timestamp are not modelled.

### LiveRunner

| variable | code |
|---|---|
| `pc` | where the process is: loop top, in `execute_trades`, about to send either order, stopped, down |
| `activeOrders` | the keys of `_active_orders` |
| `dailyLoss` | `_risk_guard.daily_loss_usd` |
| `stopRequested` | `_session_stop_requested` |
| `counters` | the statistics and the PnL ledgers |
| `snapshot` | the rows `_save_snapshot_to_db` wrote last for the session |
| `filled` | external: the orders the exchanges executed |
| `sessionLoss` | history: what the session really lost |

A snapshot with the engine's answer is one action, because nothing else touches the
runner at its two `sleep(0)` points. Every executed trade is an action, and the two
orders of a trade are two: either may be accepted, refused, or *lost* (executed
although the call raises, which `binance_futures.py:393-395` does on a network
error). `SaveSnapshot` is one action since the rows are written in one transaction;
the driving scripts call it between iterations or at the end. `Crash` may
come anywhere, and a restart is a clean reset, a resume from what was saved, or a resume
that finds nothing. Money is in tenths of a basis point of the notional, so the
losses the paper campaigns force (`LossTenths`) stay integers.

Where order books come from is left open: any book of `Books` may come. This covers the paper
prices too; their exit signal (`_inject_paper_prices`) asks for more than ten open trades
while the default limit is one, so with the defaults it is never raised.

`HeedsStop` tells the two loops apart. `run_forever` ends when `_session_stop_requested` is
set; `_run_for_symbol` of the multi-symbol engine calls the same `run_once` and looks at the
iterations and the running time only, so it goes on closing, opening trades in the engine
and asking the guard. Each symbol has a runner, an engine and a guard of its own, and the
runners share only what no runner asks (the coordinator) or what may answer anything (the
exchanges): several symbols are several `LiveRunner`s.

### StateStore

| variable | code |
|---|---|
| `redis` | the version of each category's key; a version is one state of the runner |
| `rows` | the latest snapshot in PostgreSQL |
| `aborted` | the connection's transaction has failed and was not rolled back |
| `fallback`, `failures` | `_fallback_mode`, `_redis_failure_count` |
| `pc`, `step`, `writing`, `reload` | where a save is, and what it writes |
| `loaded` | what `load_state_from_redis` answered last |
| `missed` | history |

Below `LiveRunner`'s one-step `SaveSnapshot` there are several commands: `save_state_to_redis`
writes one key after the other, and `save_snapshot_to_db` is one transaction. Every SET is a
step, every command may fail, with or without having been executed, and the process may die
between any two. The psycopg2 connection is one for the whole store: a SELECT that fails in a
load leaves its transaction failed, nothing rolls it back, and the next save pays for it
(`SnapshotRollsBack` without a fault of its own). The scripts that drive a runner
call its two saves in this order, with nothing in between.

### AlertIntake

| variable | code |
|---|---|
| `pc`, `key` | where each producer is, and the throttle key of its alert |
| `stamp` | the throttler's time of each key, in memory or in Redis |
| `tracker` | `_rate_limit_tracker` of each severity and source: how many of its times are which |
| `batch` | `_aggregation_buffers`: how many alerts, and the time of the first |
| `queued` | external: what the queue accepted, by rule |
| `passed`, `lastSent` | history |

The manager holds its lock from the rate limit to the queue's answer, so `SendToBuffer`,
`SendToQueue` and `QueueRefuses` are one step each; `ShouldSend` before and `MarkSent` after
are steps of their own. The throttler's errors of Redis let an alert pass, or leave no mark.
Time is counted in steps of the windows' unit, and windows are closed as they are in the code:
a rate-limit entry at the lower edge still counts (`>=`), a throttled key is free at the edge.

### AlertQueue

| variable | code |
|---|---|
| `redis` | whether a client was given; both modes are explored from the start |
| `pending`, `processing`, `retry`, `dlq` | the four lists |
| `running` | `_worker_running` |
| `pc[w]` | which command the worker thread comes to next |
| `scan[w]` | due entries of the LRANGE in `process_retry_queue` that are still to be moved |
| `hand[w]` | the message between two commands |
| `accepted`, `taken`, `failures`, `acked` | history, for the properties |

Every Redis command (list operation in memory) is a step. A list is the number of copies of
each message in it; the order in a list is abstracted. Copies of an alert with the same
`retry_count` are alike and fall due together, and each alert is enqueued once; an `rpush` that
raises in `enqueue` means that the alert was not accepted. `Fault(w)` is a command that
raises: each method of the queue catches it and returns, so what the worker had taken
off one list is on no other. A command whose answer is lost is that command's step followed by a
fault. The HINCRBY counters are left out, but in `dequeue` one that raises after
the RPUSH loses the message from the worker (third disjunct of `Fault`). In memory, removing an
entry another thread has taken raises (`list.remove`), while LREM answers 0 and the entry is
pushed all the same (`RemoveRetry`).

`manager.py` builds the dispatcher in the in-memory mode by default. Two worker threads
exist when `stop_worker`, which joins for five seconds only, is followed by `start_worker`, as
`chaos_harness.py:240-249` does, while the old thread is in a slow send.

### NotifierChain

| variable | code |
|---|---|
| `circuit` | `_circuit_open`; `cooled` is an open circuit whose reset seconds have passed |
| `failures` | `_consecutive_failures` |
| `pc`, `alert`, `todo`, `at`, `ok` | the worker in `_dispatch_alert`: channels to come, notifier at hand, success so far |
| `verdict` | what the dispatch answered |
| `hanging` | sends that timed out and whose daemon thread is still under way |
| `up` | external: whether a service answers well |
| `tried`, `taken`, `wasted` | history |

`FailSafeNotifier.send` holds its lock for the whole try, and a chain holds its own from the first
notifier to the answer: the locks are the guards `Free` and `ChainFree`. `is_available`
and `send` take the notifier's lock twice (`LookAvailable`, `Call`). A service that is up answers
well; one that is down fails, or hangs until the time-out, and then the alert may still arrive (`Late`).
Circuits that have rested, resets by an operator and services that come and go are steps of
their own. Chains and notifiers are registered before alerts are sent. Two threads may be
sending because a worker that outlived `stop_worker` goes on beside its successor, and
because one notifier may stand in a chain and behind a channel at once.

### RiskCoordinator

| variable | code |
|---|---|
| `exposure`, `dailyLoss`, `emergency` | the global guard |
| `symbolExposure` | the portfolio guard |
| `positions`, `symbolLoss`, `streak`, `breaker`, `cooling` | a symbol's guard; `rested` is a breaker whose duration has passed |
| `guardExposure` | that guard's `current_exposure_usd`: an entry adds to it, an exit leaves it as it is, and only `get_stats` reads it |
| `guarded` | the symbols that have a guard: those with capital, and those added later |
| `decision`, `pending` | external: the task of a symbol, between the check and the booking |
| `open`, `exited` | history: the positions, by size, and the sum of those that were left |

A check is one step and a booking is another, since orders lie between them; an order may
fail. `CheckTradeAllowed` keeps the order of the tiers and their early returns: only a check
that comes to the symbol's guard can release a breaker, and it does so even if a later test
rejects the trade. No loop of the program asks the coordinator yet (`multi_symbol_engine`
builds it and logs it), so its callers are external: one task per symbol, as the engine has them.

### FxRates

| variable | code |
|---|---|
| `source` | `_source_rates` |
| `cache` | the entries of the two pairs with the won: their age, and (history) the age of the rate behind them |
| `usdt` | the entry of USDT/USD |
| `pc`, `pair` | where each thread is, and the pair it looks up |
| `during` | what a collecting source may have read of every source |
| `stamp`, `leg` | the time it took, and the rate it will chain with |

No lock is taken anywhere, so each operation on a dictionary is a step; `FxCache.get` is a look and,
for an expired entry, a deletion, in which another thread may have been faster
(`DeleteRaises`: a KeyError). A source reads the rates one by one while others write them:
`Store` may take, for each source, any rate it had meanwhile. Only ages are told apart of the
rates in won; the fixed rate that is cached when the network fails has none.

### L2Stream

| variable | code |
|---|---|
| `running`, `count`, `loop` | the provider's `_is_running`, `_reconnect_count`, `_loop` |
| `ws`, `connected`, `receiving` | the adapter's `ws`, `is_connected`, `is_running` |
| `pc`, `on` | the await each thread's coroutine is at, and the connection it reads or closes |
| `stopping`, `closes` | the disconnect `stop()` put on the loop of a thread, and the connection it closes |
| `conn` | external: connections that are open, subscribed or closed |

A step of a thread runs from one await to the next: within a loop nothing else runs meanwhile. Two
threads have two loops and share the adapter; the one operation they may do at once,
`_reconnect_count += 1`, is a step of its own in either order. `stop()` only schedules the disconnect
and gives up waiting after five seconds, so `Stop` is one step and the disconnect two
(`StopBegins`, `StopEnds`), at any of the thread's awaits, or never when the loop closes first.
The two providers differ where the receive loop returns: Upbit's leaves its own loop
(`AfterLoss`), Binance's goes round. Connections carry names that are used again. What a
book says, and the table of latest books, are left out.

### PaperRunner

| variable | code |
|---|---|
| `pc`, `toCheck` | the half of the round, and the positions its exit loop has still to look at |
| `positions` | `ExitStrategy._positions`: the quote of the entry, the size, the time held |
| `metrics` | `entry_trades`, `round_trips_completed`, `wins`, `losses`, `total_pnl_usd` |
| `fill` | what the configured fill model does to an order: the part it fills, and what a buy and a sell slip |

A round is an entry (`Enter` or `NoEntry`), a look at each open position (`Hold`, `Exit`,
`NoExitCheck`) and a sleep; the book is fetched anew for each. Only the first of the symbols is
ever tried for an entry, and not while it has a position, so one symbol is modelled. The quantity of an order is
the notional by the bid; prices of the book are taken in the unit of the notional, as the code does
with KRW. Time is counted in sleeps, and a round may take longer than one. Without order books the
fill model takes the available volume for a multiple of the order: it fills the same part of every order,
and its price slips by the same part of the price, in basis points here. The executor books PnL from the slipped
prices (`BuyAt`, `SellAt`), and the model counts it in ten-thousandths of the price, so that it stays an integer.
Left out are a book with a price of zero, and what the executor keeps of each fill, which
no step of the campaign reads.
`spread_reversal` waits for a spread below -10 basis points, which the spread of one exchange never is.

## 3. Runs

| run | question | instance | size |
|---|---|---|---|
| `runner` | the runner's safety, with the engine and the guard inside it, and does it implement `TradingSession`? | 7 kinds of books, 3 trades, every order outcome, forced losses of one half, one crash anywhere, every restart, a loop that runs on after a stop | 1.7 million states, 1 min |
| `runner_live` | does every position close, and does a stop end `run_forever`? | without crash and run time limit, the guard's slot below the engine's | 190,000 states, 70 s |
| `resume` | D70: exits go on after a resume | 2 trades, one crash; expected to fail | |
| `store` | is what was saved one state, and do snapshots only advance? | 3 of the 4 categories, 4 versions, 4 failing commands with a threshold of 3, 2 crashes | 20 s |
| `intake` | throttle, rate limit and aggregation together | 2 producers, an aggregated and a plain rule with 3 keys, windows of 1 and 2 steps, one failure | 20 s |
| `alerts` | no loss, no early give-up, every alert settled (in memory) or taken (Redis); does the queue implement `AlertDelivery`? | 1 alert, 2 worker threads, 2 retries, a worker restart, a crash, a failing command, both modes | 44,000 states, 30 s |
| `notifiers` | breakers, locks and chains; does a send keep `AlertSend`, and end? | 2 threads, a chain of two notifiers and the log, a channel of its own for one of them, threshold 2 | 100,000 states, 1 min |
| `coordinator` | do the books agree, and how far do the limits hold? | 2 symbols with capital and one without, 2 sizes, 2 losses up to the emergency limit, breaker after 2 losses, entries of 6 in value by each symbol | 520,000 states, 35 s |
| `fx` | who can pull the rate, and how old can it be? | 3 sources, 1 reader, 3 rates (close, and far from the others), entries that live one step, 3 updates, 2 threads in their callbacks | 1.8 million states, 2 min |
| `streams` | does a provider that says it runs have a thread, is a lost stream retried, does a stop end a reader? | Binance, 1 thread, 5 connection names, 2 attempts, stops and restarts | 1,200 states |
| `stream_lost` | the docstring: auto-reconnect | Upbit; expected to fail | |
| `paper` | do entries and round trips agree, how far does the loss go past its limit, is every position left? | 6 entries, books of several bids and spreads, fills of 0, 50 and 100 per cent that slip by 5 basis points, whole ones that do not | 13,000 states, 30 s |

The two runs that are expected to fail have each one property, which restates a sentence of the
repository's documents; their counterexamples are section 6. The type invariants of `LiveRunner`,
`AlertQueue`, `NotifierChain`, `StateStore` and `L2Stream` are part of the inductive invariants of section 5,
proved for every value of the constants, and are not run as well.

Why the bounds are enough to be interesting. *runner*: a trade closes while another stays, a
slot is reused, and the limit is met; with two slots in the engine and one in the guard the
two lists drift apart. One crash gives every order of save, loss, crash and resume. The two
directions have edges of different size, so `MaxDailyLoss` is reached by one forced loss of
the first or two of the second: sessions stop early, late and after a resume, and a loop that
runs on still has trades to close and to try. *store*: three failures reach fallback mode, the
fourth hits the way back; two crashes let a second restart undo what a first one resumed from.
*intake*: the limit of two is met within a window and across its edge, and a batch of
three is flushed by its size and by its age. *alerts*: two workers are what a restart can
produce, and both may hold copies of one alert, which is where messages meet: those of two alerts
share no state but the worker. Two retries have a first, a middle and a last try and the dead
letter queue. *notifiers*: with two
threads and two ways to one notifier, a circuit opens between a look and a send, and two
threads ask for each other's locks. *coordinator*: both symbols pass the check before either
has booked, so the total limit is passed; a symbol enters three times, so that the exposure its guard keeps
leaves its positions behind. *fx*: two sources collect while each other's
rates change, and an entry expires, is renewed and deleted in any order. *streams*: two attempts tell the last one from the others, and a
stop comes before, between and after them; two threads on one adapter, after a restart
over one that still sleeps, are the theorem's (liveness with two is too large). *paper*: the kill switch is reached by two
losses, the books give an exit of every reachable reason, and six entries let one be open while others have
won and lost. A slippage of 5 basis points is ten times the default (`slippage_alpha` of 0.0001 at half of the
available volume), which an alpha of 0.001 gives: next to the smallest spread that is entered, of 0.5 per cent, it changes what an exit loses. The theorems
(section 5) have none of these bounds.

`MaxTrades`, `MaxCrashes`, `MaxStops`, `MaxFaults`, `MaxVersion`, `MaxTime`, `LossBound`,
`EntryBound`, `MaxUpdates`, `MaxBusy` and `MaxEntries` are bounds of the models. A trade beyond `MaxTrades` is not opened: the step
is disabled for that book. Some runs do not look for deadlock, because the system may rest:
in that of the queue a worker with nothing pending waits in BLPOP, in that of the
notifiers no alert need be dispatched; a stream that was stopped and a paper run that ended stay so;
and `fx` ends with its updates, a bound. `intake` and `fx` use symmetry of producers,
keys and sources, which no property and no constant tells apart (they check no liveness), and `fx` a view that leaves out `usdt`, which is written and never read.

What the passing runs show, property by property:

* `SingleDirection`, `NoLossAtClose`: closing and opening within one call never hold both
  directions (the books are valid when a trade opens); the engine's own PnL is never negative, since
  the exit spread is taken as 0.0, so that the daily loss limit can be reached only by the forced
  losses of the campaigns.
* `ActiveOrdersBounded`, `NoOrderBeyondLossLimit`: the guard's answer still holds when the
  second order is sent, after a resume, and in a loop that ignores the stop.
* `ActiveOrdersHedged`: a tracked position is two executed opposite orders, whatever failed.
* `LedgersAgree`: session PnL, symbol PnL and guard do not drift apart through forced losses,
  crashes and resumes.
* `PositionsHeldByEngine`: before the first restart nothing is tracked that the engine would
  not close; the `resume` run shows that a restart breaks this.
* `StopFindsNoPosition`: when the guard stops a session that was not restarted, nothing is
  open, although the guard does not look, and nothing opens afterwards. It follows from
  `SingleDirection`: a loss is booked only when a direction reverses, and then everything
  open closes with it.
* `PositionsClose`, `StopEndsLoop`: nothing starves while the loop runs.
* `RedisIsWhole`: after a save that raised nothing, the four keys are one state and not older
  than the snapshot. `SnapshotsAdvance`: a restart resumes from the snapshot, never from Redis,
  so that no snapshot is followed by one of an older state.
* `RateLimitHolds`: in every window, not only in those that begin at an alert. `ProducerThrottled`
  is said of one producer, because two of them may both ask before either has marked.
* `DroppedAreSpokenFor`: a flush drops the batch and sends one alert; per batch of at most
  `MaxBatch` there is one in the queue.
* `AttemptsWereMade`, `NothingLost`: for two workers, with duplicates, in both modes.
  `NoTryAfterSettled`: an alert is not sent again after it was settled. With Redis this
  holds for a worker that is never restarted; two workers that read the same retry list both
  push the entry, since LREM's answer is ignored, so the property leaves that case out.
* `BreakerRests`: at most `Threshold` tries are spent on a dead service before it rests, whoever
  sends. `LogIsLastResort`: no alert leaves a chain without the log having been asked.
  `DispatchEnds`: the nested locks are always taken in one order. `DirectChannelRecovers`: a
  notifier without a chain is used again; behind one it is not (section 6).
* `BooksAgree`: an entry and its exit leave nothing behind in the exposure of the global guard, in that of the
  portfolio guard and in the count of the symbol's. The exposure the symbol's guard keeps for itself is not of these:
  it is what is open *and all that was ever left* (section 6).
  `AllocationKept`: the portfolio limit holds although check and booking are two
  calls, since a symbol's task does one after the other; the total limit does not, and
  `OvershootBounded` says by how much. `BreakerHolds`: no trade while the breaker has not rested.
* `AgreementBoundsRate`: a majority of the sources, two of the three, within five per cent of each other
  bounds the rate, whatever the others say and whichever mixture is read. `WonLegAge`: a chained rate rests on
  one observed at most two lifetimes ago; twice the lifetime is what it really can be.
* `RunningHasThread`: a flag that stays up over a dead thread would make `start()` refuse for ever. It
  depends on who gives up last, since two threads share flag and counter, and is proved for any number of them. `LostStreamRetried`: of
  the three places that may reconnect one does, or the provider says that it stopped.
  `StopEndsReader`: a stop while a thread reads ends it; while it connects, it does not (section 6).
* `RoundTripsAgree`: partial fills and failed orders leave no entry that no exit counts.
  `LossBounded`: one exit's loss past the kill switch, because one position at a time is
  open; that loss is the spread and what its two orders slip, on the largest position. `PositionsExit`: time ends what neither wins nor loses.
* `SessionRefined`, `DeliveryRefined`, `SendRefined`: the abstract specifications hold, step by step.

## 4. Fairness

* `FairRunnerSpec`: weak fairness of the loop. `run_forever` goes round on its own; the calls
  it makes have time-outs. Nothing is assumed of saves, crashes or restarts. `PositionsClose`
  assumes `ReversalsRecur`, a property of the market: each direction's spread turns negative
  again and again in the books processed.
* `FairQueueSpec`: weak fairness of each worker thread's own step, which the thread
  scheduler gives; none for producers, starts, stops, crashes and faults. A retry falls due
  five seconds after it was refused; time is not modelled, so that a retry looked at again and again
  is due in the end is strong fairness of looking at it when due.
* `FairChainSpec`: strong fairness of each sending thread's step: a `threading.Lock` that
  becomes free again and again is given to a waiting thread in the end, and a send is over
  after its time-out at the latest. Weak fairness of `Cool`: time passes. None for services, resets,
  late sends and new dispatches. `DirectChannelRecovers` assumes of its channel that the
  service works for good from some time on, and that alerts keep coming.

* `FairStreamSpec`: weak fairness of each thread's step, as every await has a time-out or an
  answer; strong fairness of the disconnect `stop()` scheduled, which the loop runs at one of
  the awaits, and of the heartbeat on a connection without a subscription, where nothing arrives.
  None for stops, starts and losses.
* `FairPaperSpec`: weak fairness of the round. Of the environment, that an open position's book
  shows prices again and again when it is looked at.

The other modules state no liveness: a save, an emitted alert, a check and a lookup are calls
that return, with no loop and no lock between their steps.

## 5. Theorems

All are of the form `Spec => ...` for every value of the constants that satisfies the
assumptions (`EngineAssumption`, `GuardAssumption`, `RunnerAssumption`, `QueueAssumption`,
`ChainAssumption`, `StoreAssumption`, `CoordinatorAssumption`, `IntakeAssumption`,
`FxAssumption`, `StreamAssumption`, `PaperAssumption`: natural numbers, non-empty sequences, finite sets of what is summed or counted, distinct names and the values of the
configuration; no bound on the number of books, trades, alerts, workers, threads, symbols, connections,
categories, failures or crashes).

**LiveRunnerProofs, the engine.** `OneFavouredSide` is the arithmetic: in a valid book the spreads of
the two directions are not both non-negative. `EngineInv` (types, the limit, entry spreads
that cover their costs, one direction; and, carried along for the runner's table, that an identity names
one trade, which is the model's numbering of them and says nothing of the code) is inductive with it: a new trade's direction has a
non-negative spread, so the other's is negative and everything held in it has just been closed.
Theorems: `OpenTradesStayBounded`, `DirectionIsSingle`, `ClosesNeverLose`,
`ReversalOpensTheOtherSide`.

**LiveRunnerProofs, the runner.** The safety properties are not inductive for three reasons, and `RunnerInv`
repairs them. A resume copies `snapshot` into memory, so each part must hold of what was
saved as well as of what is in memory. The guard is asked once for two orders, so at
`secondLeg` its answer (a free slot, the loss below the limit, no stop requested, the trade held and its first
leg executed) is kept as an invariant. And a loop that does not heed the stop asks the guard
again: that it answers no rests on `StoppedAtLimit`, the counted loss being at the limit and
never shrinking. From it follow `RunnerTyped`, `ActiveOrdersStayBounded`, `PositionsAreHedged`,
`LedgersStayInAgreement`, `LossIsReal`, the action properties `NoOrderBeyondTheLimit`,
`StopHolds`, `OrdersAreForHeldTrades`, and the refinement `RunnerImplementsSession`.
`HeldInv`, inductive relative to `RunnerInv`, ties the engine's list to the runner's table until
the first restart: by `SingleDirection` a reversal closes the whole list, so that a loss is
booked only while everything goes. It gives `PositionsStayHeld` and `StopLeavesNoPosition`.

**AlertQueueProofs.** `QueueInv` says of *every copy* of a message, in a list, a scan or a
hand, that its alert was accepted and failed at least as often as the copy says, one
more when it is being refused. It has to be said of the scans since a worker may push what
another has already taken. `NothingLost` is inductive relative to the types: a worker's step keeps
the message it handles in a list or in its hand or acknowledges it, and leaves the messages of other
alerts and workers where they are. `NoTryAfterSettled` rests on there being one copy of an alert (`OneCopy`: among the lists without `processing`,
the hands and the acknowledgements). In memory every step moves a copy or drops it. In Redis one
does not, the `LREM` whose answer nobody looks at; until the first `stop_worker` there is one thread
(`Alone`), and what it has scanned is still on the retry list (`ScanIsTrue`), so the `LREM` finds it. Theorems:
`QueueTypes`, `RetriesAreCounted`, `GivenUpAfterAllRetries`, `NoAlertLost`, `SettledIsLeftAlone`,
`QueueImplementsDelivery`.

**NotifierChainProofs.** `ChainInv` adds to the types that one thread at a time tries a notifier
(`OneTry`, the lock), and only while its circuit is closed (`TryClosed`), so that the count of
failures moves by one try and meets the threshold exactly; `Budget` compares what was
wasted with the count while the circuit is closed, with the threshold once it is open, and with
nothing once it has rested. `Told` ties a success to an alert that was taken. Theorems:
`ChainTyped`, `DownServiceRests`, `LastResort`, and the refinement `ImplementsAlertSend`.

**StateStoreProofs.** `WriteInv` says what is known in the middle of a save: the categories
before `step` are those being written, what is written is the memory's state and not older
than the snapshot, and in fallback mode nothing is being set. With it `RedisIsWhole` and the
types are inductive. Theorems: `StoreTyped`, `RedisStaysWhole`, `SnapshotsOnlyAdvance`.

**AdmissionProofs, sums.** What the two gates promise is about sums over sets of any size: of
exposures over symbols, of alerts over times. The library's induction theorems take an operator
and cannot be used; but that an order is well founded is a theorem about sets, and
a set of counterexamples has a minimal element. `NatSetInduction` and `SubsetInduction` are induction in this form, for a
*set* of naturals or of subsets. From them: the sum over a finite set exists, is what is picked plus the sum of
the rest whatever is picked (`SumRemove`), moves by what one entry moves (`SumChange`), grows with
its entries and with its set, and counts only where entries are not 0.

**AdmissionProofs, the coordinator.** `GuardInv`: the exposure of a symbol *and what it was allowed and has not booked*
stay within its capital, and a breaker that is off has seen fewer losses in a row than
its limit. Theorems: `AllocationIsKept`, `BreakerIsWaitedFor`. `BookInv` says of the three guards' sums that each is
the value of the open trades; it needs `Idle`: a symbol that has no guard yet holds nothing, since
making its guard starts its counts at 0. Of `guardExposure` it says what the code makes of it, the open positions and the
ones left. Theorem: `TheBooksAgree`. `OvershootBounded` is not inductive: it says
nothing of what was allowed and not booked. `Committed` adds that to the exposure: a check that passes leaves
room for its own size, so the sum is above the limit by what the *other* funded symbols may still book at most,
`MaxSize` each. Theorem: `OvershootIsBounded`.

**AdmissionProofs, the intake.** As long as Redis answers, what a producer sent last is marked, or the
producer is about to mark it (`Marked`), and a producer that was let through keeps its
answer while it waits for the manager (`Asked`): its own last alert is a window ago, whatever
others mark meanwhile. Theorem: `NoRepeatWithinWindow`. `RateInv`: the tracker has forgotten nothing that is still in the window (`Tracked`),
it never lists more than the limit (`TrackerBounded`), and a batch is below its size (`BatchBounded`). A window that ends now is then
a part of the tracker, and a window that ends earlier was one when it ended. Theorems: `IntakeIsTyped`, `RateLimitIsKept`,
`DroppedAlertsAreSpokenFor`.

**FxRatesProofs.** The rate behind an entry is at most one lifetime older than the entry says,
and not older at all for USD/KRW (`Entered`); a leg was live when it was found, which is
after the time was taken, so it ages with the stamp (`LegIsLive`). An entry answers only within its own lifetime.
Theorem: `WonIsFreshEnough`. The median is a choice of the k-th smallest, so it has to be shown that there is one
(`KthIs`, by a minimal element). A majority cannot be on one side of it (`KthOfMajority`: else the members and the rates
on the other side would be more than there are sources); it is therefore within five per cent of every member of a
majority that agrees, no member is dropped as an outlier (`MajorityIsNear`), and the majority is one of the rates that
are left. Theorem, for any number of sources: `MajorityBoundsTheRate`.

**L2StreamProofs.** That a running provider has a thread is not inductive: a thread comes to its loop
head with the flag set and leaves if no attempt is left. `AttemptsLeft` (the flag is set only
while attempts are left, since whoever uses up the last clears it) closes the gap. Theorem: `RunningProviderIsAlive`.

**PaperRunnerProofs.** `LossBounded` is inductive with `OneOpen` (one position at a time; every entry but an
open one has made its round trip), `PositionsSized` (a position is no larger than the notional allows at its
own quote) and `OpenWithinLimit` (the kill switch was passed at the entry, and no exit has come since): an exit never gains (`ExitNeverGains`: it buys at the ask and sells at the bid, both slipped), and then takes
at most one `ExitLoss` from a result above the limit, and the runner enters nothing more. Theorems: `RoundTripsAddUp`, `LossIsBounded`.

Every invariant, action property and refinement the passing runs check is a theorem. Only model-checked: liveness
(`PositionsClose`, `StopEndsLoop`, `AlertsSettle`, `PendingIsTaken`, `DispatchEnds`, `DirectChannelRecovers`,
`LostStreamRetried`, `StopEndsReader`, `PositionsExit`), which rests on fairness and thereby on ENABLED, out of the provers' reach.

## 6. Where documents and code disagree

Two have a run whose counterexample is the code's behaviour; the quotes are in
`PROJECT.json`, `findings`.

| run | the document says | the code does |
|---|---|---|
| `resume` | exits go on after a resume | the engine's list is not restored: a restored position is never closed |
| `stream_lost` | a lost connection is connected again | the receive loop ends instead of reconnecting, Upbit's provider ends with it, and its flag stays up |

The others are visible in the models without a run of their own, at the definition named:

* `circuit_breaker_reset_seconds` is the "Time before trying to close circuit",
  `failsafe_notifier.py:63` (`LookAvailable`: a chain skips an open circuit, and only a try closes it,
  so that a notifier reached through chains alone is never tried again).
* After Redis recovers its state is consistent, `docs/D71_DESIGN.md:124` (`LeaveFallback`: leaving fallback
  mode loads nothing, and Redis answers with what it held before).
* `stop()` ends the connection, `binance_l2_ws_provider.py:132` (`Loop` of `L2Stream`: a thread that was
  connecting raises the flag again, `ws_client.py:189`, and reads on).
* A campaign ends with "Close all open positions (forced exit)",
  `docs/D77_0_TOPN_ARBITRAGE_PAPER_DESIGN.md:172` (`TimeIsUp`, `KillSwitch`: the loop ends with what is open).
* A round trip earns what both prices moved since the entry, `exit_strategy.py:271` (`Exit` of `PaperRunner`: only
  the exit's two orders are booked, which lose the spread and what they slip, so that a take profit is counted as a loss).
* `current_exposure_usd` of a symbol's guard is by its name, and as `get_stats` reports it, what is open
  (`multi_symbol_risk_guard.py:66`, `477`; `BookPnl`: `on_exit` never takes anything off, so that it is what
  was ever entered. No check reads it).
* Closing settles the positions on both exchanges (`ExecuteClose`: it changes the runner's books
  only), and opening creates an order on both (`PlaceSecondLeg`: one that raises leaves the
  first alone and untracked).
* One opened position counts as one (`Tracked`: `_total_trades_opened` is increased twice).
* The guard's state is written with every trade (`SaveSnapshot`: only by scripts that call the
  save, so that a loss booked since is gone after a resume).
* The queue survives a crash (`Crash` of `AlertQueue`: what a worker had taken is in a list nobody reads),
  and failed alerts are tried again (`int(0.1)` is 0: BLPOP waits for ever and retries are
  not looked at until the next alert).
* A reconnected client is subscribed again (`Reconnect`: `on_reconnect` logs "re-subscribing" and does
  nothing, so that the new connection is silent until its heartbeat runs out).
* Every fill is a position of the executor (`Result`: partial fills do not advance `execution_count`, the
  key at `executor.py:594`, so that the later takes the place of the earlier).
* Aggregation sends a batch as one alert (`Flushed`: the batch is dropped and its last alert
  sent as it is; `dispatcher.py:221` says "For now, still enqueue individual alerts").
* `FxCache` calls itself "Thread-safe (향후 Lock 추가 가능)", `fx_cache.py:66`; two threads that
  find one entry expired raise a KeyError in the second (`DeleteRaises`).
* `is_stale` and `get_updated_at` of the rate providers answer for the entry, which also
  holds the fixed rate of a failed request and a chained rate with an older leg; the alert that all sources
  are down (FX-001) looks for a rate of None, which a source that was ever heard never has again (`Receive`).

## 7. Not modelled

The map covers a small part of the implementation's lines, and most of the rest has no behaviour of its own to check:
scripts and campaigns that drive the modelled loop, dashboards, metrics, collectors and
loggers, configuration loading, formatting, numerical risk mathematics, tuning and back-test jobs, the
REST and WebSocket calls of the exchange adapters, and the engines of earlier phases,
which the current runner does not use. `components` in `PROJECT.json` gives the reason for each.

Near the trading path, but with no behaviour to model as the code stands:

* `cross_exchange/executor.py` cannot be constructed (its `__init__` reads an attribute
  it never sets), so that neither it nor the strategy and the guard it would call ever runs.
* `cross_exchange/position_manager.py` reads, judges and writes without a transaction. Its
  only caller in the program, `integration.py`, passes `mapping.__dict__` where a mapping is
  read, calls the exit with a keyword the method does not have, and swallows both errors: no
  position is ever stored.
* `arun_multisymbol_loop` with a market data provider: the snapshot has another type, and every task
  ends in a swallowed `AttributeError`. Without one its tasks run one after the other.

Left for later: `infrastructure/rate_limiter.py` and `exchange_health.py`, whose answers the
runner logs and does not follow; `exchanges/paper_exchange.py`, arithmetic in one call after the
other, whose answers `OrderOutcomes` stands for; `domain/risk_guard.py` and `cross_sync.py`,
decisions over numbers that only scripts ask for.

Two snapshots with one timestamp, after the clock was set back, say: `_active_orders` is keyed by
the trade's `open_timestamp`, so the later trade would take the entry of the earlier. The model numbers the
trades and assumes that this does not happen.

Left out of modelled components: the synchronous delivery of a manager without a
dispatcher, statistics and counters no decision reads, `refresh_rate` and the provider with
one source, escalation of throttled alerts, `clear_all` (tests only); the aggregator of
several exchanges' books and the older `WebSocketMarketDataProvider`; `LiveExecutor`, which is
built by tests only and calls what no API client of the tree has; the choice of the campaign's symbols.

## 8. Plan

Done: the engine, guard and runner with their loops; the state store; the alert path from the rule to
the notifier; the coordinator; the exchange rates; the streams; the paper campaign. What would come next, in this order:

1. `LiveRunner` over `StateStore` in one specification, in place of the snapshot as one record.
2. `RateLimiter` and `ExchangeHealth`, once something follows their advice; `PositionManager`
   once its caller reaches it; several symbols asking `RiskCoordinator` from the engine once it does.
