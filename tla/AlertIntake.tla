---------------------------- MODULE AlertIntake ----------------------------
(***************************************************************************)
(* How an alert gets into the delivery queue: emit_rule_based_alert        *)
(* (alerting/helpers.py) with the AlertThrottler, the rate limit of        *)
(* AlertManager.send_alert, and AlertDispatcher.enqueue with the buffers   *)
(* of AlertRouter.                                                         *)
(*                                                                         *)
(* Producers run in any threads.  The manager holds its lock from the rate *)
(* limit to the answer of the queue; asking the throttler and telling it   *)
(* are calls of their own.  The clock is in steps of the windows' unit.    *)
(* What happens to an alert in the queue is AlertQueue.                    *)
(***************************************************************************)
EXTENDS Integers, FiniteSets, Sums

CONSTANTS
  Producers,
  Keys, Rules, Groups,   \* throttle keys; rules; pairs of severity and source
  RuleOf, GroupOf,       \* of a key; of a rule
  Aggregated,            \* the rules of priority P2 and P3, if routing is on
  ThrottleWindow, RateWindow, BatchWindow,
  RateLimit,             \* rate_limit_per_window of a group
  MaxBatch,              \* alerts at which a batch is flushed
  OverRedis,             \* whether the throttler stands on Redis, and may fail
  None,                  \* no key
  MaxTime, MaxFaults     \* bounds of the model

ASSUME IntakeAssumption ==
  /\ None \notin Keys /\ IsFiniteSet(Rules)
  /\ RuleOf \in [Keys -> Rules] /\ GroupOf \in [Rules -> Groups]
  /\ Aggregated \subseteq Rules
  /\ {ThrottleWindow, RateWindow, BatchWindow, MaxBatch} \subseteq Nat \ {0}
  /\ RateLimit \in [Groups -> Nat]
  /\ OverRedis \in BOOLEAN
  /\ MaxTime \in Nat /\ MaxFaults \in Nat

Time == 0 .. MaxTime
Never == -ThrottleWindow

VARIABLES
  now,
  pc, key,      \* where each producer is, and the key it is at, or None
  stamp,        \* the throttler's time of the last alert of a key, or Never
  tracker,      \* _rate_limit_tracker: how many of the times it lists are which
  batch,        \* _aggregation_buffers: how many alerts, and the first one's time
  queued,       \* external: alerts of each rule the queue has accepted
  passed,       \* history: alerts of each group past the rate limit, by time
  lastSent,     \* history: when each producer last sent each key
  faults

intakeVars == <<now, pc, key, stamp, tracker, batch, queued, passed, lastSent, faults>>

Empty == [count |-> 0, first |-> 0]
Goto(p, where) == pc' = [pc EXCEPT ![p] = where] /\ UNCHANGED key
Return(p) == pc' = [pc EXCEPT ![p] = "idle"] /\ key' = [key EXCEPT ![p] = None]
Group(p) == GroupOf[RuleOf[key[p]]]
Fault == OverRedis /\ faults < MaxFaults /\ faults' = faults + 1

-----------------------------------------------------------------------------
(* Slips of a change to the intake; see the README. *)

\* A time at the edge of the window is dropped.
RecentOpen(g) == [t \in Time |-> IF t > now - RateWindow THEN tracker[g][t] ELSE 0]

\* A throttled alert is let through one step early.
ThrottledEarly(k) == now - stamp[k] < ThrottleWindow - 1

\* One alert more than the limit.
WithinLimitLoose(g) ==
  SumOver([t \in Time |-> IF t >= now - RateWindow THEN tracker[g][t] ELSE 0], Time) <= RateLimit[g]

-----------------------------------------------------------------------------
(* emit_rule_based_alert *)

Throttled(k) == now - stamp[k] < ThrottleWindow

\* should_send says no.
TurnedAway(p, k) ==
  /\ pc[p] = "idle" /\ Throttled(k)
  /\ UNCHANGED intakeVars

\* should_send says yes; an error of Redis lets the alert pass.
ShouldSend(p, k) ==
  /\ pc[p] = "idle"
  /\ key' = [key EXCEPT ![p] = k]
  /\ IF ~Throttled(k) THEN UNCHANGED faults ELSE Fault
  /\ pc' = [pc EXCEPT ![p] = "send"]
  /\ UNCHANGED <<now, stamp, tracker, batch, queued, passed, lastSent>>

\* mark_sent; an error of Redis leaves no mark.
MarkSent(p) ==
  /\ pc[p] = "mark"
  /\ Return(p)
  /\ \/ stamp' = [stamp EXCEPT ![key[p]] = now] /\ UNCHANGED faults
     \/ Fault /\ UNCHANGED stamp
  /\ UNCHANGED <<now, tracker, batch, queued, passed, lastSent>>

-----------------------------------------------------------------------------
(* AlertManager.send_alert *)

\* _check_rate_limit drops the times before the window and counts the others.
Recent(g) == [t \in Time |-> IF t >= now - RateWindow THEN tracker[g][t] ELSE 0]

WithinLimit(g) == SumOver(Recent(g), Time) < RateLimit[g]

RateLimited(p) ==
  /\ pc[p] = "send" /\ ~WithinLimit(Group(p))
  /\ tracker' = [tracker EXCEPT ![Group(p)] = Recent(Group(p))]
  /\ Return(p)
  /\ UNCHANGED <<now, stamp, batch, queued, passed, lastSent, faults>>

\* Past the limit the alert counts, whatever becomes of it.
Pass(p) ==
  /\ pc[p] = "send" /\ WithinLimit(Group(p))
  /\ tracker' = [tracker EXCEPT ![Group(p)] = [Recent(Group(p)) EXCEPT ![now] = @ + 1]]
  /\ passed' = [passed EXCEPT ![Group(p)][now] = @ + 1]
  /\ UNCHANGED <<now, stamp>>

Accept(p) ==
  /\ Goto(p, "mark")
  /\ lastSent' = [lastSent EXCEPT ![p][key[p]] = now]

\* AlertRouter.aggregate_alert: is the batch due, now that it has one more?
Opened(r) == IF batch[r].count = 0 THEN now ELSE batch[r].first

Due(r) == now - Opened(r) >= BatchWindow \/ batch[r].count + 1 >= MaxBatch

Buffered(r) == [count |-> batch[r].count + 1, first |-> Opened(r)]

\* The alert waits in the buffer of its rule.
SendToBuffer(p) ==
  LET r == RuleOf[key[p]] IN
  /\ Pass(p)
  /\ r \in Aggregated /\ ~Due(r)
  /\ batch' = [batch EXCEPT ![r] = Buffered(r)]
  /\ Accept(p)
  /\ UNCHANGED <<queued, faults>>

\* A batch that is due is dropped from the buffer; this alert alone goes to the
\* queue, as one does that is not aggregated.
Flushed(r) == IF r \in Aggregated THEN [batch EXCEPT ![r] = Empty] ELSE batch

\* A slip: the return of the buffering branch is reached after a flush too.
SendToBufferOnly(p) ==
  LET r == RuleOf[key[p]] IN
  /\ Pass(p)
  /\ r \in Aggregated => Due(r)
  /\ batch' = Flushed(r)
  /\ queued' = IF r \in Aggregated THEN queued ELSE [queued EXCEPT ![r] = @ + 1]
  /\ Accept(p)
  /\ UNCHANGED faults

SendToQueue(p) ==
  LET r == RuleOf[key[p]] IN
  /\ Pass(p)
  /\ r \in Aggregated => Due(r)
  /\ batch' = Flushed(r)
  /\ queued' = [queued EXCEPT ![r] = @ + 1]
  /\ Accept(p)
  /\ UNCHANGED faults

\* The queue refuses it.
QueueRefuses(p) ==
  LET r == RuleOf[key[p]] IN
  /\ Pass(p) /\ Fault
  /\ r \in Aggregated => Due(r)
  /\ batch' = Flushed(r)
  /\ Return(p)
  /\ UNCHANGED <<queued, lastSent>>

Tick ==
  /\ now < MaxTime
  /\ now' = now + 1
  /\ UNCHANGED <<pc, key, stamp, tracker, batch, queued, passed, lastSent, faults>>

-----------------------------------------------------------------------------
IntakeInit ==
  /\ now = 0
  /\ pc = [p \in Producers |-> "idle"]
  /\ key = [p \in Producers |-> None]
  /\ stamp = [k \in Keys |-> Never]
  /\ tracker = [g \in Groups |-> [t \in Time |-> 0]]
  /\ batch = [r \in Rules |-> Empty]
  /\ queued = [r \in Rules |-> 0]
  /\ passed = [g \in Groups |-> [t \in Time |-> 0]]
  /\ lastSent = [p \in Producers |-> [k \in Keys |-> Never]]
  /\ faults = 0

Producer(p) ==
  \/ \E k \in Keys : TurnedAway(p, k) \/ ShouldSend(p, k)
  \/ RateLimited(p)
  \/ SendToBuffer(p)
  \/ SendToQueue(p)
  \/ QueueRefuses(p)
  \/ MarkSent(p)

IntakeNext == (\E p \in Producers : Producer(p)) \/ Tick

IntakeSpec == IntakeInit /\ [][IntakeNext]_intakeVars

-----------------------------------------------------------------------------
(* Properties. *)

\* Types.  The tracker of a group never holds more than its limit.
IntakeTypeOK ==
  /\ now \in Time
  /\ pc \in [Producers -> {"idle", "send", "mark"}] /\ key \in [Producers -> Keys \cup {None}]
  /\ \A p \in Producers : pc[p] = "idle" <=> key[p] = None
  /\ stamp \in [Keys -> Time \cup {Never}]
  /\ tracker \in [Groups -> [Time -> Nat]]
  /\ \A g \in Groups : SumOver(tracker[g], Time) <= RateLimit[g]
  /\ batch \in [Rules -> [count : Nat, first : Time]]
  /\ queued \in [Rules -> Nat]
  /\ passed \in [Groups -> [Time -> Nat]]
  /\ lastSent \in [Producers -> [Keys -> Time \cup {Never}]]
  /\ faults \in 0 .. MaxFaults

\* No window, wherever it begins, sees more alerts of a severity and source
\* than rate_limit_per_window.
Window(t) == {u \in Time : t <= u /\ u <= t + RateWindow}
RateLimitHolds ==
  \A g \in Groups, t \in Time : SumOver(passed[g], Window(t)) <= RateLimit[g]

\* A producer does not send a key twice within the throttle window, as long as
\* Redis answers.  Two producers may: they ask before either has left its mark.
ProducerThrottled ==
  [][\A p \in Producers :
       pc[p] = "send" /\ pc'[p] = "mark" /\ faults = 0 => now - lastSent[p][key[p]] >= ThrottleWindow]_intakeVars

\* What aggregation drops is spoken for: as long as nothing fails, every alert of
\* a group past the rate limit is in the queue, waits in a buffer, or was in a
\* batch of at most MaxBatch that put another one into the queue.
RulesOf(g) == {r \in Rules : GroupOf[r] = g}
SpokenFor == [r \in Rules |-> queued[r] * (IF r \in Aggregated THEN MaxBatch ELSE 1) + batch[r].count]
DroppedAreSpokenFor ==
  faults = 0 => \A g \in Groups : SumOver(passed[g], Time) <= SumOver(SpokenFor, RulesOf(g))
=============================================================================
