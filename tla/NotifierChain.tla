--------------------------- MODULE NotifierChain ---------------------------
(***************************************************************************)
(* What a worker thread does in the stage "send" of AlertQueue: the loop   *)
(* over the channels in AlertDispatcher._dispatch_alert, the circuit       *)
(* breakers of FailSafeNotifier and the NotifierFallbackChain              *)
(* (alerting/failsafe_notifier.py).                                        *)
(*                                                                         *)
(* A thread holds the lock of a notifier for the whole try, and the lock   *)
(* of a chain from its first notifier to its answer; looking whether a     *)
(* notifier is available and sending to it take the notifier's lock twice. *)
(* Time is not modelled: an open circuit has rested for                    *)
(* circuit_breaker_reset_seconds ("cooled") some time after it opened.     *)
(***************************************************************************)
EXTENDS Integers, Sequences

CONSTANTS
  Threads,    \* worker threads
  Alerts,     \* alerts they send; copies of one may be sent again
  Notifiers,  \* the FailSafeNotifiers and the log
  Log,        \* the LocalLogNotifier: no breaker, no lock
  Routes,     \* of each channel, in their order: is there a fallback chain,
              \* and the notifiers (none if the channel is not registered)
  Threshold   \* circuit_breaker_threshold

Guarded == Notifiers \ {Log}
Channel == DOMAIN Routes

ASSUME ChainAssumption ==
  /\ Log \in Notifiers
  /\ Routes \in Seq([chained : BOOLEAN, notifiers : Seq(Notifiers)]) /\ Routes # <<>>
  /\ Threshold \in Nat \ {0}

VARIABLES
  circuit,    \* _circuit_open, and whether an open one has rested long enough
  failures,   \* _consecutive_failures
  up,         \* external: whether the service behind a notifier works
  pc,         \* where each thread is
  alert,      \* the alert it sends
  todo,       \* the channels of the dispatch plan still to come
  at,         \* the channel it is at, and its place in the notifiers there
  ok,         \* success in _dispatch_alert
  verdict,    \* what its last dispatch told the queue
  hanging,    \* alerts in sends that timed out and whose thread is under way
  tried, taken,  \* history: alerts somebody began to send; some notifier took
  wasted      \* history: failed tries since the notifier last took an alert,
              \* was reset, or had rested

breakerVars == <<circuit, failures>>
threadVars == <<pc, alert, todo, at, ok, verdict>>
outsideVars == <<hanging, tried, taken>>
chainVars == <<breakerVars, up, threadVars, outsideVars, wasted>>

\* Idle, between two channels, about to ask is_available, about to call send,
\* and inside send with the lock.
ThreadPc == {"idle", "channel", "look", "call", "try"}

Nowhere == <<1, 1>>
Route(t) == Routes[at[t][1]].notifiers
At(t) == Route(t)[at[t][2]]
InChannel(t) == pc[t] \in {"look", "call", "try"}

\* The locks.
ChainFree(c) ==
  Routes[c].chained => \A t \in Threads : ~(InChannel(t) /\ at[t][1] = c)
Free(n) == n = Log \/ \A t \in Threads : ~(pc[t] = "try" /\ At(t) = n)

\* The channel ends for thread t, with or without success.
Leave(t, success) ==
  /\ pc' = [pc EXCEPT ![t] = "channel"]
  /\ at' = [at EXCEPT ![t] = Nowhere]
  /\ ok' = [ok EXCEPT ![t] = @ \/ success]

\* The notifier at hand did not take the alert: the next one of the chain.
Advance(t) ==
  IF at[t][2] < Len(Route(t))
  THEN /\ pc' = [pc EXCEPT ![t] = "look"]
       /\ at' = [at EXCEPT ![t][2] = @ + 1]
       /\ UNCHANGED ok
  ELSE Leave(t, FALSE)

\* _on_failure; the log has no breaker.
CountFailure(n) ==
  IF n = Log THEN UNCHANGED <<breakerVars, wasted>>
  ELSE /\ failures' = [failures EXCEPT ![n] = @ + 1]
       /\ circuit' = IF failures[n] + 1 >= Threshold
                     THEN [circuit EXCEPT ![n] = "open"] ELSE circuit
       /\ wasted' = [wasted EXCEPT ![n] = @ + 1]

-----------------------------------------------------------------------------
(* Slips of a change to the notifiers; see the README. *)

\* The chain has looked at the circuit: send need not do it again.
CallTrusted(t) ==
  /\ pc[t] = "call" /\ Free(At(t))
  /\ failures' = [failures EXCEPT ![At(t)] = IF circuit[At(t)] = "cooled" THEN 0 ELSE @]
  /\ circuit' = [circuit EXCEPT ![At(t)] = IF @ = "cooled" THEN "closed" ELSE @]
  /\ pc' = [pc EXCEPT ![t] = "try"]
  /\ UNCHANGED <<up, alert, todo, at, ok, verdict, outsideVars, wasted>>

\* An open circuit stays open until it is reset by hand.
CallNeverCloses(t) ==
  /\ pc[t] = "call" /\ Free(At(t))
  /\ IF circuit[At(t)] # "closed"
     THEN Advance(t)
     ELSE /\ pc' = [pc EXCEPT ![t] = "try"]
          /\ UNCHANGED <<at, ok>>
  /\ UNCHANGED <<breakerVars, up, alert, todo, verdict, outsideVars, wasted>>

\* break instead of continue.
LookGivesUp(t) ==
  /\ pc[t] = "look" /\ Free(At(t))
  /\ IF circuit[At(t)] = "closed"
     THEN pc' = [pc EXCEPT ![t] = "call"] /\ UNCHANGED <<at, ok>>
     ELSE Leave(t, FALSE)
  /\ UNCHANGED <<breakerVars, up, alert, todo, verdict, outsideVars, wasted>>

\* The chain waits until the notifier is available.
LookWaits(t) ==
  /\ pc[t] = "look" /\ Free(At(t))
  /\ circuit[At(t)] = "closed"
  /\ pc' = [pc EXCEPT ![t] = "call"]
  /\ UNCHANGED <<breakerVars, up, alert, todo, at, ok, verdict, outsideVars, wasted>>

\* A send that is still under way when join returns counts as done.
TimeoutIsSuccess(t) ==
  /\ pc[t] = "try" /\ At(t) # Log /\ ~up[At(t)]
  /\ hanging' = hanging \cup {alert[t]}
  /\ failures' = [failures EXCEPT ![At(t)] = 0]
  /\ wasted' = [wasted EXCEPT ![At(t)] = 0]
  /\ Leave(t, TRUE)
  /\ UNCHANGED <<circuit, up, alert, todo, verdict, tried, taken>>

-----------------------------------------------------------------------------
(* _dispatch_alert *)

Dispatch(t, a, plan) ==
  /\ pc[t] = "idle"
  /\ pc' = [pc EXCEPT ![t] = "channel"]
  /\ alert' = [alert EXCEPT ![t] = a]
  /\ todo' = [todo EXCEPT ![t] = plan]
  /\ verdict' = [verdict EXCEPT ![t] = "none"]
  /\ tried' = tried \cup {a}
  /\ UNCHANGED <<breakerVars, up, at, ok, hanging, taken, wasted>>

\* The next channel: through its chain, to its notifier, or to nobody.
NextChannel(t) ==
  /\ pc[t] = "channel"
  /\ \E c \in todo[t] :
       /\ \A d \in todo[t] : c <= d
       /\ ChainFree(c)
       /\ todo' = [todo EXCEPT ![t] = @ \ {c}]
       /\ IF Routes[c].notifiers = <<>>
          THEN UNCHANGED <<pc, at>>
          ELSE /\ pc' = [pc EXCEPT ![t] = IF Routes[c].chained THEN "look" ELSE "call"]
               /\ at' = [at EXCEPT ![t] = <<c, 1>>]
  /\ UNCHANGED <<breakerVars, up, alert, ok, verdict, outsideVars, wasted>>

\* One channel that took the alert makes it a success.
Finish(t) ==
  /\ pc[t] = "channel" /\ todo[t] = {}
  /\ pc' = [pc EXCEPT ![t] = "idle"]
  /\ verdict' = [verdict EXCEPT ![t] = IF ok[t] THEN "sent" ELSE "failed"]
  /\ ok' = [ok EXCEPT ![t] = FALSE]
  /\ UNCHANGED <<breakerVars, up, alert, todo, at, outsideVars, wasted>>

-----------------------------------------------------------------------------
(* NotifierFallbackChain.send and FailSafeNotifier.send *)

\* is_available: an open circuit is skipped, however long it has rested.
LookAvailable(t) ==
  /\ pc[t] = "look" /\ Free(At(t))
  /\ IF At(t) = Log \/ circuit[At(t)] = "closed"
     THEN pc' = [pc EXCEPT ![t] = "call"] /\ UNCHANGED <<at, ok>>
     ELSE Advance(t)
  /\ UNCHANGED <<breakerVars, up, alert, todo, verdict, outsideVars, wasted>>

\* The lock, and the look at the breaker: one that has rested is closed and its
\* failures forgotten.
Call(t) ==
  /\ pc[t] = "call" /\ Free(At(t))
  /\ IF At(t) # Log /\ circuit[At(t)] = "open"
     THEN Advance(t) /\ UNCHANGED breakerVars
     ELSE /\ circuit' = [circuit EXCEPT ![At(t)] = "closed"]
          /\ failures' = [failures EXCEPT ![At(t)] = IF circuit[At(t)] = "cooled" THEN 0 ELSE @]
          /\ pc' = [pc EXCEPT ![t] = "try"]
          /\ UNCHANGED <<at, ok>>
  /\ UNCHANGED <<up, alert, todo, verdict, outsideVars, wasted>>

TrySucceeds(t) ==
  /\ pc[t] = "try"
  /\ taken' = taken \cup {alert[t]}
  /\ failures' = [failures EXCEPT ![At(t)] = 0]
  /\ wasted' = [wasted EXCEPT ![At(t)] = 0]
  /\ Leave(t, TRUE)
  /\ UNCHANGED <<circuit, up, alert, todo, verdict, hanging, tried>>

\* The notifier answers False or raises.
TryFails(t) ==
  /\ pc[t] = "try" /\ (At(t) # Log => ~up[At(t)])
  /\ CountFailure(At(t))
  /\ Advance(t)
  /\ UNCHANGED <<up, alert, todo, verdict, outsideVars>>

\* The join returns and the send is under way: nobody cancels it.
TryTimesOut(t) ==
  /\ pc[t] = "try" /\ At(t) # Log /\ ~up[At(t)]
  /\ hanging' = hanging \cup {alert[t]}
  /\ CountFailure(At(t))
  /\ Advance(t)
  /\ UNCHANGED <<up, alert, todo, verdict, tried, taken>>

-----------------------------------------------------------------------------
(* Outside the threads. *)

\* A send that timed out arrives after all, or fails in the end.
Late(a) ==
  /\ a \in hanging
  /\ hanging' = hanging \ {a}
  /\ taken' \in {taken, taken \cup {a}}
  /\ UNCHANGED <<breakerVars, up, threadVars, tried, wasted>>

\* circuit_breaker_reset_seconds have passed since the circuit opened.
Cool(n) ==
  /\ circuit[n] = "open"
  /\ circuit' = [circuit EXCEPT ![n] = "cooled"]
  /\ wasted' = [wasted EXCEPT ![n] = 0]
  /\ UNCHANGED <<failures, up, threadVars, outsideVars>>

\* The service behind a notifier begins or ceases to answer well.
ServiceChanges(n) ==
  /\ up' = [up EXCEPT ![n] = ~@]
  /\ UNCHANGED <<breakerVars, threadVars, outsideVars, wasted>>

\* reset_circuit, an operator's command.
ResetCircuit(n) ==
  /\ Free(n)
  /\ circuit' = [circuit EXCEPT ![n] = "closed"]
  /\ failures' = [failures EXCEPT ![n] = 0]
  /\ wasted' = [wasted EXCEPT ![n] = 0]
  /\ UNCHANGED <<up, threadVars, outsideVars>>

-----------------------------------------------------------------------------
ChainInit ==
  /\ circuit = [n \in Notifiers |-> "closed"]
  /\ failures = [n \in Notifiers |-> 0]
  /\ up \in [Guarded -> BOOLEAN]
  /\ pc = [t \in Threads |-> "idle"]
  /\ alert \in [Threads -> Alerts]
  /\ todo = [t \in Threads |-> {}]
  /\ at = [t \in Threads |-> Nowhere]
  /\ ok = [t \in Threads |-> FALSE]
  /\ verdict = [t \in Threads |-> "none"]
  /\ hanging = {} /\ tried = {} /\ taken = {}
  /\ wasted = [n \in Notifiers |-> 0]

ThreadStep(t) ==
  \/ NextChannel(t)
  \/ Finish(t)
  \/ LookAvailable(t)
  \/ Call(t)
  \/ TrySucceeds(t)
  \/ TryFails(t)
  \/ TryTimesOut(t)

Outside(n) ==
  \/ Cool(n)
  \/ ResetCircuit(n)
  \/ ServiceChanges(n)

ChainNext ==
  \/ \E t \in Threads :
       ThreadStep(t) \/ \E a \in Alerts, plan \in SUBSET Channel : Dispatch(t, a, plan)
  \/ \E n \in Guarded : Outside(n)
  \/ \E a \in Alerts : Late(a)

ChainSpec == ChainInit /\ [][ChainNext]_chainVars

-----------------------------------------------------------------------------
(* Safety. *)

\* Types.  The failures of a notifier stay below the threshold while its
\* circuit is closed and never pass it, which rests on one try at a time.
ChainTypeOK ==
  /\ circuit \in [Notifiers -> {"closed", "open", "cooled"}]
  /\ failures \in [Notifiers -> 0 .. Threshold]
  /\ up \in [Guarded -> BOOLEAN]
  /\ pc \in [Threads -> ThreadPc]
  /\ alert \in [Threads -> Alerts]
  /\ todo \in [Threads -> SUBSET Channel]
  /\ at \in [Threads -> Channel \X Nat]
  /\ \A t \in Threads : InChannel(t) => at[t][2] \in DOMAIN Route(t)
  /\ ok \in [Threads -> BOOLEAN]
  /\ verdict \in [Threads -> {"none", "sent", "failed"}]
  /\ hanging \subseteq Alerts /\ tried \subseteq Alerts /\ taken \subseteq Alerts
  /\ wasted \in [Notifiers -> Nat]
  /\ \A n \in Guarded : circuit[n] = "closed" => failures[n] < Threshold

\* A service that is down costs at most Threshold tries, each of them as long
\* as the time-out, before it is left alone for the reset time, however many
\* threads and chains send to it.
BreakerRests == \A n \in Guarded : wasted[n] <= Threshold

\* A chain with the log at its end gives an alert up only when the log itself
\* failed: no open circuit keeps an alert from it.
LogIsLastResort ==
  [][\A t \in Threads :
       /\ InChannel(t) /\ pc'[t] = "channel"
       /\ Routes[at[t][1]].chained /\ Route(t)[Len(Route(t))] = Log
       /\ ~ok[t] /\ ~ok'[t]
       => pc[t] = "try" /\ At(t) = Log]_chainVars

\* What is reported as sent was taken by a notifier (AlertSend), which is what
\* SendSucceeds and SendFails of AlertQueue stand on.
Promise == INSTANCE AlertSend WITH
  report <- [t \in Threads |-> IF pc[t] = "idle" THEN verdict[t] ELSE "busy"]

SendRefined == Promise!Spec

-----------------------------------------------------------------------------
(* Liveness.  A thread keeps running: a send ends with its time-out, and the *)
(* locks are given to every thread that waits often enough.  Time passes.    *)

FairChainSpec ==
  /\ ChainSpec
  /\ \A t \in Threads : SF_chainVars(ThreadStep(t))
  /\ \A n \in Guarded : WF_chainVars(Cool(n))

\* Every dispatch ends, whatever the services do: two threads do not wait for
\* each other's locks.
DispatchEnds == \A t \in Threads : pc[t] # "idle" ~> pc[t] = "idle"

\* Asked again and again, a notifier whose service works for good is used
\* for good: its circuit does not stay open.
Recovers(c) ==
  LET n == Routes[c].notifiers[1] IN
  /\ <>[]up[n]
  /\ []<>(\E t \in Threads : pc[t] = "call" /\ at[t] = <<c, 1>>)
  => <>[](circuit[n] = "closed")

\* So it is for a channel that has no chain; a chain skips an open circuit, and
\* only a try closes it: see the README.
DirectChannelRecovers ==
  \A c \in Channel :
    ~Routes[c].chained /\ Routes[c].notifiers # <<>> => Recovers(c)

=============================================================================
