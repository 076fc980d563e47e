---------------------------- MODULE AlertQueue ----------------------------
(***************************************************************************)
(* Asynchronous alert delivery: PersistentAlertQueue of                    *)
(* alerting/queue_backend.py driven by the worker threads of               *)
(* alerting/dispatcher.py.  Each Redis command (each list operation of the *)
(* in-memory fallback) is one step of a worker; any of them may raise, the *)
(* process may die between two of them, and stop_worker, which waits five  *)
(* seconds at most, may leave its thread behind for the next start_worker. *)
(*                                                                         *)
(* Data.  A message is an alert and its retry_count.  A list is the number *)
(* of copies of each message in it: the order inside a list is left out.   *)
(* Copies of an alert with the same retry_count are alike, and fall due    *)
(* together.                                                               *)
(***************************************************************************)
EXTENDS Integers, FiniteSets

CONSTANTS
  Alerts,      \* the alerts the program may emit, each once
  Workers,     \* names for worker threads
  MaxRetries,  \* PersistentAlertQueue.max_retries
  MaxStops,    \* bound of the model: calls of stop_worker
  MaxCrashes,  \* bound of the model: process crashes
  MaxFaults    \* bound of the model: Redis commands that raise

ASSUME QueueAssumption ==
  /\ MaxRetries \in Nat
  /\ MaxStops \in Nat /\ MaxCrashes \in Nat /\ MaxFaults \in Nat

VARIABLES
  redis,       \* a redis_client was given (else: the in-memory lists)
  pending, processing, retry, dlq,  \* the four lists
  running,     \* _worker_running
  pc,          \* where each worker thread is, "off" when there is none
  scan,        \* the due part of what LRANGE gave the worker, not yet moved
  hand,        \* the message a worker works on: a set of one, or none
  accepted,    \* history: alerts that reached the pending list
  taken,       \* history: alerts some channel took
  failures,    \* history: tries of each alert reported as failed
  acked,       \* history: alerts acknowledged
  stops, crashes, faults

listVars == <<pending, processing, retry, dlq>>
workerVars == <<pc, scan, hand>>
historyVars == <<accepted, taken, failures, acked>>
faultVars == <<stops, crashes, faults>>
queueVars == <<redis, listVars, running, workerVars, historyVars, faultVars>>

Message == [alert : Alerts, attempt : 0 .. MaxRetries]

\* Where a worker is: at the loop top, moving due retries (between LREM and
\* RPUSH: pushing), waiting for BLPOP, between BLPOP and RPUSH (got), sending,
\* and acknowledging or refusing (between LREM and RPUSH: requeue).
WorkerPc == {"off", "top", "move", "push", "wait", "got",
             "send", "ack", "nack", "requeue"}

Empty == [m \in Message |-> 0]
Plus(list, m) == [list EXCEPT ![m] = @ + 1]                    \* RPUSH
Minus(list, m) == [list EXCEPT ![m] = IF @ > 0 THEN @ - 1 ELSE 0]  \* LREM 1, BLPOP

\* The worker w goes to step p with the messages ms in its hand.
Goto(w, p, ms) ==
  /\ pc' = [pc EXCEPT ![w] = p]
  /\ hand' = [hand EXCEPT ![w] = ms]

\* nack counts the failure in the message it puts on the retry list.
Retried(m) == [m EXCEPT !.attempt = @ + 1]

-----------------------------------------------------------------------------
(* Slips a change to the queue or the dispatcher could make; a property      *)
(* below fails when the definition of the code is replaced by one of these.  *)

\* The first try is counted as a retry.
EnqueueAsRetried(a) ==
  /\ a \notin accepted
  /\ pending' = Plus(pending, [alert |-> a, attempt |-> 1])
  /\ accepted' = accepted \cup {a}
  /\ UNCHANGED <<redis, processing, retry, dlq, running, workerVars,
                 taken, failures, acked, faultVars>>

\* The stop flag is looked at between dequeue and dispatch.
WorkerEndsHolding(w) ==
  /\ pc[w] \in {"top", "got"} /\ ~running
  /\ Goto(w, "off", {})
  /\ UNCHANGED <<redis, listVars, running, scan, historyVars, faultVars>>

\* A retry another worker has taken is moved once more, in memory as in Redis.
RemoveRetryAnyway(w, m) ==
  /\ pc[w] = "move" /\ scan[w][m] > 0
  /\ retry' = Minus(retry, m)
  /\ scan' = [scan EXCEPT ![w] = Minus(@, m)]
  /\ Goto(w, "push", {m})
  /\ UNCHANGED <<redis, pending, processing, dlq, running, historyVars, faultVars>>

\* The in-memory dequeue waits as BLPOP does.
FindNothingWhenStopped(w) ==
  /\ pc[w] = "wait" /\ ~redis /\ pending = Empty /\ ~running
  /\ pc' = [pc EXCEPT ![w] = "top"]
  /\ UNCHANGED <<redis, listVars, running, scan, hand, historyVars, faultVars>>

\* The retry is counted before the comparison with max_retries.
RequeueOneLess(w, m) ==
  /\ pc[w] = "requeue" /\ m \in hand[w]
  /\ IF m.attempt + 1 < MaxRetries
     THEN retry' = Plus(retry, Retried(m)) /\ UNCHANGED dlq
     ELSE dlq' = Plus(dlq, m) /\ UNCHANGED retry
  /\ Goto(w, "top", {})
  /\ UNCHANGED <<redis, pending, processing, running, scan, historyVars, faultVars>>

\* The exception leaves the worker loop.
FaultEndsWorker(w) ==
  /\ redis /\ faults < MaxFaults
  /\ faults' = faults + 1
  /\ pc[w] \in {"move", "push", "wait", "got", "ack", "nack", "requeue"}
  /\ Goto(w, "off", {})
  /\ scan' = [scan EXCEPT ![w] = Empty]
  /\ UNCHANGED <<redis, listVars, running, historyVars, stops, crashes>>

-----------------------------------------------------------------------------
(* Producers and the life of the worker threads. *)

Enqueue(a) ==
  /\ a \notin accepted
  /\ pending' = Plus(pending, [alert |-> a, attempt |-> 0])
  /\ accepted' = accepted \cup {a}
  /\ UNCHANGED <<redis, processing, retry, dlq, running, workerVars,
                 taken, failures, acked, faultVars>>

\* start_worker looks at the flag only; a thread that outlived its stop_worker
\* sees the flag up again and runs on beside the new one.
StartWorker(w) ==
  /\ ~running /\ pc[w] = "off"
  /\ running' = TRUE
  /\ pc' = [pc EXCEPT ![w] = "top"]
  /\ UNCHANGED <<redis, listVars, scan, hand, historyVars, faultVars>>

\* stop_worker puts the flag down; the join ends with the thread or without it.
StopWorker ==
  /\ running /\ stops < MaxStops
  /\ running' = FALSE
  /\ stops' = stops + 1
  /\ UNCHANGED <<redis, listVars, workerVars, historyVars, crashes, faults>>

\* The process dies with its threads, and its lists unless they are in Redis.
Crash ==
  /\ crashes < MaxCrashes
  /\ crashes' = crashes + 1
  /\ running' = FALSE
  /\ pc' = [w \in Workers |-> "off"]
  /\ scan' = [w \in Workers |-> Empty]
  /\ hand' = [w \in Workers |-> {}]
  /\ IF redis THEN UNCHANGED listVars
              ELSE /\ pending' = Empty /\ processing' = Empty
                   /\ retry' = Empty /\ dlq' = Empty
  /\ UNCHANGED <<redis, historyVars, stops, faults>>

WorkerEnds(w) ==
  /\ pc[w] = "top" /\ ~running
  /\ pc' = [pc EXCEPT ![w] = "off"]
  /\ UNCHANGED <<redis, listVars, running, scan, hand, historyVars, faultVars>>

-----------------------------------------------------------------------------
(* process_retry_queue *)

\* LRANGE, and the messages of it that are due.
ListRetry(w) ==
  /\ pc[w] = "top" /\ running
  /\ \E due \in SUBSET {m \in Message : retry[m] > 0} :
       scan' = [scan EXCEPT ![w] = [m \in Message |-> IF m \in due THEN retry[m] ELSE 0]]
  /\ pc' = [pc EXCEPT ![w] = "move"]
  /\ UNCHANGED <<redis, listVars, running, hand, historyVars, faultVars>>

\* LREM.  Redis answers 0 when another worker was faster, which nobody looks
\* at; list.remove raises instead, and the rest waits for the next round.
RemoveRetry(w, m) ==
  /\ pc[w] = "move" /\ scan[w][m] > 0
  /\ IF redis \/ retry[m] > 0
     THEN /\ retry' = Minus(retry, m)
          /\ scan' = [scan EXCEPT ![w] = Minus(@, m)]
          /\ Goto(w, "push", {m})
     ELSE /\ scan' = [scan EXCEPT ![w] = Empty]
          /\ Goto(w, "wait", {})
          /\ UNCHANGED retry
  /\ UNCHANGED <<redis, pending, processing, dlq, running, historyVars, faultVars>>

PushRetry(w, m) ==
  /\ pc[w] = "push" /\ m \in hand[w]
  /\ pending' = Plus(pending, m)
  /\ Goto(w, "move", {})
  /\ UNCHANGED <<redis, processing, retry, dlq, running, scan, historyVars, faultVars>>

RetryDone(w) ==
  /\ pc[w] = "move" /\ scan[w] = Empty
  /\ pc' = [pc EXCEPT ![w] = "wait"]
  /\ UNCHANGED <<redis, listVars, running, scan, hand, historyVars, faultVars>>

-----------------------------------------------------------------------------
(* dequeue and _dispatch_alert *)

Pop(w, m) ==
  /\ pc[w] = "wait" /\ pending[m] > 0
  /\ pending' = Minus(pending, m)
  /\ Goto(w, "got", {m})
  /\ UNCHANGED <<redis, processing, retry, dlq, running, scan, historyVars, faultVars>>

\* The worker asks for a timeout of int(0.1) = 0 seconds.  To the in-memory
\* list that is "do not wait"; to BLPOP it is "wait for ever".
FindNothing(w) ==
  /\ pc[w] = "wait" /\ ~redis /\ pending = Empty
  /\ pc' = [pc EXCEPT ![w] = "top"]
  /\ UNCHANGED <<redis, listVars, running, scan, hand, historyVars, faultVars>>

MarkProcessing(w, m) ==
  /\ pc[w] = "got" /\ m \in hand[w]
  /\ processing' = Plus(processing, m)
  /\ pc' = [pc EXCEPT ![w] = "send"]
  /\ UNCHANGED <<redis, pending, retry, dlq, running, scan, hand, historyVars, faultVars>>

\* One channel that took the alert is enough.
SendSucceeds(w, m) ==
  /\ pc[w] = "send" /\ m \in hand[w]
  /\ taken' = taken \cup {m.alert}
  /\ pc' = [pc EXCEPT ![w] = "ack"]
  /\ UNCHANGED <<redis, listVars, running, scan, hand,
                 accepted, failures, acked, faultVars>>

\* No channel reports success.  A send that timed out is not cancelled, and
\* an exception may follow a send that went well: the alert may be out.
SendFails(w, m) ==
  /\ pc[w] = "send" /\ m \in hand[w]
  /\ taken' \in {taken, taken \cup {m.alert}}
  /\ failures' = [failures EXCEPT ![m.alert] = @ + 1]
  /\ pc' = [pc EXCEPT ![w] = "nack"]
  /\ UNCHANGED <<redis, listVars, running, scan, hand, accepted, acked, faultVars>>

-----------------------------------------------------------------------------
(* ack and nack *)

Ack(w, m) ==
  /\ pc[w] = "ack" /\ m \in hand[w]
  /\ processing' = Minus(processing, m)
  /\ acked' = acked \cup {m.alert}
  /\ Goto(w, "top", {})
  /\ UNCHANGED <<redis, pending, retry, dlq, running, scan,
                 accepted, taken, failures, faultVars>>

NackRemove(w, m) ==
  /\ pc[w] = "nack" /\ m \in hand[w]
  /\ processing' = Minus(processing, m)
  /\ pc' = [pc EXCEPT ![w] = "requeue"]
  /\ UNCHANGED <<redis, pending, retry, dlq, running, scan, hand, historyVars, faultVars>>

Requeue(w, m) ==
  /\ pc[w] = "requeue" /\ m \in hand[w]
  /\ IF m.attempt < MaxRetries
     THEN retry' = Plus(retry, Retried(m)) /\ UNCHANGED dlq
     ELSE dlq' = Plus(dlq, m) /\ UNCHANGED retry
  /\ Goto(w, "top", {})
  /\ UNCHANGED <<redis, pending, processing, running, scan, historyVars, faultVars>>

-----------------------------------------------------------------------------
(* A Redis command that raises.  Every method of the queue catches it and    *)
(* returns: the worker goes on, and what it had in its hand is gone from the *)
(* list it came from.  A counter (HINCRBY) that raises after the command it  *)
(* counts makes a difference in dequeue only.                                *)

Fault(w) ==
  /\ redis /\ faults < MaxFaults
  /\ faults' = faults + 1
  /\ \/ /\ pc[w] \in {"move", "push"}       \* the rest of the round is given up
        /\ Goto(w, "wait", {})
        /\ UNCHANGED processing
     \/ /\ pc[w] \in {"wait", "got", "ack", "nack", "requeue"}
        /\ Goto(w, "top", {})
        /\ UNCHANGED processing
     \/ /\ pc[w] = "got"                    \* the counter raises, the RPUSH is done
        /\ \E m \in hand[w] : processing' = Plus(processing, m)
        /\ Goto(w, "top", {})
  /\ scan' = [scan EXCEPT ![w] = Empty]
  /\ UNCHANGED <<redis, pending, retry, dlq, running, historyVars, stops, crashes>>

-----------------------------------------------------------------------------
QueueInit ==
  /\ redis \in BOOLEAN
  /\ pending = Empty /\ processing = Empty /\ retry = Empty /\ dlq = Empty
  /\ running = FALSE
  /\ pc = [w \in Workers |-> "off"]
  /\ scan = [w \in Workers |-> Empty]
  /\ hand = [w \in Workers |-> {}]
  /\ accepted = {} /\ taken = {} /\ acked = {}
  /\ failures = [a \in Alerts |-> 0]
  /\ stops = 0 /\ crashes = 0 /\ faults = 0

HandleMessage(w, m) ==
  \/ RemoveRetry(w, m)
  \/ PushRetry(w, m)
  \/ Pop(w, m)
  \/ MarkProcessing(w, m)
  \/ SendSucceeds(w, m)
  \/ SendFails(w, m)
  \/ Ack(w, m)
  \/ NackRemove(w, m)
  \/ Requeue(w, m)

\* _worker_loop
WorkerStep(w) ==
  \/ WorkerEnds(w)
  \/ ListRetry(w)
  \/ RetryDone(w)
  \/ FindNothing(w)
  \/ \E m \in Message : HandleMessage(w, m)

QueueNext ==
  \/ \E a \in Alerts : Enqueue(a)
  \/ \E w \in Workers : StartWorker(w) \/ WorkerStep(w) \/ Fault(w)
  \/ StopWorker
  \/ Crash

QueueSpec == QueueInit /\ [][QueueNext]_queueVars

-----------------------------------------------------------------------------
(* Safety. *)

Lists == {pending, processing, retry, dlq}

\* A worker holds one message in the stages between taking it off a list and
\* the last command for it, and none in the others.
HandFits(p, ms) ==
  IF p \in {"off", "top", "move", "wait"}
  THEN ms = {} ELSE \E m \in Message : ms = {m}

\* Types, and hands that fit the stage of their worker.
QueueTypeOK ==
  /\ redis \in BOOLEAN /\ running \in BOOLEAN
  /\ pending \in [Message -> Nat] /\ processing \in [Message -> Nat]
  /\ retry \in [Message -> Nat] /\ dlq \in [Message -> Nat]
  /\ pc \in [Workers -> WorkerPc]
  /\ scan \in [Workers -> [Message -> Nat]]
  /\ hand \in [Workers -> SUBSET Message]
  /\ accepted \subseteq Alerts /\ taken \subseteq Alerts /\ acked \subseteq Alerts
  /\ failures \in [Alerts -> Nat]
  /\ stops \in Nat /\ crashes \in Nat /\ faults \in Nat
  /\ \A w \in Workers : HandFits(pc[w], hand[w])

\* The retry_count of a message never runs ahead of the failures its alert
\* had, in whatever list or hand its copies are: no retry is skipped.
AttemptsWereMade ==
  \A m \in Message :
    \/ \E list \in Lists : list[m] > 0
    \/ \E w \in Workers : m \in hand[w] \/ scan[w][m] > 0
    => failures[m.alert] >= m.attempt

\* An alert reaches the dead letter queue only after its first try and every
\* retry failed.
DeadAfterAllRetries ==
  \A m \in Message : dlq[m] > 0 => failures[m.alert] > MaxRetries

\* The message is in a list or in the hand of a worker.
Held(a) ==
  \E m \in Message :
    /\ m.alert = a
    /\ \/ pending[m] > 0 \/ processing[m] > 0 \/ retry[m] > 0 \/ dlq[m] > 0
       \/ \E w \in Workers : m \in hand[w]

\* Without a crash and a failing Redis no accepted alert disappears, however
\* many workers are at it: it is settled or somebody has it.
NothingLost ==
  crashes = 0 /\ faults = 0 => \A a \in accepted : a \in acked \/ Held(a)

\* An alert that is settled, as delivered or as dead, is not tried again.
\* Two workers at one Redis do not keep to it (see the README).
NoTryAfterSettled ==
  [][stops = 0 \/ ~redis =>
       \A a \in Alerts :
         a \in acked \/ (\E m \in Message : m.alert = a /\ dlq[m] > 0)
         => /\ failures'[a] = failures[a]
            /\ a \in taken' => a \in taken]_queueVars

-----------------------------------------------------------------------------
(* The queue implements AlertDelivery. *)

Delivery == INSTANCE AlertDelivery WITH
  Retries <- MaxRetries,
  done <- acked,
  dead <- {a \in Alerts : \E m \in Message : m.alert = a /\ dlq[m] > 0}

\* Copies, crashes and failing commands may delay, lose or repeat an alert;
\* they never make one up, never settle what no channel took and never give
\* one up early.
DeliveryRefined == Delivery!Spec

-----------------------------------------------------------------------------
(* Liveness.  The threads keep running, and a retry that is looked at again  *)
(* and again falls due in the end: its retry_at is five seconds away.        *)

FairQueueSpec ==
  /\ QueueSpec
  /\ \A w \in Workers : WF_queueVars(WorkerStep(w))
  /\ \A m \in Message : SF_queueVars(\E w \in Workers : ListRetry(w) /\ scan'[w][m] > 0)

Settled(a) == a \in acked \/ \E m \in Message : m.alert = a /\ dlq[m] > 0

\* With the in-memory lists every accepted alert is delivered or given up in
\* the end, also when worker threads come and go: what a thread leaves
\* behind is picked up by the next one.
AlertsSettle ==
  ~redis /\ [](crashes = 0) /\ <>[]running =>
    \A a \in Alerts : a \in accepted ~> Settled(a)

\* With Redis what is pending is taken in the end, after a crash and after a
\* failing command too.
PendingIsTaken ==
  redis /\ <>[]running => \A m \in Message : pending[m] > 0 ~> pending[m] = 0
=============================================================================
