------------------------- MODULE AlertQueueProofs -------------------------
(***************************************************************************)
(* Proofs about AlertQueue, for every set of alerts and of workers, every  *)
(* number of retries, and any number of crashes, restarts of the worker    *)
(* and failing Redis commands.                                             *)
(***************************************************************************)
EXTENDS AlertQueue, TLAPS

-----------------------------------------------------------------------------
(* The inductive invariant. *)

\* What every copy of a message stands on: its alert was accepted, and failed
\* as often as the message says.
Backed(m) == m.alert \in accepted /\ failures[m.alert] >= m.attempt

ListsBacked ==
  \A m \in Message :
    /\ pending[m] > 0 => Backed(m)
    /\ processing[m] > 0 => Backed(m)
    /\ retry[m] > 0 => Backed(m)
    /\ dlq[m] > 0 => Backed(m) /\ failures[m.alert] > MaxRetries

\* In a hand the message may be further: refused, or taken by a channel.
HandsBacked ==
  \A w \in Workers, m \in Message :
    /\ scan[w][m] > 0 => Backed(m)
    /\ m \in hand[w] =>
         /\ Backed(m)
         /\ pc[w] \in {"nack", "requeue"} => failures[m.alert] > m.attempt
         /\ pc[w] = "ack" => m.alert \in taken

QueueInv == QueueTypeOK /\ ListsBacked /\ HandsBacked

-----------------------------------------------------------------------------
(* Lists. *)

\* RPUSH adds a copy of one message.
LEMMA PlusAdds ==
  ASSUME NEW list \in [Message -> Nat], NEW m \in Message
  PROVE  /\ Plus(list, m) \in [Message -> Nat]
         /\ \A n \in Message : Plus(list, m)[n] = IF n = m THEN list[n] + 1 ELSE list[n]
  BY DEF Plus

\* LREM and BLPOP take a copy of one message at most.
LEMMA MinusTakes ==
  ASSUME NEW list \in [Message -> Nat], NEW m \in Message
  PROVE  /\ Minus(list, m) \in [Message -> Nat]
         /\ \A n \in Message : /\ Minus(list, m)[n] <= list[n]
                               /\ n # m => Minus(list, m)[n] = list[n]
  BY DEF Minus

LEMMA EmptyIsList == Empty \in [Message -> Nat] /\ \A m \in Message : Empty[m] = 0
  BY DEF Empty

\* The message nack puts on the retry list is one, with one try more.
LEMMA RetriedIsMessage ==
  ASSUME NEW m \in Message, m.attempt < MaxRetries
  PROVE  /\ Retried(m) \in Message
         /\ Retried(m).alert = m.alert
         /\ Retried(m).attempt = m.attempt + 1
<1>1. MaxRetries \in Nat
  BY QueueAssumption
<1>2. m.alert \in Alerts /\ m.attempt \in 0 .. MaxRetries
  BY DEF Message
<1>3. Retried(m).alert = m.alert /\ Retried(m).attempt = m.attempt + 1
  BY DEF Retried, Message
<1>4. Retried(m) = [alert |-> m.alert, attempt |-> m.attempt + 1]
  BY DEF Retried, Message
<1>5. m.attempt + 1 \in 0 .. MaxRetries
  BY <1>1, <1>2
<1>6. QED
  BY <1>2, <1>3, <1>4, <1>5 DEF Message

-----------------------------------------------------------------------------
(* Types. *)

\* Goto moves one worker and leaves the others where they are.
LEMMA GotoMoves ==
  ASSUME NEW w \in Workers, NEW p \in WorkerPc, NEW ms \in SUBSET Message,
         pc \in [Workers -> WorkerPc], hand \in [Workers -> SUBSET Message],
         Goto(w, p, ms)
  PROVE  /\ pc' \in [Workers -> WorkerPc] /\ hand' \in [Workers -> SUBSET Message]
         /\ pc'[w] = p /\ hand'[w] = ms
         /\ \A v \in Workers \ {w} : pc'[v] = pc[v] /\ hand'[v] = hand[v]
  BY DEF Goto

\* The type invariant in parts: the workers, their hands, and the rest.
WorkersTyped == pc \in [Workers -> WorkerPc] /\ hand \in [Workers -> SUBSET Message]

HandsFit == \A w \in Workers : HandFits(pc[w], hand[w])

RestTyped ==
  /\ redis \in BOOLEAN /\ running \in BOOLEAN
  /\ pending \in [Message -> Nat] /\ processing \in [Message -> Nat]
  /\ retry \in [Message -> Nat] /\ dlq \in [Message -> Nat]
  /\ scan \in [Workers -> [Message -> Nat]]
  /\ accepted \subseteq Alerts /\ taken \subseteq Alerts /\ acked \subseteq Alerts
  /\ failures \in [Alerts -> Nat]
  /\ stops \in Nat /\ crashes \in Nat /\ faults \in Nat

LEMMA TypeParts == QueueTypeOK <=> RestTyped /\ WorkersTyped /\ HandsFit
  BY DEF QueueTypeOK, RestTyped, WorkersTyped, HandsFit

LEMMA HandsStayFit ==
  ASSUME WorkersTyped, HandsFit,
         NEW w \in Workers, NEW p \in WorkerPc, NEW ms \in SUBSET Message,
         Goto(w, p, ms), HandFits(p, ms)
  PROVE  WorkersTyped' /\ HandsFit'
<1>1. /\ pc' \in [Workers -> WorkerPc] /\ hand' \in [Workers -> SUBSET Message]
      /\ pc'[w] = p /\ hand'[w] = ms
      /\ \A v \in Workers \ {w} : pc'[v] = pc[v] /\ hand'[v] = hand[v]
  BY GotoMoves DEF WorkersTyped
<1>2. ASSUME NEW v \in Workers PROVE HandFits(pc'[v], hand'[v])
  <2>1. CASE v = w
    BY <1>1, <2>1
  <2>2. CASE v # w
    BY <1>1, <2>2 DEF HandsFit
  <2>3. QED
    BY <2>1, <2>2
<1>3. QED
  BY <1>1, <1>2 DEF WorkersTyped, HandsFit

\* A step that leaves the hand alone keeps it fitting when the old and the new
\* stage are of the same kind.
LEMMA StageMoves ==
  ASSUME WorkersTyped, HandsFit,
         NEW w \in Workers, NEW p \in WorkerPc,
         pc' = [pc EXCEPT ![w] = p], hand' = hand,
         pc[w] \in {"off", "top", "move", "wait"} <=> p \in {"off", "top", "move", "wait"}
  PROVE  WorkersTyped' /\ HandsFit'
<1>1. hand' = [hand EXCEPT ![w] = hand[w]] /\ hand[w] \in SUBSET Message
  BY DEF WorkersTyped
<1>2. Goto(w, p, hand[w])
  BY <1>1 DEF Goto
<1>3. HandFits(p, hand[w])
  BY DEF HandsFit, HandFits
<1>4. QED
  BY <1>1, <1>2, <1>3, HandsStayFit

LEMMA HandsOfStages ==
  /\ \A p \in {"off", "top", "move", "wait"} : HandFits(p, {}) /\ p \in WorkerPc
  /\ \A p \in WorkerPc \ {"off", "top", "move", "wait"}, m \in Message : HandFits(p, {m})
  BY DEF HandFits, WorkerPc

\* Every step keeps the types.
LEMMA TypesKept == QueueTypeOK /\ [QueueNext]_queueVars => QueueTypeOK'
<1> DEFINE Typed == RestTyped' /\ WorkersTyped' /\ HandsFit'
<1> SUFFICES ASSUME RestTyped, WorkersTyped, HandsFit, [QueueNext]_queueVars PROVE Typed
  <2>1. Typed => QueueTypeOK'
    BY DEF QueueTypeOK, RestTyped, WorkersTyped, HandsFit
  <2>2. QED
    BY <2>1, TypeParts
<1>e. Empty \in [Message -> Nat]
  BY EmptyIsList
<1>m. \A m \in Message : m.alert \in Alerts
  BY DEF Message
<1>1. ASSUME NEW a \in Alerts, Enqueue(a) PROVE Typed
  <2>1. [alert |-> a, attempt |-> 0] \in Message
    BY QueueAssumption DEF Message
  <2>2. pending' \in [Message -> Nat]
    BY <1>1, <2>1, PlusAdds DEF Enqueue, RestTyped
  <2>3. accepted' \subseteq Alerts
    BY <1>1 DEF Enqueue, RestTyped
  <2>4. RestTyped'
    BY <1>1, <2>2, <2>3 DEF Enqueue, workerVars, faultVars, RestTyped
  <2>5. pc' = pc /\ hand' = hand
    BY <1>1 DEF Enqueue, workerVars
  <2>6. QED
    BY <2>4, <2>5 DEF WorkersTyped, HandsFit
<1>2. ASSUME NEW w \in Workers, StartWorker(w) PROVE Typed
  <2>1. RestTyped'
    BY <1>2 DEF StartWorker, listVars, historyVars, faultVars, RestTyped
  <2>2. QED
    BY <1>2, <2>1, StageMoves, HandsOfStages DEF StartWorker
<1>3. CASE StopWorker
  <2>1. RestTyped'
    <3>1. running' \in BOOLEAN
      BY <1>3 DEF StopWorker
    <3>2. stops' \in Nat
      BY <1>3 DEF StopWorker, RestTyped
    <3>3. QED
      BY <1>3, <3>1, <3>2 DEF StopWorker, listVars, workerVars, historyVars, RestTyped
  <2>2. pc' = pc /\ hand' = hand
    BY <1>3 DEF StopWorker, workerVars
  <2>3. QED
    BY <2>1, <2>2 DEF WorkersTyped, HandsFit
<1>4. CASE Crash
  <2>1. RestTyped'
    <3>1. running' \in BOOLEAN /\ scan' \in [Workers -> [Message -> Nat]]
      BY <1>4, <1>e DEF Crash
    <3>2. crashes' \in Nat
      BY <1>4 DEF Crash, RestTyped
    <3>3. /\ pending' \in [Message -> Nat] /\ processing' \in [Message -> Nat]
          /\ retry' \in [Message -> Nat] /\ dlq' \in [Message -> Nat]
      BY <1>4, <1>e DEF Crash, listVars, RestTyped
    <3>4. QED
      BY <1>4, <3>1, <3>2, <3>3 DEF Crash, historyVars, RestTyped
  <2>2. pc' = [w \in Workers |-> "off"] /\ hand' = [w \in Workers |-> {}]
    BY <1>4 DEF Crash
  <2>3. QED
    BY <2>1, <2>2, HandsOfStages DEF WorkersTyped, HandsFit
<1>5. ASSUME NEW w \in Workers, WorkerEnds(w) PROVE Typed
  <2>1. RestTyped'
    BY <1>5 DEF WorkerEnds, listVars, historyVars, faultVars, RestTyped
  <2>2. QED
    BY <1>5, <2>1, StageMoves, HandsOfStages DEF WorkerEnds
<1>6. ASSUME NEW w \in Workers, ListRetry(w) PROVE Typed
  <2>1. scan' \in [Workers -> [Message -> Nat]]
    <3>1. PICK due \in SUBSET {m \in Message : retry[m] > 0} :
            scan' = [scan EXCEPT ![w] = [m \in Message |-> IF m \in due THEN retry[m] ELSE 0]]
      BY <1>6 DEF ListRetry
    <3>2. [m \in Message |-> IF m \in due THEN retry[m] ELSE 0] \in [Message -> Nat]
      BY DEF RestTyped
    <3>3. QED
      BY <3>1, <3>2 DEF RestTyped
  <2>2. RestTyped'
    BY <1>6, <2>1 DEF ListRetry, listVars, historyVars, faultVars, RestTyped
  <2>3. QED
    BY <1>6, <2>2, StageMoves, HandsOfStages DEF ListRetry
<1>7. ASSUME NEW w \in Workers, RetryDone(w) PROVE Typed
  <2>1. RestTyped'
    BY <1>7 DEF RetryDone, listVars, historyVars, faultVars, RestTyped
  <2>2. QED
    BY <1>7, <2>1, StageMoves, HandsOfStages DEF RetryDone
<1>8. ASSUME NEW w \in Workers, FindNothing(w) PROVE Typed
  <2>1. RestTyped'
    BY <1>8 DEF FindNothing, listVars, historyVars, faultVars, RestTyped
  <2>2. QED
    BY <1>8, <2>1, StageMoves, HandsOfStages DEF FindNothing
<1>9. ASSUME NEW w \in Workers, NEW m \in Message, RemoveRetry(w, m) PROVE Typed
  <2>1. Minus(retry, m) \in [Message -> Nat] /\ Minus(scan[w], m) \in [Message -> Nat]
    BY MinusTakes DEF RestTyped
  <2>2. retry' \in [Message -> Nat] /\ scan' \in [Workers -> [Message -> Nat]]
    BY <1>9, <1>e, <2>1 DEF RemoveRetry, RestTyped
  <2>3. RestTyped'
    BY <1>9, <2>2 DEF RemoveRetry, historyVars, faultVars, RestTyped
  <2>4. CASE Goto(w, "push", {m})
    BY <2>3, <2>4, HandsStayFit, HandsOfStages DEF WorkerPc
  <2>5. CASE Goto(w, "wait", {})
    BY <2>3, <2>5, HandsStayFit, HandsOfStages
  <2>6. QED
    BY <1>9, <2>4, <2>5 DEF RemoveRetry
<1>10. ASSUME NEW w \in Workers, NEW m \in Message, PushRetry(w, m) PROVE Typed
  <2>1. pending' \in [Message -> Nat]
    BY <1>10, PlusAdds DEF PushRetry, RestTyped
  <2>2. RestTyped'
    BY <1>10, <2>1 DEF PushRetry, historyVars, faultVars, RestTyped
  <2>3. QED
    BY <1>10, <2>2, HandsStayFit, HandsOfStages DEF PushRetry
<1>11. ASSUME NEW w \in Workers, NEW m \in Message, Pop(w, m) PROVE Typed
  <2>1. pending' \in [Message -> Nat]
    BY <1>11, MinusTakes DEF Pop, RestTyped
  <2>2. RestTyped'
    BY <1>11, <2>1 DEF Pop, historyVars, faultVars, RestTyped
  <2>3. QED
    BY <1>11, <2>2, HandsStayFit, HandsOfStages DEF Pop, WorkerPc
<1>12. ASSUME NEW w \in Workers, NEW m \in Message, MarkProcessing(w, m) PROVE Typed
  <2>1. processing' \in [Message -> Nat]
    BY <1>12, PlusAdds DEF MarkProcessing, RestTyped
  <2>2. RestTyped'
    BY <1>12, <2>1 DEF MarkProcessing, historyVars, faultVars, RestTyped
  <2>3. QED
    BY <1>12, <2>2, StageMoves DEF MarkProcessing, WorkerPc
<1>13. ASSUME NEW w \in Workers, NEW m \in Message, SendSucceeds(w, m) PROVE Typed
  <2>1. RestTyped'
    BY <1>13, <1>m DEF SendSucceeds, listVars, faultVars, RestTyped
  <2>2. QED
    BY <1>13, <2>1, StageMoves DEF SendSucceeds, WorkerPc
<1>14. ASSUME NEW w \in Workers, NEW m \in Message, SendFails(w, m) PROVE Typed
  <2>1. failures' \in [Alerts -> Nat]
    BY <1>14, <1>m DEF SendFails, RestTyped
  <2>2. taken' \subseteq Alerts
    BY <1>14, <1>m DEF SendFails, RestTyped
  <2>3. RestTyped'
    BY <1>14, <2>1, <2>2 DEF SendFails, listVars, faultVars, RestTyped
  <2>4. QED
    BY <1>14, <2>3, StageMoves DEF SendFails, WorkerPc
<1>15. ASSUME NEW w \in Workers, NEW m \in Message, Ack(w, m) PROVE Typed
  <2>1. processing' \in [Message -> Nat]
    BY <1>15, MinusTakes DEF Ack, RestTyped
  <2>2. RestTyped'
    BY <1>15, <1>m, <2>1 DEF Ack, faultVars, RestTyped
  <2>3. QED
    BY <1>15, <2>2, HandsStayFit, HandsOfStages DEF Ack
<1>16. ASSUME NEW w \in Workers, NEW m \in Message, NackRemove(w, m) PROVE Typed
  <2>1. processing' \in [Message -> Nat]
    BY <1>16, MinusTakes DEF NackRemove, RestTyped
  <2>2. RestTyped'
    BY <1>16, <2>1 DEF NackRemove, historyVars, faultVars, RestTyped
  <2>3. QED
    BY <1>16, <2>2, StageMoves DEF NackRemove, WorkerPc
<1>17. ASSUME NEW w \in Workers, NEW m \in Message, Requeue(w, m) PROVE Typed
  <2>1. retry' \in [Message -> Nat] /\ dlq' \in [Message -> Nat]
    <3>1. CASE m.attempt < MaxRetries
      <4>1. Plus(retry, Retried(m)) \in [Message -> Nat]
        BY <3>1, PlusAdds, RetriedIsMessage DEF RestTyped
      <4>2. QED
        BY <1>17, <3>1, <4>1 DEF Requeue, RestTyped
    <3>2. CASE ~(m.attempt < MaxRetries)
      <4>1. Plus(dlq, m) \in [Message -> Nat]
        BY PlusAdds DEF RestTyped
      <4>2. QED
        BY <1>17, <3>2, <4>1 DEF Requeue, RestTyped
    <3>3. QED
      BY <3>1, <3>2
  <2>2. RestTyped'
    BY <1>17, <2>1 DEF Requeue, historyVars, faultVars, RestTyped
  <2>3. QED
    BY <1>17, <2>2, HandsStayFit, HandsOfStages DEF Requeue
<1>18. ASSUME NEW w \in Workers, Fault(w) PROVE Typed
  <2>1. processing' \in [Message -> Nat]
    <3>1. hand[w] \subseteq Message
      BY DEF WorkersTyped
    <3>2. \A m \in Message : Plus(processing, m) \in [Message -> Nat]
      BY PlusAdds DEF RestTyped
    <3>3. processing' = processing \/ \E m \in hand[w] : processing' = Plus(processing, m)
      BY <1>18 DEF Fault
    <3>4. QED
      BY <3>1, <3>2, <3>3 DEF RestTyped
  <2>2. scan' \in [Workers -> [Message -> Nat]]
    BY <1>18, <1>e DEF Fault, RestTyped
  <2>3. RestTyped'
    BY <1>18, <2>1, <2>2 DEF Fault, historyVars, RestTyped
  <2>4. Goto(w, "wait", {}) \/ Goto(w, "top", {})
    BY <1>18 DEF Fault
  <2>5. QED
    BY <2>3, <2>4, HandsStayFit, HandsOfStages
<1>19. CASE UNCHANGED queueVars
  <2>1. RestTyped'
    BY <1>19 DEF queueVars, listVars, workerVars, historyVars, faultVars, RestTyped
  <2>2. pc' = pc /\ hand' = hand
    BY <1>19 DEF queueVars, workerVars
  <2>3. QED
    BY <2>1, <2>2 DEF WorkersTyped, HandsFit
<1>20. QED
  BY <1>1, <1>2, <1>3, <1>4, <1>5, <1>6, <1>7, <1>8, <1>9, <1>10, <1>11, <1>12, <1>13,
     <1>14, <1>15, <1>16, <1>17, <1>18, <1>19
  DEF QueueNext, WorkerStep, HandleMessage

-----------------------------------------------------------------------------
(* What copies stand on. *)

\* History only grows, so what a message stands on stays.
LEMMA BackingStays ==
  ASSUME QueueTypeOK, [QueueNext]_queueVars
  PROVE  /\ accepted \subseteq accepted' /\ taken \subseteq taken'
         /\ \A a \in Alerts : failures'[a] >= failures[a] /\ failures[a] \in Nat
         /\ \A m \in Message : Backed(m) => Backed(m)'
<1> DEFINE Grown == /\ accepted \subseteq accepted' /\ taken \subseteq taken'
                    /\ \/ failures' = failures
                       \/ \E m \in Message : failures' = [failures EXCEPT ![m.alert] = @ + 1]
           Same == UNCHANGED <<accepted, taken, failures>>
<1>g. Same => Grown
  OBVIOUS
<1>k. ASSUME NEW a \in Alerts, Enqueue(a) PROVE Grown
  BY <1>k DEF Enqueue
<1>l. ASSUME NEW w \in Workers, StartWorker(w) \/ WorkerEnds(w) \/ ListRetry(w) \/ RetryDone(w)
                                \/ FindNothing(w) \/ Fault(w)
      PROVE  Grown
  <2>1. Same
    BY <1>l DEF StartWorker, WorkerEnds, ListRetry, RetryDone, FindNothing, Fault, historyVars
  <2>2. QED
    BY <2>1, <1>g
<1>n. ASSUME NEW w \in Workers, NEW m \in Message, HandleMessage(w, m) PROVE Grown
  <2>1. CASE SendSucceeds(w, m)
    BY <2>1 DEF SendSucceeds
  <2>2. CASE SendFails(w, m)
    BY <2>2 DEF SendFails
  <2>3. CASE Ack(w, m)
    BY <2>3 DEF Ack
  <2>4. CASE \/ RemoveRetry(w, m) \/ PushRetry(w, m) \/ Pop(w, m)
             \/ MarkProcessing(w, m) \/ NackRemove(w, m) \/ Requeue(w, m)
    <3>1. Same
      BY <2>4 DEF RemoveRetry, PushRetry, Pop, MarkProcessing, NackRemove, Requeue, historyVars
    <3>2. QED
      BY <3>1, <1>g
  <2>5. QED
    BY <1>n, <2>1, <2>2, <2>3, <2>4 DEF HandleMessage
<1>o. StopWorker \/ Crash \/ UNCHANGED queueVars => Grown
  <2>1. StopWorker \/ Crash \/ UNCHANGED queueVars => Same
    BY DEF StopWorker, Crash, queueVars, historyVars
  <2>2. QED
    BY <2>1, <1>g
<1>p. Grown
  <2> HIDE DEF Grown
  <2>1. QueueNext \/ UNCHANGED queueVars
    OBVIOUS
  <2>2. CASE QueueNext
    BY <2>2, <1>k, <1>l, <1>n, <1>o DEF QueueNext, WorkerStep
  <2>3. QED
    BY <2>1, <2>2, <1>o
<1>1. accepted \subseteq accepted' /\ taken \subseteq taken'
  BY <1>p
<1>2. \/ failures' = failures
      \/ \E m \in Message : failures' = [failures EXCEPT ![m.alert] = @ + 1]
  BY <1>p
<1>3. \A a \in Alerts : failures'[a] >= failures[a] /\ failures[a] \in Nat
  BY <1>2 DEF QueueTypeOK
<1>4. \A m \in Message : m.alert \in Alerts /\ m.attempt \in Nat
  BY QueueAssumption DEF Message
<1>5. QueueTypeOK'
  BY TypesKept
<1>6. \A a \in Alerts : failures'[a] \in Nat
  BY <1>5 DEF QueueTypeOK
<1>7. \A m \in Message : Backed(m) => Backed(m)'
  BY <1>1, <1>3, <1>4, <1>6 DEF Backed
<1>8. QED
  BY <1>1, <1>3, <1>7

\* Every step keeps the backing of every copy: a copy comes from a list or a
\* hand, and a failure is counted before the message says so.
LEMMA BackingKept == QueueInv /\ [QueueNext]_queueVars => ListsBacked' /\ HandsBacked'
<1> SUFFICES ASSUME QueueInv, [QueueNext]_queueVars PROVE ListsBacked' /\ HandsBacked'
  OBVIOUS
<1> USE DEF QueueInv
<1>a. QueueTypeOK /\ QueueTypeOK'
  BY TypesKept
<1>b. /\ accepted \subseteq accepted' /\ taken \subseteq taken'
      /\ \A a \in Alerts : failures'[a] >= failures[a] /\ failures[a] \in Nat
      /\ \A m \in Message : Backed(m) => Backed(m)'
  BY BackingStays
<1>c. /\ MaxRetries \in Nat
      /\ \A m \in Message : m.alert \in Alerts /\ m.attempt \in 0 .. MaxRetries
  BY QueueAssumption DEF Message
<1>d. \A a \in Alerts : failures'[a] \in Nat
  BY <1>a DEF QueueTypeOK
<1>f. \A w \in Workers, m \in Message : scan[w][m] \in Nat /\ scan'[w][m] \in Nat
  BY <1>a DEF QueueTypeOK
\* A list that got no copy it did not have is backed, and so is one that got
\* a backed one.
<1> DEFINE Grows(list, new, m) == \A n \in Message : new[n] > 0 => list[n] > 0 \/ n = m
<1>g. \A m \in Message : /\ Grows(pending, Plus(pending, m), m)
                         /\ Grows(processing, Plus(processing, m), m)
                         /\ Grows(retry, Plus(retry, m), m)
                         /\ Grows(dlq, Plus(dlq, m), m)
  <2> SUFFICES ASSUME NEW m \in Message
               PROVE  /\ Grows(pending, Plus(pending, m), m)
                      /\ Grows(processing, Plus(processing, m), m)
                      /\ Grows(retry, Plus(retry, m), m)
                      /\ Grows(dlq, Plus(dlq, m), m)
    OBVIOUS
  <2>1. \A list \in [Message -> Nat] : Grows(list, Plus(list, m), m)
    BY PlusAdds
  <2>2. QED
    BY <1>a, <2>1 DEF QueueTypeOK
<1>h. \A m, n \in Message :
        /\ Minus(pending, m)[n] > 0 => pending[n] > 0
        /\ Minus(processing, m)[n] > 0 => processing[n] > 0
        /\ Minus(retry, m)[n] > 0 => retry[n] > 0
        /\ \A w \in Workers : Minus(scan[w], m)[n] > 0 => scan[w][n] > 0
  <2> SUFFICES ASSUME NEW m \in Message, NEW n \in Message
               PROVE  /\ Minus(pending, m)[n] > 0 => pending[n] > 0
                      /\ Minus(processing, m)[n] > 0 => processing[n] > 0
                      /\ Minus(retry, m)[n] > 0 => retry[n] > 0
                      /\ \A w \in Workers : Minus(scan[w], m)[n] > 0 => scan[w][n] > 0
    OBVIOUS
  <2>1. \A list \in [Message -> Nat] : Minus(list, m)[n] > 0 => list[n] > 0
    BY MinusTakes
  <2>2. QED
    BY <1>a, <2>1 DEF QueueTypeOK
\* A step that adds no copy to a list keeps the lists backed.
<1>i. ASSUME \A n \in Message : /\ pending'[n] > 0 => pending[n] > 0
                                /\ processing'[n] > 0 => processing[n] > 0
                                /\ retry'[n] > 0 => retry[n] > 0
                                /\ dlq'[n] > 0 => dlq[n] > 0
      PROVE  ListsBacked'
  <2>1. \A n \in Message : /\ pending[n] > 0 \/ processing[n] > 0 \/ retry[n] > 0 => Backed(n)
                           /\ dlq[n] > 0 => Backed(n) /\ failures[n.alert] > MaxRetries
    BY DEF ListsBacked
  <2>2. \A n \in Message : failures[n.alert] > MaxRetries => failures'[n.alert] > MaxRetries
    BY <1>b, <1>c, <1>d
  <2>3. QED
    BY <1>i, <1>b, <2>1, <2>2 DEF ListsBacked
\* A step that leaves hands and scans alone, and moves a worker to a stage
\* that says no more about its hand, keeps the hands backed.
<1>j. ASSUME \A w \in Workers, n \in Message :
               /\ scan'[w][n] > 0 => scan[w][n] > 0
               /\ n \in hand'[w] => /\ n \in hand[w]
                                    /\ pc'[w] \in {"nack", "requeue"} => pc[w] \in {"nack", "requeue"}
                                    /\ pc'[w] = "ack" => pc[w] = "ack"
      PROVE  HandsBacked'
  BY <1>j, <1>b, <1>c, <1>d DEF HandsBacked
<1>1. ASSUME NEW a \in Alerts, Enqueue(a) PROVE ListsBacked' /\ HandsBacked'
  <2> DEFINE m0 == [alert |-> a, attempt |-> 0]
  <2>1. m0 \in Message /\ m0.alert = a /\ m0.attempt = 0
    BY QueueAssumption DEF Message
  <2>2. failures' = failures /\ a \in accepted'
    BY <1>1 DEF Enqueue
  <2>3. Backed(m0)'
    BY <1>d, <2>1, <2>2 DEF Backed
  <2>4. Grows(pending, pending', m0)
    BY <1>1, <1>g, <2>1 DEF Enqueue
  <2>5. UNCHANGED <<processing, retry, dlq, workerVars>>
    BY <1>1 DEF Enqueue
  <2>6. ListsBacked'
    BY <1>b, <1>c, <1>d, <2>3, <2>4, <2>5 DEF ListsBacked
  <2>7. HandsBacked'
    BY <1>j, <2>5 DEF workerVars
  <2>8. QED
    BY <2>6, <2>7
<1>2. ASSUME NEW w \in Workers, StartWorker(w) PROVE ListsBacked' /\ HandsBacked'
  BY <1>2, <1>a, <1>i, <1>j DEF StartWorker, listVars, QueueTypeOK
<1>3. CASE StopWorker
  BY <1>3, <1>i, <1>j DEF StopWorker, listVars, workerVars
<1>4. CASE Crash
  <2>1. \A n \in Message : Empty[n] = 0
    BY EmptyIsList
  <2>2. \A v \in Workers : hand'[v] = {} /\ scan'[v] = Empty
    BY <1>4 DEF Crash
  <2>3. HandsBacked'
    BY <1>j, <2>1, <2>2
  <2>4. ListsBacked'
    BY <1>4, <1>i, <2>1 DEF Crash, listVars
  <2>5. QED
    BY <2>3, <2>4
<1>5. ASSUME NEW w \in Workers, WorkerEnds(w) PROVE ListsBacked' /\ HandsBacked'
  BY <1>5, <1>a, <1>i, <1>j DEF WorkerEnds, listVars, QueueTypeOK
<1>6. ASSUME NEW w \in Workers, ListRetry(w) PROVE ListsBacked' /\ HandsBacked'
  <2>1. ListsBacked'
    BY <1>6, <1>i DEF ListRetry, listVars
  <2>2. \A v \in Workers, n \in Message :
          scan'[v][n] > 0 => scan[v][n] > 0 \/ retry[n] > 0
    BY <1>6, <1>a DEF ListRetry, QueueTypeOK
  <2>3. hand' = hand /\ pc' = [pc EXCEPT ![w] = "move"]
    BY <1>6 DEF ListRetry
  <2>4. HandsBacked'
    BY <1>a, <1>b, <1>c, <1>d, <2>2, <2>3 DEF ListsBacked, HandsBacked, QueueTypeOK
  <2>5. QED
    BY <2>1, <2>4
<1>7. ASSUME NEW w \in Workers, RetryDone(w) PROVE ListsBacked' /\ HandsBacked'
  BY <1>7, <1>a, <1>i, <1>j DEF RetryDone, listVars, QueueTypeOK
<1>8. ASSUME NEW w \in Workers, FindNothing(w) PROVE ListsBacked' /\ HandsBacked'
  BY <1>8, <1>a, <1>i, <1>j DEF FindNothing, listVars, QueueTypeOK
<1>9. ASSUME NEW w \in Workers, NEW m \in Message, RemoveRetry(w, m)
      PROVE  ListsBacked' /\ HandsBacked'
  <2>1. ListsBacked'
    BY <1>9, <1>h, <1>i DEF RemoveRetry
  <2>2. Backed(m)'
    BY <1>9, <1>b DEF RemoveRetry, HandsBacked
  <2>3. \/ Goto(w, "push", {m}) /\ scan' = [scan EXCEPT ![w] = Minus(@, m)]
        \/ Goto(w, "wait", {}) /\ scan' = [scan EXCEPT ![w] = Empty]
    BY <1>9 DEF RemoveRetry
  <2>4. \A v \in Workers, n \in Message : scan'[v][n] > 0 => scan[v][n] > 0
    <3>1. \/ scan' = [scan EXCEPT ![w] = Minus(scan[w], m)]
          \/ scan' = [scan EXCEPT ![w] = Empty]
      BY <2>3
    <3>2. scan \in [Workers -> [Message -> Nat]] /\ \A n \in Message : Empty[n] = 0
      BY <1>a, EmptyIsList DEF QueueTypeOK
    <3>3. \A n \in Message : scan'[w][n] > 0 => scan[w][n] > 0
      BY <1>h, <3>1, <3>2
    <3>4. \A v \in Workers \ {w} : scan'[v] = scan[v]
      BY <3>1, <3>2
    <3>5. QED
      BY <3>3, <3>4
  <2>5. \A v \in Workers, n \in Message :
          n \in hand'[v] => \/ v = w /\ n = m /\ pc'[v] = "push"
                            \/ v # w /\ n \in hand[v] /\ pc'[v] = pc[v]
    BY <1>a, <2>3 DEF Goto, QueueTypeOK
  <2>6. HandsBacked'
    BY <1>b, <1>c, <1>d, <2>2, <2>4, <2>5 DEF HandsBacked
  <2>7. QED
    BY <2>1, <2>6
<1>10. ASSUME NEW w \in Workers, NEW m \in Message, PushRetry(w, m)
       PROVE  ListsBacked' /\ HandsBacked'
  <2>1. Backed(m)'
    BY <1>10, <1>b DEF PushRetry, HandsBacked
  <2>2. ListsBacked'
    BY <1>10, <1>b, <1>c, <1>d, <1>g, <2>1 DEF PushRetry, ListsBacked
  <2>3. HandsBacked'
    BY <1>10, <1>a, <1>j DEF PushRetry, Goto, QueueTypeOK
  <2>4. QED
    BY <2>2, <2>3
<1>11. ASSUME NEW w \in Workers, NEW m \in Message, Pop(w, m)
       PROVE  ListsBacked' /\ HandsBacked'
  <2>1. ListsBacked'
    BY <1>11, <1>h, <1>i DEF Pop
  <2>2. Backed(m)' /\ scan' = scan
    BY <1>11, <1>b DEF Pop, ListsBacked
  <2>3. \A v \in Workers, n \in Message :
          n \in hand'[v] => \/ v = w /\ n = m /\ pc'[v] = "got"
                            \/ v # w /\ n \in hand[v] /\ pc'[v] = pc[v]
    BY <1>11, <1>a DEF Pop, Goto, QueueTypeOK
  <2>4. HandsBacked'
    BY <1>b, <1>c, <1>d, <2>2, <2>3 DEF HandsBacked
  <2>5. QED
    BY <2>1, <2>4
<1>12. ASSUME NEW w \in Workers, NEW m \in Message, MarkProcessing(w, m)
       PROVE  ListsBacked' /\ HandsBacked'
  <2>1. Backed(m)'
    BY <1>12, <1>b DEF MarkProcessing, HandsBacked
  <2>2. ListsBacked'
    BY <1>12, <1>b, <1>c, <1>d, <1>g, <2>1 DEF MarkProcessing, ListsBacked
  <2>3. HandsBacked'
    BY <1>12, <1>a, <1>j DEF MarkProcessing, QueueTypeOK
  <2>4. QED
    BY <2>2, <2>3
<1>13. ASSUME NEW w \in Workers, NEW m \in Message, SendSucceeds(w, m)
       PROVE  ListsBacked' /\ HandsBacked'
  <2>1. ListsBacked'
    BY <1>13, <1>i DEF SendSucceeds, listVars
  <2>2. /\ scan' = scan /\ hand' = hand /\ m.alert \in taken'
        /\ pc' = [pc EXCEPT ![w] = "ack"] /\ m \in hand[w] /\ pc[w] = "send"
    BY <1>13 DEF SendSucceeds
  <2>3. hand[w] = {m}
    BY <1>a, <2>2 DEF QueueTypeOK, HandFits
  <2>4. \A v \in Workers, n \in Message :
          n \in hand'[v] => \/ v = w /\ n = m /\ pc'[v] = "ack"
                            \/ v # w /\ n \in hand[v] /\ pc'[v] = pc[v]
    BY <1>a, <2>2, <2>3 DEF QueueTypeOK
  <2>5. HandsBacked'
    BY <1>b, <1>c, <1>d, <2>2, <2>4 DEF HandsBacked
  <2>6. QED
    BY <2>1, <2>5
<1>14. ASSUME NEW w \in Workers, NEW m \in Message, SendFails(w, m)
       PROVE  ListsBacked' /\ HandsBacked'
  <2>1. ListsBacked'
    BY <1>14, <1>i DEF SendFails, listVars
  <2>2. /\ scan' = scan /\ hand' = hand
        /\ pc' = [pc EXCEPT ![w] = "nack"] /\ m \in hand[w] /\ pc[w] = "send"
    BY <1>14 DEF SendFails
  <2>3. hand[w] = {m}
    BY <1>a, <2>2 DEF QueueTypeOK, HandFits
  <2>4. failures[m.alert] >= m.attempt /\ failures'[m.alert] = failures[m.alert] + 1
    BY <1>14, <1>a, <1>c, <2>2 DEF SendFails, HandsBacked, Backed, QueueTypeOK
  <2>5. failures'[m.alert] > m.attempt
    BY <1>b, <1>c, <2>4
  <2>6. \A v \in Workers, n \in Message :
          n \in hand'[v] => \/ v = w /\ n = m /\ pc'[v] = "nack"
                            \/ v # w /\ n \in hand[v] /\ pc'[v] = pc[v]
    BY <1>a, <2>2, <2>3 DEF QueueTypeOK
  <2>7. HandsBacked'
    BY <1>b, <1>c, <1>d, <2>2, <2>5, <2>6 DEF HandsBacked
  <2>8. QED
    BY <2>1, <2>7
<1>15. ASSUME NEW w \in Workers, NEW m \in Message, Ack(w, m)
       PROVE  ListsBacked' /\ HandsBacked'
  <2>1. ListsBacked'
    BY <1>15, <1>h, <1>i DEF Ack
  <2>2. HandsBacked'
    BY <1>15, <1>a, <1>j DEF Ack, Goto, QueueTypeOK
  <2>3. QED
    BY <2>1, <2>2
<1>16. ASSUME NEW w \in Workers, NEW m \in Message, NackRemove(w, m)
       PROVE  ListsBacked' /\ HandsBacked'
  <2>1. ListsBacked'
    BY <1>16, <1>h, <1>i DEF NackRemove
  <2>2. HandsBacked'
    BY <1>16, <1>a, <1>j DEF NackRemove, QueueTypeOK
  <2>3. QED
    BY <2>1, <2>2
<1>17. ASSUME NEW w \in Workers, NEW m \in Message, Requeue(w, m)
       PROVE  ListsBacked' /\ HandsBacked'
  <2>1. Backed(m) /\ failures[m.alert] > m.attempt /\ failures' = failures
    <3>1. m \in hand[w] /\ pc[w] = "requeue" /\ failures' = failures
      BY <1>17 DEF Requeue, historyVars
    <3>2. QED
      BY <3>1 DEF HandsBacked
  <2>2. HandsBacked'
    BY <1>17, <1>a, <1>j DEF Requeue, Goto, QueueTypeOK
  <2>3. CASE m.attempt < MaxRetries
    <3>1. /\ Retried(m) \in Message
          /\ Retried(m).alert = m.alert
          /\ Retried(m).attempt = m.attempt + 1
      BY <2>3, RetriedIsMessage
    <3>2. Backed(Retried(m))'
      BY <1>b, <1>c, <2>1, <3>1 DEF Backed
    <3>3. Grows(retry, retry', Retried(m)) /\ UNCHANGED <<pending, processing, dlq>>
      BY <1>17, <1>g, <2>3, <3>1 DEF Requeue
    <3>4. ListsBacked'
      BY <1>b, <1>c, <1>d, <3>2, <3>3 DEF ListsBacked
    <3>5. QED
      BY <2>2, <3>4
  <2>4. CASE ~(m.attempt < MaxRetries)
    <3>1. Backed(m)' /\ failures'[m.alert] > MaxRetries
      BY <1>b, <1>c, <2>1, <2>4
    <3>2. Grows(dlq, dlq', m) /\ UNCHANGED <<pending, processing, retry>>
      BY <1>17, <1>g, <2>4 DEF Requeue
    <3>3. ListsBacked'
      BY <1>b, <1>c, <1>d, <3>1, <3>2 DEF ListsBacked
    <3>4. QED
      BY <2>2, <3>3
  <2>5. QED
    BY <2>3, <2>4
<1>18. ASSUME NEW w \in Workers, Fault(w) PROVE ListsBacked' /\ HandsBacked'
  <2>1. Goto(w, "wait", {}) \/ Goto(w, "top", {})
    BY <1>18 DEF Fault
  <2>2. scan' = [scan EXCEPT ![w] = Empty] /\ UNCHANGED <<pending, retry, dlq>>
    BY <1>18 DEF Fault
  <2>3. HandsBacked'
    BY <1>a, <1>j, <2>1, <2>2, EmptyIsList DEF Goto, QueueTypeOK
  <2>4. \/ processing' = processing
        \/ \E m \in hand[w] : processing' = Plus(processing, m)
    BY <1>18 DEF Fault
  <2>5. \A n \in Message : processing'[n] > 0 => Backed(n)
    BY <1>a, <1>g, <2>4 DEF ListsBacked, HandsBacked, QueueTypeOK
  <2>6. ListsBacked'
    BY <1>b, <1>c, <1>d, <2>2, <2>5 DEF ListsBacked
  <2>7. QED
    BY <2>3, <2>6
<1>19. CASE UNCHANGED queueVars
  BY <1>19, <1>i, <1>j DEF queueVars, listVars, workerVars
<1>20. QED
  BY <1>1, <1>2, <1>3, <1>4, <1>5, <1>6, <1>7, <1>8, <1>9, <1>10, <1>11, <1>12, <1>13,
     <1>14, <1>15, <1>16, <1>17, <1>18, <1>19
  DEF QueueNext, WorkerStep, HandleMessage

-----------------------------------------------------------------------------
(* The invariant and what follows from it. *)

\* The queue starts with nothing in a list or a hand.
LEMMA InitEstablishes == QueueInit => QueueInv
<1> SUFFICES ASSUME QueueInit PROVE QueueInv
  OBVIOUS
<1>1. Empty \in [Message -> Nat] /\ \A m \in Message : Empty[m] = 0
  BY EmptyIsList
<1>2. QueueTypeOK
  BY <1>1, HandsOfStages DEF QueueInit, QueueTypeOK
<1>3. ListsBacked /\ HandsBacked
  BY <1>1 DEF QueueInit, ListsBacked, HandsBacked
<1>4. QED
  BY <1>2, <1>3 DEF QueueInv

\* QueueInv holds in every reachable state.
LEMMA QueueInvariant == QueueSpec => []QueueInv
<1>1. QueueInv /\ [QueueNext]_queueVars => QueueInv'
  BY TypesKept, BackingKept DEF QueueInv
<1>2. QED
  BY InitEstablishes, <1>1, PTL DEF QueueSpec

\* Whatever crashes, fails or runs twice, the lists hold messages and a worker
\* holds one message in the stages that handle one and none in the others
\* (the worker loop of alerting/dispatcher.py over alerting/queue_backend.py).
THEOREM QueueTypes == QueueSpec => []QueueTypeOK
  BY QueueInvariant, PTL DEF QueueInv

\* No retry is skipped: the retry_count of every copy of a message, in a list
\* or in a hand, is at most the number of failures nack was told of.
THEOREM RetriesAreCounted == QueueSpec => []AttemptsWereMade
<1>1. QueueInv => AttemptsWereMade
  BY DEF QueueInv, ListsBacked, HandsBacked, Backed, AttemptsWereMade, Lists
<1>2. QED
  BY <1>1, QueueInvariant, PTL

\* nack gives an alert up only after max_retries + 1 failed tries.
THEOREM GivenUpAfterAllRetries == QueueSpec => []DeadAfterAllRetries
<1>1. QueueInv => DeadAfterAllRetries
  BY DEF QueueInv, ListsBacked, DeadAfterAllRetries
<1>2. QED
  BY <1>1, QueueInvariant, PTL

-----------------------------------------------------------------------------
(* Nothing is lost while the process lives and Redis answers. *)

InList(m) == pending[m] > 0 \/ processing[m] > 0 \/ retry[m] > 0 \/ dlq[m] > 0
InHand(m) == \E w \in Workers : m \in hand[w]

\* A step of a worker that handles one message leaves the others where they are.
LEMMA OthersStay ==
  ASSUME NEW w \in Workers, NEW n \in Message, hand[w] \subseteq {n},
         \A v \in Workers \ {w} : hand'[v] = hand[v],
         \A m \in Message \ {n} : InList(m) => InList(m)',
         NEW m \in Message, m # n, InList(m) \/ InHand(m)
  PROVE  InList(m)' \/ InHand(m)'
<1>1. CASE InList(m)
  BY <1>1
<1>2. CASE InHand(m)
  BY <1>2 DEF InHand
<1>3. QED
  BY <1>1, <1>2

\* Every message that is handled stays somewhere, or its alert is settled.
LEMMA HandledIsKept ==
  ASSUME QueueTypeOK, NEW w \in Workers, NEW n \in Message, HandleMessage(w, n),
         NEW m \in Message, InList(m) \/ InHand(m)
  PROVE  m.alert \in acked' \/ \E k \in Message : k.alert = m.alert /\ (InList(k)' \/ InHand(k)')
<1> DEFINE Kept == \E k \in Message : k.alert = m.alert /\ (InList(k)' \/ InHand(k)')
<1>a. /\ pending \in [Message -> Nat] /\ processing \in [Message -> Nat]
      /\ retry \in [Message -> Nat] /\ dlq \in [Message -> Nat]
      /\ pc \in [Workers -> WorkerPc] /\ hand \in [Workers -> SUBSET Message]
      /\ HandFits(pc[w], hand[w])
  BY DEF QueueTypeOK
<1>b. \A list \in [Message -> Nat], k, l \in Message :
        /\ Plus(list, k)[k] > 0
        /\ list[l] > 0 => Plus(list, k)[l] > 0
        /\ l # k /\ list[l] > 0 => Minus(list, k)[l] > 0
  BY PlusAdds, MinusTakes
<1>c. n \in hand[w] => hand[w] = {n}
  BY <1>a DEF HandFits
<1>1. ASSUME InList(m)' \/ InHand(m)' PROVE Kept
  BY <1>1
<1>2. CASE RemoveRetry(w, n)
  <2>1. hand[w] = {} /\ pc[w] = "move"
    BY <1>2, <1>a DEF RemoveRetry, HandFits
  <2>2. \A v \in Workers \ {w} : hand'[v] = hand[v]
    BY <1>2, <1>a DEF RemoveRetry, Goto
  <2>3. UNCHANGED <<pending, processing, dlq>>
    BY <1>2 DEF RemoveRetry
  <2>4. CASE UNCHANGED retry
    <3>1. InList(m) => InList(m)'
      BY <2>3, <2>4 DEF InList
    <3>2. InHand(m) => InHand(m)'
      BY <2>1, <2>2 DEF InHand
    <3>3. QED
      BY <1>1, <3>1, <3>2
  <2>5. CASE retry' = Minus(retry, n) /\ Goto(w, "push", {n})
    <3>1. hand'[w] = {n}
      BY <2>5, <1>a DEF Goto
    <3>2. \A k \in Message \ {n} : InList(k) => InList(k)'
      BY <1>a, <1>b, <2>3, <2>5 DEF InList
    <3>3. CASE m = n
      BY <1>1, <3>1, <3>3 DEF InHand
    <3>4. CASE m # n
      BY <1>1, <2>1, <2>2, <3>2, <3>4, OthersStay
    <3>5. QED
      BY <3>3, <3>4
  <2>6. QED
    BY <1>2, <2>4, <2>5 DEF RemoveRetry
<1>3. CASE PushRetry(w, n)
  <2>1. hand[w] = {n}
    BY <1>3, <1>c DEF PushRetry
  <2>2. \A v \in Workers \ {w} : hand'[v] = hand[v]
    BY <1>3, <1>a DEF PushRetry, Goto
  <2>3. pending' = Plus(pending, n) /\ UNCHANGED <<processing, retry, dlq>>
    BY <1>3 DEF PushRetry
  <2>4. \A k \in Message \ {n} : InList(k) => InList(k)'
    BY <1>a, <1>b, <2>3 DEF InList
  <2>5. CASE m = n
    BY <1>1, <1>a, <1>b, <2>3, <2>5 DEF InList
  <2>6. CASE m # n
    BY <1>1, <2>1, <2>2, <2>4, <2>6, OthersStay
  <2>7. QED
    BY <2>5, <2>6
<1>4. CASE Pop(w, n)
  <2>1. hand[w] = {}
    BY <1>4, <1>a DEF Pop, HandFits
  <2>2. hand'[w] = {n} /\ \A v \in Workers \ {w} : hand'[v] = hand[v]
    BY <1>4, <1>a DEF Pop, Goto
  <2>3. pending' = Minus(pending, n) /\ UNCHANGED <<processing, retry, dlq>>
    BY <1>4 DEF Pop
  <2>4. \A k \in Message \ {n} : InList(k) => InList(k)'
    BY <1>a, <1>b, <2>3 DEF InList
  <2>5. CASE m = n
    BY <1>1, <2>2, <2>5 DEF InHand
  <2>6. CASE m # n
    BY <1>1, <2>1, <2>2, <2>4, <2>6, OthersStay
  <2>7. QED
    BY <2>5, <2>6
<1>5. CASE MarkProcessing(w, n)
  <2>1. hand' = hand /\ processing' = Plus(processing, n) /\ UNCHANGED <<pending, retry, dlq>>
    BY <1>5 DEF MarkProcessing
  <2>2. InList(m) => InList(m)'
    BY <1>a, <1>b, <2>1 DEF InList
  <2>3. InHand(m) => InHand(m)'
    BY <2>1 DEF InHand
  <2>4. QED
    BY <1>1, <2>2, <2>3
<1>6. CASE SendSucceeds(w, n) \/ SendFails(w, n)
  <2>1. UNCHANGED <<listVars, hand>>
    BY <1>6 DEF SendSucceeds, SendFails
  <2>2. QED
    BY <1>1, <2>1 DEF InList, InHand, listVars
<1>7. CASE Ack(w, n)
  <2>1. hand[w] = {n} /\ n.alert \in acked'
    BY <1>7, <1>c DEF Ack
  <2>2. \A v \in Workers \ {w} : hand'[v] = hand[v]
    BY <1>7, <1>a DEF Ack, Goto
  <2>3. processing' = Minus(processing, n) /\ UNCHANGED <<pending, retry, dlq>>
    BY <1>7 DEF Ack
  <2>4. \A k \in Message \ {n} : InList(k) => InList(k)'
    BY <1>a, <1>b, <2>3 DEF InList
  <2>5. CASE m # n
    BY <1>1, <2>1, <2>2, <2>4, <2>5, OthersStay
  <2>6. QED
    BY <2>1, <2>5
<1>8. CASE NackRemove(w, n)
  <2>1. /\ hand' = hand /\ n \in hand[w]
        /\ processing' = Minus(processing, n) /\ UNCHANGED <<pending, retry, dlq>>
    BY <1>8 DEF NackRemove
  <2>2. CASE m = n
    BY <1>1, <2>1, <2>2 DEF InHand
  <2>3. CASE m # n
    <3>1. InList(m) => InList(m)'
      BY <1>a, <1>b, <2>1, <2>3 DEF InList
    <3>2. InHand(m) => InHand(m)'
      BY <2>1 DEF InHand
    <3>3. QED
      BY <1>1, <3>1, <3>2
  <2>4. QED
    BY <2>2, <2>3
<1>9. CASE Requeue(w, n)
  <2>1. hand[w] = {n}
    BY <1>9, <1>c DEF Requeue
  <2>2. \A v \in Workers \ {w} : hand'[v] = hand[v]
    BY <1>9, <1>a DEF Requeue, Goto
  <2>3. UNCHANGED <<pending, processing>>
    BY <1>9 DEF Requeue
  <2>4. CASE n.attempt < MaxRetries
    <3>1. Retried(n) \in Message /\ Retried(n).alert = n.alert
      BY <2>4, RetriedIsMessage
    <3>2. retry' = Plus(retry, Retried(n)) /\ UNCHANGED dlq
      BY <1>9, <2>4 DEF Requeue
    <3>3. \A k \in Message : InList(k) => InList(k)'
      BY <1>a, <1>b, <2>3, <3>1, <3>2 DEF InList
    <3>4. InList(Retried(n))'
      BY <1>a, <1>b, <3>1, <3>2 DEF InList
    <3>5. CASE m = n
      BY <3>1, <3>4, <3>5
    <3>6. CASE m # n
      BY <1>1, <2>1, <2>2, <3>3, <3>6, OthersStay
    <3>7. QED
      BY <3>5, <3>6
  <2>5. CASE ~(n.attempt < MaxRetries)
    <3>1. dlq' = Plus(dlq, n) /\ UNCHANGED retry
      BY <1>9, <2>5 DEF Requeue
    <3>2. \A k \in Message : InList(k) => InList(k)'
      BY <1>a, <1>b, <2>3, <3>1 DEF InList
    <3>3. InList(n)'
      BY <1>a, <1>b, <3>1 DEF InList
    <3>4. CASE m = n
      BY <1>1, <3>3, <3>4
    <3>5. CASE m # n
      BY <1>1, <2>1, <2>2, <3>2, <3>5, OthersStay
    <3>6. QED
      BY <3>4, <3>5
  <2>6. QED
    BY <2>4, <2>5
<1>10. QED
  BY <1>2, <1>3, <1>4, <1>5, <1>6, <1>7, <1>8, <1>9 DEF HandleMessage

\* An accepted alert keeps a message, or is acknowledged, in every step but a
\* crash and a failing command.
LEMMA LossKept ==
  ASSUME QueueTypeOK, NothingLost, [QueueNext]_queueVars
  PROVE  NothingLost'
<1> DEFINE There(a) == \E k \in Message : k.alert = a /\ (InList(k) \/ InHand(k))
<1>h. /\ \A a : Held(a) <=> There(a)
      /\ \A a : Held(a)' <=> There(a)'
  BY DEF Held, InList, InHand
<1> SUFFICES ASSUME crashes' = 0, faults' = 0, NEW a \in accepted', a \notin acked'
             PROVE  There(a)'
  BY <1>h DEF NothingLost
<1> DEFINE Calm == crashes = 0 /\ faults = 0 /\ acked \subseteq acked'
           Stay == UNCHANGED <<listVars, hand, accepted, acked, crashes, faults>>
<1>c. crashes \in Nat /\ faults \in Nat
  BY DEF QueueTypeOK
<1>i. Calm /\ a \in accepted => There(a)
  BY <1>h DEF NothingLost
<1>1. Stay => There(a)'
  <2>1. Stay => Calm /\ a \in accepted
    OBVIOUS
  <2>2. Stay => (There(a) => There(a)')
    BY DEF listVars, InList, InHand
  <2>3. QED
    BY <1>i, <2>1, <2>2
<1>2. ASSUME NEW b \in Alerts, Enqueue(b) PROVE There(a)'
  <2> DEFINE m0 == [alert |-> b, attempt |-> 0]
  <2>1. m0 \in Message /\ m0.alert = b
    BY QueueAssumption DEF Message
  <2>2. pending' = Plus(pending, m0) /\ UNCHANGED <<processing, retry, dlq, hand>>
    BY <1>2 DEF Enqueue, workerVars
  <2>3. pending'[m0] > 0 /\ \A m \in Message : pending[m] > 0 => pending'[m] > 0
    <3>1. pending \in [Message -> Nat]
      BY DEF QueueTypeOK
    <3>2. \A m \in Message : pending'[m] = IF m = m0 THEN pending[m] + 1 ELSE pending[m]
      BY <2>1, <2>2, <3>1, PlusAdds
    <3> HIDE DEF m0
    <3>3. QED
      BY <2>1, <3>1, <3>2
  <2>4. CASE a = b
    BY <2>1, <2>3, <2>4 DEF InList
  <2>5. CASE a # b
    <3>1. Calm /\ a \in accepted
      BY <1>2, <2>5 DEF Enqueue, faultVars
    <3>2. PICK k \in Message : k.alert = a /\ (InList(k) \/ InHand(k))
      BY <1>i, <3>1
    <3>3. InList(k)' \/ InHand(k)'
      BY <2>2, <2>3, <3>2 DEF InList, InHand
    <3>4. QED
      BY <3>2, <3>3
  <2>6. QED
    BY <2>4, <2>5
<1>3. ASSUME NEW w \in Workers,
             \/ StartWorker(w) \/ WorkerEnds(w) \/ ListRetry(w)
             \/ RetryDone(w) \/ FindNothing(w)
      PROVE  There(a)'
  <2>1. Stay
    BY <1>3 DEF StartWorker, WorkerEnds, ListRetry, RetryDone, FindNothing, historyVars, faultVars
  <2>2. QED
    BY <1>1, <2>1
<1>4. ASSUME NEW w \in Workers, NEW m \in Message, HandleMessage(w, m) PROVE There(a)'
  <2>1. Calm /\ a \in accepted
    BY <1>4 DEF HandleMessage, RemoveRetry, PushRetry, Pop, MarkProcessing, SendSucceeds,
                SendFails, Ack, NackRemove, Requeue, historyVars, faultVars
  <2>2. PICK k \in Message : k.alert = a /\ (InList(k) \/ InHand(k))
    BY <1>i, <2>1
  <2>3. \/ k.alert \in acked'
        \/ \E l \in Message : l.alert = k.alert /\ (InList(l)' \/ InHand(l)')
    BY <1>4, <2>2, HandledIsKept
  <2>4. QED
    BY <2>2, <2>3
<1>5. StopWorker \/ UNCHANGED queueVars => There(a)'
  <2>1. StopWorker \/ UNCHANGED queueVars => Stay
    BY DEF StopWorker, queueVars, listVars, workerVars, historyVars, faultVars
  <2>2. QED
    BY <1>1, <2>1
<1>6. ~Crash
  BY <1>c DEF Crash
<1>7. ASSUME NEW w \in Workers PROVE ~Fault(w)
  BY <1>c DEF Fault
<1>8. QED
  <2> HIDE DEF There
  <2>1. QueueNext \/ UNCHANGED queueVars
    OBVIOUS
  <2>2. CASE QueueNext
    BY <2>2, <1>2, <1>3, <1>4, <1>5, <1>6, <1>7 DEF QueueNext, WorkerStep
  <2>3. QED
    BY <2>1, <2>2, <1>5

\* While the process lives and Redis answers, an alert that enqueue accepted is
\* acknowledged, or a list or a worker has its message, whatever the interleaving
\* of workers, also of one that stop_worker left behind.
THEOREM NoAlertLost == QueueSpec => []NothingLost
<1>1. QueueInit => NothingLost
  BY DEF QueueInit, NothingLost
<1>2. QueueInv /\ NothingLost /\ [QueueNext]_queueVars => NothingLost'
  BY LossKept DEF QueueInv
<1>3. QED
  BY <1>1, <1>2, QueueInvariant, PTL DEF QueueSpec

-----------------------------------------------------------------------------
(* One copy of an alert: in memory, and in Redis as long as the worker was  *)
(* never stopped.  A second worker at the same Redis scan breaks it.        *)

Regular == stops = 0 \/ ~redis

\* The flag is down only when there is no thread, and there is one at most.
Alone ==
  stops = 0 =>
    /\ \A w \in Workers : pc[w] # "off" => running
    /\ \A v, w \in Workers : pc[v] # "off" /\ pc[w] # "off" => v = w

\* What a lone worker has scanned is on the retry list until it moves it.
ScanIsTrue ==
  /\ \A w \in Workers : pc[w] \notin {"move", "push"} => scan[w] = Empty
  /\ redis /\ stops = 0 => \A w \in Workers, m \in Message : scan[w][m] <= retry[m]

ListName == {"pending", "retry", "dlq"}

Copies(l, m) == IF l = "pending" THEN pending[m] ELSE IF l = "retry" THEN retry[m] ELSE dlq[m]

\* Two places of an alert, of which a list and a hand and to be acknowledged are
\* one each, are the same place.
OneCopy ==
  /\ \A l \in ListName, m \in Message : Copies(l, m) <= 1
  /\ \A k, l \in ListName, m, n \in Message :
       Copies(k, m) > 0 /\ Copies(l, n) > 0 /\ m.alert = n.alert => k = l /\ m = n
  /\ \A v, w \in Workers, m, n \in Message :
       m \in hand[v] /\ n \in hand[w] /\ m.alert = n.alert => v = w /\ m = n
  /\ \A l \in ListName, w \in Workers, m, n \in Message :
       Copies(l, m) > 0 /\ n \in hand[w] => m.alert # n.alert
  /\ \A l \in ListName, w \in Workers, m \in Message :
       m.alert \in acked => Copies(l, m) = 0 /\ m \notin hand[w]

OneCopyInv == Alone /\ ScanIsTrue /\ acked \subseteq accepted /\ (Regular => OneCopy)

\* redis_client is given once; only stop_worker counts stops.
LEMMA RegularBefore ==
  ASSUME QueueTypeOK, [QueueNext]_queueVars
  PROVE  redis' = redis /\ (stops' = stops \/ stops' = stops + 1) /\ (Regular' => Regular)
<1>1. redis' = redis /\ (stops' = stops \/ stops' = stops + 1)
  <2>1. CASE UNCHANGED queueVars
    BY <2>1 DEF queueVars, faultVars
  <2>2. ASSUME NEW a \in Alerts, Enqueue(a) PROVE redis' = redis /\ stops' = stops
    BY <2>2 DEF Enqueue, faultVars
  <2>3. ASSUME NEW w \in Workers, StartWorker(w) \/ Fault(w) PROVE redis' = redis /\ stops' = stops
    BY <2>3 DEF StartWorker, Fault, faultVars
  <2>4. ASSUME NEW w \in Workers, WorkerStep(w) PROVE redis' = redis /\ stops' = stops
    <3>1. ASSUME NEW m \in Message, HandleMessage(w, m) PROVE redis' = redis /\ stops' = stops
      BY <3>1 DEF HandleMessage, RemoveRetry, PushRetry, Pop, MarkProcessing, SendSucceeds, SendFails,
                  Ack, NackRemove, Requeue, faultVars
    <3>. QED BY <2>4, <3>1 DEF WorkerStep, WorkerEnds, ListRetry, RetryDone, FindNothing, faultVars
  <2>5. CASE StopWorker
    BY <2>5 DEF StopWorker
  <2>6. CASE Crash
    BY <2>6 DEF Crash
  <2>. QED BY <2>1, <2>2, <2>3, <2>4, <2>5, <2>6 DEF QueueNext
<1>2. stops \in Nat
  BY DEF QueueTypeOK
<1>. QED BY <1>1, <1>2 DEF Regular

\* A step of a thread is its own: it moves no other.
LEMMA ThreadMoves ==
  ASSUME QueueTypeOK, NEW w \in Workers, WorkerStep(w) \/ Fault(w)
  PROVE  /\ pc[w] # "off" /\ running' = running /\ stops' = stops
         /\ \A v \in Workers \ {w} : pc'[v] = pc[v] /\ scan'[v] = scan[v] /\ hand'[v] = hand[v]
<1>. DEFINE Own == /\ pc[w] # "off" /\ running' = running /\ stops' = stops
                   /\ \A v \in Workers \ {w} : pc'[v] = pc[v] /\ scan'[v] = scan[v] /\ hand'[v] = hand[v]
<1>1. pc \in [Workers -> WorkerPc] /\ hand \in [Workers -> SUBSET Message]
      /\ scan \in [Workers -> [Message -> Nat]]
  BY DEF QueueTypeOK
<1>2. CASE WorkerEnds(w) \/ ListRetry(w) \/ RetryDone(w) \/ FindNothing(w)
  BY <1>1, <1>2 DEF WorkerEnds, ListRetry, RetryDone, FindNothing, faultVars
<1>3. CASE Fault(w)
  BY <1>1, <1>3 DEF Fault, Goto
<1>4. ASSUME NEW m \in Message, HandleMessage(w, m) PROVE Own
  <2>1. CASE RemoveRetry(w, m)
    BY <1>1, <2>1 DEF RemoveRetry, Goto, faultVars
  <2>2. CASE PushRetry(w, m) \/ Pop(w, m) \/ Ack(w, m) \/ Requeue(w, m)
    BY <1>1, <2>2 DEF PushRetry, Pop, Ack, Requeue, Goto, faultVars
  <2>3. CASE MarkProcessing(w, m) \/ SendSucceeds(w, m) \/ SendFails(w, m) \/ NackRemove(w, m)
    BY <1>1, <2>3 DEF MarkProcessing, SendSucceeds, SendFails, NackRemove, faultVars
  <2>. QED BY <1>4, <2>1, <2>2, <2>3 DEF HandleMessage
<1>. QED BY <1>2, <1>3, <1>4 DEF WorkerStep

LEMMA AloneKept == ASSUME QueueTypeOK, Alone, [QueueNext]_queueVars PROVE Alone'
<1>1. /\ pc \in [Workers -> WorkerPc] /\ stops \in Nat
  BY DEF QueueTypeOK
<1>2. ASSUME NEW w \in Workers, WorkerStep(w) \/ Fault(w) PROVE Alone'
  <2>1. /\ pc[w] # "off" /\ running' = running /\ stops' = stops
        /\ \A v \in Workers \ {w} : pc'[v] = pc[v]
    BY <1>2, ThreadMoves
  <2>. QED BY <2>1 DEF Alone
<1>3. ASSUME NEW w \in Workers, StartWorker(w) PROVE Alone'
  BY <1>1, <1>3 DEF StartWorker, Alone, faultVars
<1>4. ASSUME NEW a \in Alerts, Enqueue(a) PROVE Alone'
  BY <1>4 DEF Enqueue, Alone, workerVars, faultVars
<1>5. CASE StopWorker
  BY <1>1, <1>5 DEF StopWorker, Alone
<1>6. CASE Crash
  BY <1>6 DEF Crash, Alone
<1>7. CASE UNCHANGED queueVars
  BY <1>7 DEF queueVars, workerVars, faultVars, Alone
<1>. QED BY <1>2, <1>3, <1>4, <1>5, <1>6, <1>7 DEF QueueNext

LEMMA ScanKept == ASSUME QueueTypeOK, Alone, ScanIsTrue, [QueueNext]_queueVars PROVE ScanIsTrue'
<1>1. /\ pc \in [Workers -> WorkerPc] /\ stops \in Nat /\ scan \in [Workers -> [Message -> Nat]]
      /\ retry \in [Message -> Nat]
  BY DEF QueueTypeOK
<1>2. /\ QueueTypeOK' /\ redis' = redis /\ (stops' = 0 => stops = 0)
  BY <1>1, TypesKept, RegularBefore
<1>3. \A m \in Message : Empty[m] = 0
  BY EmptyIsList
\* A step of w, in two parts.
<1>4. ASSUME NEW w \in Workers, WorkerStep(w) \/ Fault(w),
             pc'[w] \notin {"move", "push"} => scan'[w] = Empty,
             redis /\ stops = 0 => \A m \in Message : scan'[w][m] <= retry'[m],
             \/ \A m \in Message : retry[m] <= retry'[m]
             \/ redis /\ stops = 0 => \A v \in Workers \ {w} : scan[v] = Empty
      PROVE  ScanIsTrue'
  <2>1. \A v \in Workers \ {w} : pc'[v] = pc[v] /\ scan'[v] = scan[v]
    BY <1>4, ThreadMoves
  <2>2. \A m \in Message : retry'[m] \in Nat
    BY <1>2 DEF QueueTypeOK
  <2>3. ASSUME redis', stops' = 0, NEW v \in Workers, v # w, NEW m \in Message
        PROVE  scan'[v][m] <= retry'[m]
    <3>1. scan[v][m] <= retry[m] /\ scan[v][m] \in Nat
      BY <1>1, <1>2, <2>3 DEF ScanIsTrue
    <3>. QED BY <1>1, <1>2, <1>3, <1>4, <2>1, <2>2, <2>3, <3>1
  <2>. QED BY <1>2, <1>4, <2>1, <2>3 DEF ScanIsTrue
<1>5. ASSUME NEW w \in Workers,
             pc[w] \notin {"move", "push"}, scan' = scan, WorkerStep(w),
             pc'[w] \notin {"move", "push"}, \A m \in Message : retry[m] <= retry'[m]
      PROVE  ScanIsTrue'
  <2>1. scan'[w] = Empty
    BY <1>5 DEF ScanIsTrue
  <2>2. \A m \in Message : retry'[m] \in Nat
    BY <1>2 DEF QueueTypeOK
  <2>3. \A m \in Message : scan'[w][m] <= retry'[m]
    BY <1>3, <2>1, <2>2
  <2>. QED BY <1>4, <1>5, <2>1, <2>3
<1>6. ASSUME NEW w \in Workers, WorkerEnds(w) \/ FindNothing(w) PROVE ScanIsTrue'
  <2>1. /\ pc[w] \notin {"move", "push"} /\ scan' = scan /\ retry' = retry
        /\ pc'[w] \notin {"move", "push"}
    BY <1>1, <1>6 DEF WorkerEnds, FindNothing, listVars
  <2>. QED BY <1>1, <1>5, <1>6, <2>1 DEF WorkerStep
<1>7. ASSUME NEW w \in Workers, ListRetry(w) PROVE ScanIsTrue'
  <2>1. /\ pc'[w] = "move" /\ retry' = retry
        /\ \E due \in SUBSET Message : scan'[w] = [m \in Message |-> IF m \in due THEN retry[m] ELSE 0]
    BY <1>1, <1>7 DEF ListRetry, listVars
  <2>2. \A m \in Message : scan'[w][m] <= retry'[m] /\ retry[m] <= retry'[m]
    BY <1>1, <2>1
  <2>. QED BY <1>4, <1>7, <2>1, <2>2 DEF WorkerStep
<1>8. ASSUME NEW w \in Workers, RetryDone(w) PROVE ScanIsTrue'
  <2>1. scan'[w] = Empty /\ retry' = retry
    BY <1>8 DEF RetryDone, listVars
  <2>2. \A m \in Message : scan'[w][m] <= retry'[m] /\ retry[m] <= retry'[m]
    BY <1>1, <1>3, <2>1
  <2>. QED BY <1>4, <1>8, <2>1, <2>2 DEF WorkerStep
<1>9. ASSUME NEW w \in Workers, Fault(w) PROVE ScanIsTrue'
  <2>1. scan'[w] = Empty /\ retry' = retry
    BY <1>1, <1>9 DEF Fault
  <2>2. \A m \in Message : scan'[w][m] <= retry'[m] /\ retry[m] <= retry'[m]
    BY <1>1, <1>3, <2>1
  <2>. QED BY <1>4, <1>9, <2>1, <2>2
<1>10. ASSUME NEW w \in Workers, NEW m \in Message, RemoveRetry(w, m) PROVE ScanIsTrue'
  <2>0. WorkerStep(w) /\ pc[w] = "move" /\ scan[w][m] > 0
    BY <1>10 DEF RemoveRetry, WorkerStep, HandleMessage
  <2>1. CASE Goto(w, "push", {m}) /\ retry' = Minus(retry, m) /\ scan' = [scan EXCEPT ![w] = Minus(@, m)]
    <3>1. pc'[w] = "push" /\ scan'[w] = Minus(scan[w], m)
      BY <1>1, <2>1 DEF Goto
    <3>2. ASSUME redis, stops = 0, NEW n \in Message PROVE scan'[w][n] <= retry'[n]
      <4>1. scan[w][n] <= retry[n] /\ scan[w][m] <= retry[m]
        BY <3>2 DEF ScanIsTrue
      <4>2. retry'[n] = IF n = m /\ retry[n] > 0 THEN retry[n] - 1 ELSE retry[n]
        BY <1>1, <2>1 DEF Minus
      <4>3. scan'[w][n] = IF n = m /\ scan[w][n] > 0 THEN scan[w][n] - 1 ELSE scan[w][n]
        BY <1>1, <3>1 DEF Minus
      <4>. QED BY <1>1, <2>0, <4>1, <4>2, <4>3
    <3>3. redis /\ stops = 0 => \A v \in Workers \ {w} : scan[v] = Empty
      BY <2>0 DEF Alone, ScanIsTrue
    <3>. QED BY <1>4, <2>0, <3>1, <3>2, <3>3
  <2>2. CASE scan' = [scan EXCEPT ![w] = Empty] /\ retry' = retry
    <3>1. scan'[w] = Empty
      BY <1>1, <2>2
    <3>2. \A n \in Message : scan'[w][n] <= retry'[n] /\ retry[n] <= retry'[n]
      BY <1>1, <1>3, <2>2, <3>1
    <3>. QED BY <1>4, <2>0, <3>1, <3>2
  <2>. QED BY <1>10, <2>1, <2>2 DEF RemoveRetry
<1>11. ASSUME NEW w \in Workers, NEW m \in Message, PushRetry(w, m) PROVE ScanIsTrue'
  <2>1. WorkerStep(w) /\ pc'[w] = "move" /\ scan' = scan /\ retry' = retry
    BY <1>1, <1>11 DEF PushRetry, Goto, WorkerStep, HandleMessage
  <2>2. redis /\ stops = 0 => \A n \in Message : scan'[w][n] <= retry'[n]
    BY <2>1 DEF ScanIsTrue
  <2>3. \A n \in Message : retry[n] <= retry'[n]
    BY <1>1, <2>1
  <2>. QED BY <1>4, <2>1, <2>2, <2>3
<1>12. ASSUME NEW w \in Workers, NEW m \in Message,
              \/ Pop(w, m) \/ MarkProcessing(w, m) \/ SendSucceeds(w, m) \/ SendFails(w, m)
              \/ Ack(w, m) \/ NackRemove(w, m)
       PROVE  ScanIsTrue'
  <2>1. WorkerStep(w)
    BY <1>12 DEF WorkerStep, HandleMessage
  <2>2. /\ pc[w] \notin {"move", "push"} /\ scan' = scan /\ retry' = retry
        /\ pc'[w] \notin {"move", "push"}
    BY <1>1, <1>12 DEF Pop, MarkProcessing, SendSucceeds, SendFails, Ack, NackRemove, Goto, listVars
  <2>3. \A n \in Message : retry[n] <= retry'[n]
    BY <1>1, <2>2
  <2>. QED BY <1>5, <2>1, <2>2, <2>3
<1>13. ASSUME NEW w \in Workers, NEW m \in Message, Requeue(w, m) PROVE ScanIsTrue'
  <2>1. /\ WorkerStep(w) /\ pc[w] \notin {"move", "push"} /\ scan' = scan
        /\ pc'[w] \notin {"move", "push"}
    BY <1>1, <1>13 DEF Requeue, Goto, WorkerStep, HandleMessage
  <2>2. \A n \in Message : retry[n] <= retry'[n]
    <3>1. CASE retry' = retry
      BY <1>1, <3>1
    <3>2. CASE m.attempt < MaxRetries /\ retry' = Plus(retry, Retried(m))
      <4>1. Retried(m) \in Message
        BY <3>2, RetriedIsMessage
      <4>2. \A n \in Message : retry'[n] = IF n = Retried(m) THEN retry[n] + 1 ELSE retry[n]
        BY <1>1, <3>2, <4>1, PlusAdds
      <4>. QED BY <1>1, <4>2
    <3>. QED BY <1>13, <3>1, <3>2 DEF Requeue
  <2>. QED BY <1>5, <2>1, <2>2
<1>14. ASSUME NEW w \in Workers, StartWorker(w) PROVE ScanIsTrue'
  <2>1. scan' = scan /\ retry' = retry /\ pc' = [pc EXCEPT ![w] = "top"] /\ pc[w] = "off"
    BY <1>14 DEF StartWorker, listVars
  <2>. QED BY <1>1, <1>2, <2>1 DEF ScanIsTrue
<1>15. CASE Crash
  <2>1. \A w \in Workers : scan'[w] = Empty
    BY <1>15 DEF Crash
  <2>2. \A m \in Message : retry'[m] \in Nat
    BY <1>2 DEF QueueTypeOK
  <2>. QED BY <1>3, <2>1, <2>2 DEF ScanIsTrue
<1>16. CASE StopWorker \/ (\E a \in Alerts : Enqueue(a)) \/ UNCHANGED queueVars
  <2>1. scan' = scan /\ retry' = retry /\ pc' = pc
    BY <1>16 DEF StopWorker, Enqueue, queueVars, listVars, workerVars
  <2>. QED BY <1>2, <2>1 DEF ScanIsTrue
<1>. QED BY <1>6, <1>7, <1>8, <1>9, <1>10, <1>11, <1>12, <1>13, <1>14, <1>15, <1>16
     DEF QueueNext, WorkerStep, HandleMessage

\* How copies move.  An alert whose copy moves has no other place to disturb.
CopiesTyped == \A l \in ListName, m \in Message : Copies(l, m) \in Nat

LEMMA CopiesAreTyped == QueueTypeOK => CopiesTyped
BY DEF QueueTypeOK, CopiesTyped, Copies, ListName

LEMMA CopiesDwindle ==
  ASSUME OneCopy, CopiesTyped, CopiesTyped',
         \A l \in ListName, m \in Message : Copies(l, m)' <= Copies(l, m),
         \A w \in Workers : hand'[w] \subseteq hand[w],
         acked' = acked
  PROVE  OneCopy'
<1>1. \A l \in ListName, m \in Message :
        /\ Copies(l, m) \in Nat /\ Copies(l, m)' \in Nat /\ Copies(l, m)' <= Copies(l, m)
        /\ Copies(l, m)' > 0 => Copies(l, m) > 0
        /\ Copies(l, m) = 0 => Copies(l, m)' = 0
        /\ Copies(l, m) <= 1 => Copies(l, m)' <= 1
  BY DEF CopiesTyped
<1>2. \A w \in Workers, m \in Message : m \in hand'[w] => m \in hand[w]
  OBVIOUS
<1>. QED BY <1>1, <1>2 DEF OneCopy

LEMMA CopyIsTaken ==
  ASSUME OneCopy, CopiesTyped, CopiesTyped',
         NEW q \in ListName, NEW w \in Workers, NEW c \in Message,
         Copies(q, c) > 0, Copies(q, c)' < Copies(q, c),
         \A l \in ListName, m \in Message : Copies(l, m)' <= Copies(l, m),
         hand[w] = {}, hand'[w] = {c}, \A v \in Workers \ {w} : hand'[v] = hand[v],
         acked' = acked
  PROVE  OneCopy'
<1>1. \A l \in ListName, m \in Message :
        /\ Copies(l, m) \in Nat /\ Copies(l, m)' \in Nat
        /\ Copies(l, m)' > 0 => Copies(l, m) > 0
        /\ Copies(l, m) = 0 => Copies(l, m)' = 0
        /\ Copies(l, m) <= 1 => Copies(l, m)' <= 1
  BY DEF CopiesTyped
<1>2. Copies(q, c)' = 0
  BY <1>1 DEF OneCopy
<1>3. \A l \in ListName, m \in Message : m.alert = c.alert => Copies(l, m)' = 0
  BY <1>1, <1>2 DEF OneCopy
<1>4. \A v \in Workers, m \in Message :
        m \in hand'[v] => (v = w /\ m = c) \/ (v # w /\ m \in hand[v] /\ m.alert # c.alert)
  BY DEF OneCopy
<1>5. c.alert \notin acked
  BY <1>1 DEF OneCopy
<1>6. \A l \in ListName, m \in Message : Copies(l, m)' <= 1
  BY <1>1 DEF OneCopy
<1>7. \A k, l \in ListName, m, n \in Message :
        Copies(k, m)' > 0 /\ Copies(l, n)' > 0 /\ m.alert = n.alert => k = l /\ m = n
  BY <1>1 DEF OneCopy
<1>8. \A v, u \in Workers, m, n \in Message :
        m \in hand'[v] /\ n \in hand'[u] /\ m.alert = n.alert => v = u /\ m = n
  BY <1>4 DEF OneCopy
<1>9. \A l \in ListName, v \in Workers, m, n \in Message :
        Copies(l, m)' > 0 /\ n \in hand'[v] => m.alert # n.alert
  BY <1>1, <1>3, <1>4 DEF OneCopy
<1>10. \A l \in ListName, v \in Workers, m \in Message :
         m.alert \in acked' => Copies(l, m)' = 0 /\ m \notin hand'[v]
  BY <1>1, <1>4, <1>5 DEF OneCopy
<1>. QED BY <1>6, <1>7, <1>8, <1>9, <1>10 DEF OneCopy

LEMMA CopyIsPut ==
  ASSUME OneCopy, CopiesTyped, CopiesTyped',
         NEW q \in ListName, NEW w \in Workers, NEW c \in Message, NEW d \in Message,
         d.alert = c.alert,
         Copies(q, d)' = Copies(q, d) + 1,
         \A l \in ListName, m \in Message : l # q \/ m # d => Copies(l, m)' = Copies(l, m),
         hand[w] = {c}, hand'[w] = {}, \A v \in Workers \ {w} : hand'[v] = hand[v],
         acked' = acked
  PROVE  OneCopy'
<1>1. \A l \in ListName, m \in Message : m.alert = c.alert => Copies(l, m) = 0
  BY DEF OneCopy, CopiesTyped
<1>2. /\ Copies(q, d)' = 1
      /\ \A l \in ListName, m \in Message :
           Copies(l, m)' > 0 => (l = q /\ m = d) \/ (m.alert # c.alert /\ Copies(l, m) > 0)
  BY <1>1
<1>3. \A v \in Workers, m \in Message :
        m \in hand'[v] => m \in hand[v] /\ m.alert # c.alert
  BY DEF OneCopy
<1>4. c.alert \notin acked
  BY DEF OneCopy
<1>5. \A l \in ListName, m \in Message : Copies(l, m)' <= 1
  BY <1>2 DEF OneCopy
<1>6. \A k, l \in ListName, m, n \in Message :
        Copies(k, m)' > 0 /\ Copies(l, n)' > 0 /\ m.alert = n.alert => k = l /\ m = n
  BY <1>2 DEF OneCopy
<1>7. \A v, u \in Workers, m, n \in Message :
        m \in hand'[v] /\ n \in hand'[u] /\ m.alert = n.alert => v = u /\ m = n
  BY <1>3 DEF OneCopy
<1>8. \A l \in ListName, v \in Workers, m, n \in Message :
        Copies(l, m)' > 0 /\ n \in hand'[v] => m.alert # n.alert
  BY <1>2, <1>3 DEF OneCopy
<1>9. \A l \in ListName, v \in Workers, m \in Message :
        m.alert \in acked' => Copies(l, m)' = 0 /\ m \notin hand'[v]
  BY <1>3, <1>4 DEF OneCopy
<1>. QED BY <1>5, <1>6, <1>7, <1>8, <1>9 DEF OneCopy

LEMMA CopyIsAcked ==
  ASSUME OneCopy, CopiesTyped, NEW w \in Workers, NEW c \in Message,
         \A l \in ListName, m \in Message : Copies(l, m)' = Copies(l, m),
         hand[w] = {c}, hand'[w] = {}, \A v \in Workers \ {w} : hand'[v] = hand[v],
         acked' = acked \cup {c.alert}
  PROVE  OneCopy'
<1>1. \A l \in ListName, m \in Message : m.alert = c.alert => Copies(l, m) = 0
  BY DEF OneCopy, CopiesTyped
<1>2. \A v \in Workers, m \in Message :
        m \in hand'[v] => m \in hand[v] /\ m.alert # c.alert
  BY DEF OneCopy
<1>3. \A l \in ListName, v \in Workers, m \in Message :
        m.alert \in acked' => Copies(l, m)' = 0 /\ m \notin hand'[v]
  BY <1>1, <1>2 DEF OneCopy
<1>4. \A v, u \in Workers, m, n \in Message :
        m \in hand'[v] /\ n \in hand'[u] /\ m.alert = n.alert => v = u /\ m = n
  BY <1>2 DEF OneCopy
<1>5. \A l \in ListName, v \in Workers, m, n \in Message :
        Copies(l, m)' > 0 /\ n \in hand'[v] => m.alert # n.alert
  BY <1>2 DEF OneCopy
<1>6. /\ \A l \in ListName, m \in Message : Copies(l, m)' <= 1
      /\ \A k, l \in ListName, m, n \in Message :
           Copies(k, m)' > 0 /\ Copies(l, n)' > 0 /\ m.alert = n.alert => k = l /\ m = n
  BY DEF OneCopy
<1>. QED BY <1>3, <1>4, <1>5, <1>6 DEF OneCopy

LEMMA FirstCopy ==
  ASSUME QueueInv, CopiesTyped, OneCopy, acked \subseteq accepted, NEW a \in Alerts, Enqueue(a)
  PROVE  OneCopy'
<1>. DEFINE c == [alert |-> a, attempt |-> 0]
<1>1. c \in Message /\ c.alert = a
  BY QueueAssumption DEF Message
<1>2. /\ a \notin accepted /\ hand' = hand /\ acked' = acked /\ retry' = retry /\ dlq' = dlq
      /\ pending' = Plus(pending, c)
  BY DEF Enqueue, workerVars
<1>. HIDE DEF c
<1>3. \A l \in ListName, m \in Message : Copies(l, m)' = IF l = "pending" /\ m = c THEN Copies(l, m) + 1 ELSE Copies(l, m)
  <2>1. \A m \in Message : pending'[m] = IF m = c THEN pending[m] + 1 ELSE pending[m]
    BY <1>1, <1>2, PlusAdds DEF QueueInv, QueueTypeOK
  <2>. QED BY <1>2, <2>1 DEF Copies, ListName
<1>4. \A m \in Message : m.alert = a =>
        /\ \A l \in ListName : Copies(l, m) = 0
        /\ \A w \in Workers : m \notin hand[w]
  <2>. SUFFICES ASSUME NEW m \in Message, m.alert = a
                PROVE  (\A l \in ListName : Copies(l, m) = 0) /\ (\A w \in Workers : m \notin hand[w])
    OBVIOUS
  <2>1. ~Backed(m)
    BY <1>2 DEF Backed
  <2>2. \A l \in ListName : ~(Copies(l, m) > 0)
    BY <2>1 DEF QueueInv, ListsBacked, Copies, ListName
  <2>3. \A w \in Workers : m \notin hand[w]
    BY <2>1 DEF QueueInv, HandsBacked
  <2>. QED BY <2>2, <2>3 DEF CopiesTyped
<1>5. /\ Copies("pending", c)' = 1 /\ "pending" \in ListName
      /\ \A l \in ListName, m \in Message :
           Copies(l, m)' > 0 => (l = "pending" /\ m = c) \/ (m.alert # a /\ Copies(l, m) > 0)
  BY <1>1, <1>3, <1>4 DEF ListName
<1>6. a \notin acked
  BY <1>2
<1>7. \A l \in ListName, m \in Message : Copies(l, m)' <= 1
  BY <1>3, <1>5 DEF OneCopy
<1>8. \A k, l \in ListName, m, n \in Message :
        Copies(k, m)' > 0 /\ Copies(l, n)' > 0 /\ m.alert = n.alert => k = l /\ m = n
  BY <1>1, <1>5 DEF OneCopy
<1>9. \A l \in ListName, w \in Workers, m, n \in Message :
        Copies(l, m)' > 0 /\ n \in hand'[w] => m.alert # n.alert
  BY <1>1, <1>2, <1>4, <1>5 DEF OneCopy
<1>10. \A l \in ListName, w \in Workers, m \in Message :
         m.alert \in acked' => Copies(l, m)' = 0 /\ m \notin hand'[w]
  BY <1>1, <1>2, <1>3, <1>6 DEF OneCopy
<1>. QED BY <1>2, <1>7, <1>8, <1>9, <1>10 DEF OneCopy

LEMMA HandledOnce ==
  ASSUME QueueInv, QueueTypeOK', OneCopyInv, Regular, OneCopy,
         NEW w \in Workers, NEW c \in Message, HandleMessage(w, c)
  PROVE  OneCopy'
<1>1. /\ pending \in [Message -> Nat] /\ retry \in [Message -> Nat] /\ dlq \in [Message -> Nat]
      /\ pc \in [Workers -> WorkerPc] /\ hand \in [Workers -> SUBSET Message]
      /\ scan \in [Workers -> [Message -> Nat]]
      /\ HandFits(pc[w], hand[w])
  BY DEF QueueInv, QueueTypeOK
<1>2. CopiesTyped /\ CopiesTyped'
  <2>1. QueueTypeOK' => CopiesTyped'
    BY DEF QueueTypeOK, CopiesTyped, Copies, ListName
  <2>. QED BY <2>1, CopiesAreTyped DEF QueueInv
<1>3. \A v \in Workers \ {w} : hand'[v] = hand[v]
  BY ThreadMoves DEF QueueInv, WorkerStep
<1>4. c \in hand[w] => hand[w] = {c}
  BY <1>1 DEF HandFits
<1>5. /\ "pending" \in ListName /\ "retry" \in ListName /\ "dlq" \in ListName
      /\ \A m \in Message : /\ Copies("pending", m) = pending[m] /\ Copies("pending", m)' = pending'[m]
                            /\ Copies("retry", m) = retry[m] /\ Copies("retry", m)' = retry'[m]
                            /\ Copies("dlq", m) = dlq[m] /\ Copies("dlq", m)' = dlq'[m]
      /\ \A l \in ListName : l = "pending" \/ l = "retry" \/ l = "dlq"
  BY DEF Copies, ListName
<1>6. CASE RemoveRetry(w, c)
  <2>0. hand[w] = {} /\ pending' = pending /\ dlq' = dlq /\ acked' = acked
    BY <1>1, <1>6 DEF RemoveRetry, HandFits, historyVars
  <2>1. CASE retry' = Minus(retry, c) /\ Goto(w, "push", {c}) /\ (redis \/ retry[c] > 0)
    <3>1. retry[c] > 0
      <4>1. CASE redis
        <5>1. stops = 0 /\ scan[w][c] > 0
          BY <1>6, <4>1 DEF RemoveRetry, Regular
        <5>2. scan[w][c] <= retry[c]
          BY <4>1, <5>1 DEF OneCopyInv, ScanIsTrue
        <5>. QED BY <1>1, <5>1, <5>2
      <4>. QED BY <2>1, <4>1
    <3>2. \A m \in Message : retry'[m] = IF m = c THEN retry[m] - 1 ELSE retry[m]
      BY <1>1, <2>1, <3>1 DEF Minus
    <3>3. \A l \in ListName, m \in Message : Copies(l, m)' <= Copies(l, m)
      BY <1>1, <1>5, <2>0, <3>2
    <3>4. Copies("retry", c) > 0 /\ Copies("retry", c)' < Copies("retry", c)
      BY <1>1, <1>5, <3>1, <3>2
    <3>5. hand'[w] = {c}
      BY <1>1, <2>1 DEF Goto
    <3>. QED BY <1>2, <1>3, <1>5, <2>0, <3>3, <3>4, <3>5, CopyIsTaken
  <2>2. CASE retry' = retry /\ Goto(w, "wait", {})
    <3>1. \A v \in Workers : hand'[v] \subseteq hand[v]
      BY <1>1, <1>3, <2>2 DEF Goto
    <3>2. \A l \in ListName, m \in Message : Copies(l, m)' <= Copies(l, m)
      BY <1>1, <1>5, <2>0, <2>2
    <3>. QED BY <1>2, <2>0, <3>1, <3>2, CopiesDwindle
  <2>. QED BY <1>6, <2>1, <2>2 DEF RemoveRetry
<1>7. CASE PushRetry(w, c)
  <2>1. /\ hand[w] = {c} /\ hand'[w] = {} /\ retry' = retry /\ dlq' = dlq /\ acked' = acked
        /\ pending' = Plus(pending, c)
    BY <1>1, <1>4, <1>7 DEF PushRetry, Goto, historyVars
  <2>2. \A m \in Message : pending'[m] = IF m = c THEN pending[m] + 1 ELSE pending[m]
    BY <1>1, <2>1, PlusAdds
  <2>3. /\ Copies("pending", c)' = Copies("pending", c) + 1
        /\ \A l \in ListName, m \in Message : l # "pending" \/ m # c => Copies(l, m)' = Copies(l, m)
    BY <1>5, <2>1, <2>2
  <2>. QED BY <1>2, <1>3, <1>5, <2>1, <2>3, CopyIsPut
<1>8. CASE Pop(w, c)
  <2>1. /\ hand[w] = {} /\ hand'[w] = {c} /\ retry' = retry /\ dlq' = dlq /\ acked' = acked
        /\ pending[c] > 0 /\ pending' = Minus(pending, c)
    BY <1>1, <1>8 DEF Pop, Goto, HandFits, historyVars
  <2>2. \A m \in Message : pending'[m] = IF m = c THEN pending[m] - 1 ELSE pending[m]
    BY <1>1, <2>1 DEF Minus
  <2>3. \A l \in ListName, m \in Message : Copies(l, m)' <= Copies(l, m)
    BY <1>1, <1>5, <2>1, <2>2
  <2>4. Copies("pending", c) > 0 /\ Copies("pending", c)' < Copies("pending", c)
    BY <1>1, <1>5, <2>1, <2>2
  <2>. QED BY <1>2, <1>3, <1>5, <2>1, <2>3, <2>4, CopyIsTaken
<1>9. CASE MarkProcessing(w, c) \/ SendSucceeds(w, c) \/ SendFails(w, c) \/ NackRemove(w, c)
  <2>1. hand' = hand /\ pending' = pending /\ retry' = retry /\ dlq' = dlq /\ acked' = acked
    BY <1>9 DEF MarkProcessing, SendSucceeds, SendFails, NackRemove, listVars, historyVars
  <2>2. \A l \in ListName, m \in Message : Copies(l, m)' <= Copies(l, m)
    BY <1>1, <1>5, <2>1
  <2>. QED BY <1>2, <2>1, <2>2, CopiesDwindle
<1>10. CASE Ack(w, c)
  <2>1. /\ hand[w] = {c} /\ hand'[w] = {} /\ acked' = acked \cup {c.alert}
        /\ pending' = pending /\ retry' = retry /\ dlq' = dlq
    BY <1>1, <1>4, <1>10 DEF Ack, Goto
  <2>2. \A l \in ListName, m \in Message : Copies(l, m)' = Copies(l, m)
    BY <1>5, <2>1
  <2>. QED BY <1>2, <1>3, <2>1, <2>2, CopyIsAcked
<1>11. CASE Requeue(w, c)
  <2>1. hand[w] = {c} /\ hand'[w] = {} /\ pending' = pending /\ acked' = acked
    BY <1>1, <1>4, <1>11 DEF Requeue, Goto, historyVars
  <2>2. CASE c.attempt < MaxRetries
    <3>. DEFINE d == Retried(c)
    <3>1. d \in Message /\ d.alert = c.alert
      BY <2>2, RetriedIsMessage
    <3>2. retry' = Plus(retry, d) /\ dlq' = dlq
      BY <1>11, <2>2 DEF Requeue
    <3>. HIDE DEF d
    <3>3. \A m \in Message : retry'[m] = IF m = d THEN retry[m] + 1 ELSE retry[m]
      BY <1>1, <3>1, <3>2, PlusAdds
    <3>4. /\ Copies("retry", d)' = Copies("retry", d) + 1
          /\ \A l \in ListName, m \in Message : l # "retry" \/ m # d => Copies(l, m)' = Copies(l, m)
      BY <1>5, <2>1, <3>1, <3>2, <3>3
    <3>. QED BY <1>2, <1>3, <1>5, <2>1, <3>1, <3>4, CopyIsPut
  <2>3. CASE ~(c.attempt < MaxRetries)
    <3>1. dlq' = Plus(dlq, c) /\ retry' = retry
      BY <1>11, <2>3 DEF Requeue
    <3>2. \A m \in Message : dlq'[m] = IF m = c THEN dlq[m] + 1 ELSE dlq[m]
      BY <1>1, <3>1, PlusAdds
    <3>3. /\ Copies("dlq", c)' = Copies("dlq", c) + 1
          /\ \A l \in ListName, m \in Message : l # "dlq" \/ m # c => Copies(l, m)' = Copies(l, m)
      BY <1>5, <2>1, <3>1, <3>2
    <3>. QED BY <1>2, <1>3, <1>5, <2>1, <3>3, CopyIsPut
  <2>. QED BY <2>2, <2>3
<1>. QED BY <1>6, <1>7, <1>8, <1>9, <1>10, <1>11 DEF HandleMessage

LEMMA OneCopyKept ==
  ASSUME QueueInv, OneCopyInv, [QueueNext]_queueVars
  PROVE  OneCopyInv'
<1>1. QueueTypeOK /\ QueueTypeOK'
  BY TypesKept DEF QueueInv
<1>2. Alone' /\ ScanIsTrue'
  BY <1>1, AloneKept, ScanKept DEF OneCopyInv
<1>3. (acked \subseteq accepted)'
  <2>1. accepted \subseteq accepted'
    BY <1>1, BackingStays
  <2>2. \A a \in acked' : a \in acked \/ a \in accepted
    <3>1. ASSUME NEW w \in Workers, NEW m \in Message, HandleMessage(w, m)
          PROVE  \A a \in acked' : a \in acked \/ a \in accepted
      <4>1. CASE Ack(w, m)
        <5>1. acked' = acked \cup {m.alert} /\ m \in hand[w]
          BY <4>1 DEF Ack
        <5>2. m.alert \in accepted
          BY <5>1 DEF QueueInv, HandsBacked, Backed
        <5>. QED BY <5>1, <5>2
      <4>2. CASE \/ RemoveRetry(w, m) \/ PushRetry(w, m) \/ Pop(w, m) \/ MarkProcessing(w, m)
                 \/ SendSucceeds(w, m) \/ SendFails(w, m) \/ NackRemove(w, m) \/ Requeue(w, m)
        BY <4>2 DEF RemoveRetry, PushRetry, Pop, MarkProcessing, SendSucceeds, SendFails,
                    NackRemove, Requeue, historyVars
      <4>. QED BY <3>1, <4>1, <4>2 DEF HandleMessage
    <3>2. ASSUME NEW w \in Workers,
                 \/ StartWorker(w) \/ WorkerEnds(w) \/ ListRetry(w)
                 \/ RetryDone(w) \/ FindNothing(w) \/ Fault(w)
          PROVE  acked' = acked
      BY <3>2 DEF StartWorker, WorkerEnds, ListRetry, RetryDone, FindNothing, Fault, historyVars
    <3>3. ASSUME StopWorker \/ Crash \/ (\E a \in Alerts : Enqueue(a)) \/ UNCHANGED queueVars
          PROVE  acked' = acked
      BY <3>3 DEF StopWorker, Crash, Enqueue, queueVars, historyVars
    <3>. QED BY <3>1, <3>2, <3>3 DEF QueueNext, WorkerStep
  <2>. QED BY <2>1, <2>2 DEF OneCopyInv
<1>4. ASSUME Regular' PROVE OneCopy'
  <2>1. Regular /\ OneCopy
    BY <1>1, <1>4, RegularBefore DEF OneCopyInv
  <2>2. CopiesTyped /\ CopiesTyped'
    <3>1. QueueTypeOK' => CopiesTyped'
      BY DEF QueueTypeOK, CopiesTyped, Copies, ListName
    <3>. QED BY <1>1, <3>1, CopiesAreTyped
  <2>3. ASSUME UNCHANGED <<pending, retry, dlq, acked>>, \A w \in Workers : hand'[w] \subseteq hand[w]
        PROVE  OneCopy'
    <3>1. \A l \in ListName, m \in Message : Copies(l, m)' <= Copies(l, m)
      BY <2>2, <2>3 DEF Copies, CopiesTyped
    <3>. QED BY <2>1, <2>2, <2>3, <3>1, CopiesDwindle
  <2>4. ASSUME NEW w \in Workers,
               \/ StartWorker(w) \/ WorkerEnds(w) \/ ListRetry(w) \/ RetryDone(w) \/ FindNothing(w)
        PROVE  OneCopy'
    <3>1. UNCHANGED <<pending, retry, dlq, acked, hand>>
      BY <2>4 DEF StartWorker, WorkerEnds, ListRetry, RetryDone, FindNothing, listVars, historyVars
    <3>. QED BY <2>3, <3>1
  <2>5. ASSUME NEW w \in Workers, Fault(w) PROVE OneCopy'
    <3>1. UNCHANGED <<pending, retry, dlq, acked>>
      BY <2>5 DEF Fault, historyVars
    <3>2. \A v \in Workers : hand'[v] \subseteq hand[v]
      BY <1>1, <2>5 DEF Fault, Goto, QueueTypeOK
    <3>. QED BY <2>3, <3>1, <3>2
  <2>6. ASSUME NEW w \in Workers, NEW m \in Message, HandleMessage(w, m) PROVE OneCopy'
    BY <1>1, <2>1, <2>6, HandledOnce
  <2>7. ASSUME NEW a \in Alerts, Enqueue(a) PROVE OneCopy'
    BY <2>1, <2>2, <2>7, FirstCopy DEF OneCopyInv
  <2>8. CASE Crash
    <3>1. acked' = acked /\ \A v \in Workers : hand'[v] \subseteq hand[v]
      BY <2>8 DEF Crash, historyVars
    <3>2. \A l \in ListName, m \in Message : Copies(l, m)' <= Copies(l, m)
      BY <1>1, <2>8, EmptyIsList DEF Crash, listVars, Copies, QueueTypeOK
    <3>. QED BY <2>1, <2>2, <3>1, <3>2, CopiesDwindle
  <2>9. CASE StopWorker \/ UNCHANGED queueVars
    <3>1. UNCHANGED <<pending, retry, dlq, acked, hand>>
      BY <2>9 DEF StopWorker, queueVars, listVars, workerVars, historyVars
    <3>. QED BY <2>3, <3>1
  <2>. QED BY <2>4, <2>5, <2>6, <2>7, <2>8, <2>9 DEF QueueNext, WorkerStep
<1>. QED BY <1>2, <1>3, <1>4 DEF OneCopyInv

LEMMA OneCopyInvariant == QueueSpec => []OneCopyInv
<1>1. QueueInit => OneCopyInv
  <2>. SUFFICES ASSUME QueueInit PROVE OneCopyInv
    OBVIOUS
  <2>1. \A m \in Message : Empty[m] = 0
    BY EmptyIsList
  <2>2. \A l \in ListName, m \in Message : Copies(l, m) = 0
    BY <2>1 DEF QueueInit, Copies
  <2>3. /\ \A w \in Workers : hand[w] = {} /\ pc[w] = "off" /\ scan[w] = Empty
        /\ acked = {} /\ retry = Empty
    BY DEF QueueInit
  <2>4. OneCopy
    BY <2>2, <2>3 DEF OneCopy
  <2>. QED BY <2>1, <2>3, <2>4 DEF OneCopyInv, Alone, ScanIsTrue
<1>2. QueueInv /\ OneCopyInv /\ [QueueNext]_queueVars => OneCopyInv'
  BY OneCopyKept
<1>. QED BY <1>1, <1>2, QueueInvariant, PTL DEF QueueSpec

\* What is acknowledged or in the dead letter queue is not tried again: with the
\* in-memory lists whatever the workers do, with Redis until the first
\* stop_worker, after which two threads may move one retry twice.
THEOREM SettledIsLeftAlone == QueueSpec => NoTryAfterSettled
<1>1. QueueInv /\ OneCopyInv /\ [QueueNext]_queueVars =>
        [stops = 0 \/ ~redis =>
           \A a \in Alerts :
             a \in acked \/ (\E m \in Message : m.alert = a /\ dlq[m] > 0)
             => /\ failures'[a] = failures[a]
                /\ a \in taken' => a \in taken]_queueVars
  <2>. SUFFICES ASSUME QueueInv, OneCopyInv, QueueNext, stops = 0 \/ ~redis, NEW a \in Alerts,
                       a \in acked \/ (\E m \in Message : m.alert = a /\ dlq[m] > 0)
                PROVE  failures'[a] = failures[a] /\ (a \in taken' => a \in taken)
    OBVIOUS
  <2>. DEFINE Left == failures'[a] = failures[a] /\ (a \in taken' => a \in taken)
  <2>1. OneCopy
    BY DEF OneCopyInv, Regular
  <2>2. \A w \in Workers, m \in Message : m \in hand[w] => m.alert # a
    <3>1. CASE a \in acked
      BY <2>1, <3>1 DEF OneCopy, ListName
    <3>2. ASSUME NEW n \in Message, n.alert = a, dlq[n] > 0
          PROVE  \A w \in Workers, m \in Message : m \in hand[w] => m.alert # a
      <4>1. "dlq" \in ListName /\ Copies("dlq", n) > 0
        BY <3>2 DEF Copies, ListName
      <4>. QED BY <2>1, <3>2, <4>1 DEF OneCopy
    <3>. QED BY <3>1, <3>2
  <2>3. ASSUME NEW w \in Workers, NEW m \in Message, HandleMessage(w, m) PROVE Left
    <3>1. CASE SendSucceeds(w, m) \/ SendFails(w, m)
      <4>1. m.alert # a
        BY <2>2, <3>1 DEF SendSucceeds, SendFails
      <4>2. failures' = failures \/ failures' = [failures EXCEPT ![m.alert] = @ + 1]
        BY <3>1 DEF SendSucceeds, SendFails
      <4>3. taken' = taken \/ taken' = taken \cup {m.alert}
        BY <3>1 DEF SendSucceeds, SendFails
      <4>4. failures \in [Alerts -> Nat]
        BY DEF QueueInv, QueueTypeOK
      <4>. QED BY <4>1, <4>2, <4>3, <4>4
    <3>2. CASE \/ RemoveRetry(w, m) \/ PushRetry(w, m) \/ Pop(w, m) \/ MarkProcessing(w, m)
               \/ Ack(w, m) \/ NackRemove(w, m) \/ Requeue(w, m)
      BY <3>2 DEF RemoveRetry, PushRetry, Pop, MarkProcessing, Ack, NackRemove, Requeue, historyVars
    <3>. QED BY <2>3, <3>1, <3>2 DEF HandleMessage
  <2>4. ASSUME NEW w \in Workers,
               \/ StartWorker(w) \/ WorkerEnds(w) \/ ListRetry(w)
               \/ RetryDone(w) \/ FindNothing(w) \/ Fault(w)
        PROVE  Left
    BY <2>4 DEF StartWorker, WorkerEnds, ListRetry, RetryDone, FindNothing, Fault, historyVars
  <2>5. ASSUME StopWorker \/ Crash \/ (\E b \in Alerts : Enqueue(b)) PROVE Left
    BY <2>5 DEF StopWorker, Crash, Enqueue, historyVars
  <2>. QED BY <2>3, <2>4, <2>5 DEF QueueNext, WorkerStep
<1>. QED BY <1>1, QueueInvariant, OneCopyInvariant, PTL DEF QueueSpec, NoTryAfterSettled

-----------------------------------------------------------------------------
(* The queue implements AlertDelivery. *)

DeadAlerts == {a \in Alerts : \E m \in Message : m.alert = a /\ dlq[m] > 0}

LEMMA DeliveryStep ==
  ASSUME QueueInv, [QueueNext]_queueVars
  PROVE  [Delivery!Next]_(Delivery!vars)
<1> USE DEF Delivery!vars
<1> DEFINE Step == [Delivery!Next]_(Delivery!vars)
<1>a. /\ dlq \in [Message -> Nat]
      /\ \A w \in Workers, m \in Message : m \in hand[w] =>
           /\ Backed(m)
           /\ pc[w] \in {"nack", "requeue"} => failures[m.alert] > m.attempt
           /\ pc[w] = "ack" => m.alert \in taken
  BY DEF QueueInv, QueueTypeOK, HandsBacked
<1>b. /\ MaxRetries \in Nat
      /\ \A m \in Message : m.alert \in Alerts /\ m.attempt \in 0 .. MaxRetries
  BY QueueAssumption DEF Message
<1>1. UNCHANGED <<historyVars, dlq>> => Step
  BY DEF historyVars
<1>2. ASSUME NEW a \in Alerts, Enqueue(a) PROVE Step
  <2>1. Delivery!Accept(a)
    BY <1>2 DEF Enqueue, Delivery!Accept
  <2>2. QED
    BY <2>1 DEF Delivery!Next
<1>3. ASSUME NEW w \in Workers,
             \/ StartWorker(w) \/ WorkerEnds(w) \/ ListRetry(w)
             \/ RetryDone(w) \/ FindNothing(w) \/ Fault(w)
      PROVE  Step
  <2>1. UNCHANGED <<historyVars, dlq>>
    BY <1>3 DEF StartWorker, WorkerEnds, ListRetry, RetryDone, FindNothing, Fault, listVars
  <2>2. QED
    BY <1>1, <2>1
<1>4. ASSUME NEW w \in Workers, NEW m \in Message,
             \/ RemoveRetry(w, m) \/ PushRetry(w, m) \/ Pop(w, m)
             \/ MarkProcessing(w, m) \/ NackRemove(w, m)
      PROVE  Step
  <2>1. UNCHANGED <<historyVars, dlq>>
    BY <1>4 DEF RemoveRetry, PushRetry, Pop, MarkProcessing, NackRemove
  <2>2. QED
    BY <1>1, <2>1
<1>5. ASSUME NEW w \in Workers, NEW m \in Message, SendSucceeds(w, m) PROVE Step
  <2>1. m.alert \in accepted
    BY <1>5, <1>a DEF SendSucceeds, Backed
  <2>2. Delivery!Try(m.alert)
    BY <1>5, <2>1 DEF SendSucceeds, listVars, Delivery!Try
  <2>3. QED
    BY <1>b, <2>2 DEF Delivery!Next
<1>6. ASSUME NEW w \in Workers, NEW m \in Message, SendFails(w, m) PROVE Step
  <2>1. m.alert \in accepted
    BY <1>6, <1>a DEF SendFails, Backed
  <2>2. Delivery!Try(m.alert)
    BY <1>6, <2>1 DEF SendFails, listVars, Delivery!Try
  <2>3. QED
    BY <1>b, <2>2 DEF Delivery!Next
<1>7. ASSUME NEW w \in Workers, NEW m \in Message, Ack(w, m) PROVE Step
  <2>1. m.alert \in taken
    BY <1>7, <1>a DEF Ack
  <2>2. Delivery!Settle(m.alert)
    BY <1>7, <2>1 DEF Ack, Delivery!Settle
  <2>3. QED
    BY <1>b, <2>2 DEF Delivery!Next
<1>8. ASSUME NEW w \in Workers, NEW m \in Message, Requeue(w, m) PROVE Step
  <2>1. UNCHANGED historyVars
    BY <1>8 DEF Requeue
  <2>2. CASE m.attempt < MaxRetries
    BY <1>1, <1>8, <2>1, <2>2 DEF Requeue
  <2>3. CASE ~(m.attempt < MaxRetries)
    <3>1. failures[m.alert] > m.attempt /\ m.attempt = MaxRetries
      BY <1>8, <1>a, <1>b, <2>3 DEF Requeue
    <3>2. dlq' = Plus(dlq, m)
      BY <1>8, <2>3 DEF Requeue
    <3>3. \A n \in Message : dlq'[n] > 0 <=> dlq[n] > 0 \/ n = m
      BY <1>a, <3>2, PlusAdds
    <3>4. DeadAlerts' = DeadAlerts \cup {m.alert}
      BY <1>b, <3>3 DEF DeadAlerts
    <3>5. Delivery!GiveUp(m.alert)
      BY <2>1, <3>1, <3>4 DEF historyVars, DeadAlerts, Delivery!GiveUp
    <3>6. QED
      BY <1>b, <3>5 DEF Delivery!Next
  <2>4. QED
    BY <2>2, <2>3
<1>9. ASSUME Crash PROVE Step
  <2>1. CASE redis
    BY <1>1, <1>9, <2>1 DEF Crash, listVars
  <2>2. CASE ~redis
    <3>1. dlq' = Empty
      BY <1>9, <2>2 DEF Crash
    <3>2. DeadAlerts' = {}
      BY <3>1, EmptyIsList DEF DeadAlerts
    <3>3. Delivery!Forget
      BY <1>9, <3>2 DEF Crash, historyVars, DeadAlerts, Delivery!Forget
    <3>4. QED
      BY <3>3 DEF Delivery!Next
  <2>3. QED
    BY <2>1, <2>2
<1>10. StopWorker \/ UNCHANGED queueVars => Step
  <2>1. StopWorker \/ UNCHANGED queueVars => UNCHANGED <<historyVars, dlq>>
    BY DEF StopWorker, queueVars, listVars
  <2>2. QED
    BY <1>1, <2>1
<1>11. Step
  <2> HIDE DEF Step
  <2>1. QueueNext \/ UNCHANGED queueVars
    OBVIOUS
  <2>2. ASSUME NEW w \in Workers, NEW m \in Message, HandleMessage(w, m) PROVE Step
    BY <2>2, <1>4, <1>5, <1>6, <1>7, <1>8 DEF HandleMessage
  <2>3. CASE QueueNext
    <3>1. CASE \E a \in Alerts : Enqueue(a)
      BY <3>1, <1>2
    <3>2. CASE \E w \in Workers : StartWorker(w) \/ WorkerStep(w) \/ Fault(w)
      BY <3>2, <2>2, <1>3 DEF WorkerStep
    <3>3. QED
      BY <2>3, <3>1, <3>2, <1>9, <1>10 DEF QueueNext
  <2>4. QED
    BY <2>1, <2>3, <1>10
<1>12. QED
  BY <1>11

\* The queue and its workers implement AlertDelivery: crashes, failing commands
\* and workers at the same list may delay, lose or repeat an alert, but never
\* deliver one nobody sent, acknowledge one no channel took, or give one up early.
THEOREM QueueImplementsDelivery == QueueSpec => DeliveryRefined
<1>1. QueueInit => Delivery!Init
  BY EmptyIsList DEF QueueInit, Delivery!Init
<1>2. QueueInv /\ [QueueNext]_queueVars => [Delivery!Next]_(Delivery!vars)
  BY DeliveryStep
<1>3. QED
  BY <1>1, <1>2, QueueInvariant, PTL DEF QueueSpec, DeliveryRefined, Delivery!Spec
=============================================================================
