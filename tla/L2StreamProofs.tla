-------------------------- MODULE L2StreamProofs --------------------------
(***************************************************************************)
(* Proofs about the streams of order books, for any number of threads and  *)
(* connections and every number of attempts.  A thread of Binance that is  *)
(* alive may only end by giving up, or at its loop head; there it goes on  *)
(* if the flag is set, because a set flag means attempts are left.         *)
(***************************************************************************)
EXTENDS L2Stream, TLAPS

AttemptsLeft == running => count < MaxReconnectAttempts

StreamInv == StreamTypeOK /\ AttemptsLeft /\ RunningHasThread

(* Where a coroutine goes on keeps the types, and the thread is alive there  *)
(* unless it is done.                                                        *)
LEMMA GotoTypes ==
  ASSUME NEW t \in Threads, NEW p \in StreamPc, StreamTypeOK, Goto(t, p)
  PROVE  /\ pc' \in [Threads -> StreamPc]
         /\ on' \in [Threads -> Conns \cup {None}]
         /\ stopping' \in [Threads -> {"none", "due", "closing"}]
         /\ closes' \in [Threads -> Conns \cup {None}]
         /\ p # "done" => (\E u \in Threads : Alive(u))'
  <1>1. pc' = [pc EXCEPT ![t] = p] /\ pc \in [Threads -> StreamPc]
    BY DEF Goto, StreamTypeOK
  <1>2. p # "done" => (\E u \in Threads : Alive(u))'
    BY <1>1 DEF Alive
  <1>3. on' \in [Threads -> Conns \cup {None}] /\ pc' \in [Threads -> StreamPc]
    BY DEF Goto, StreamTypeOK
  <1>4. /\ stopping' \in [Threads -> {"none", "due", "closing"}]
        /\ closes' \in [Threads -> Conns \cup {None}]
    BY DEF Goto, StreamTypeOK, stopVars
  <1> QED BY <1>2, <1>3, <1>4

LEMMA AwaitTypes ==
  ASSUME NEW t \in Threads, NEW p \in Awaiting, NEW c \in Conns \cup {None},
         StreamTypeOK, Await(t, p, c)
  PROVE  /\ pc' \in [Threads -> StreamPc]
         /\ on' \in [Threads -> Conns \cup {None}]
         /\ stopping' \in [Threads -> {"none", "due", "closing"}]
         /\ closes' \in [Threads -> Conns \cup {None}]
         /\ (\E u \in Threads : Alive(u))'
  <1>1. pc' = [pc EXCEPT ![t] = p] /\ pc \in [Threads -> StreamPc] /\ p \in StreamPc /\ p # "done"
    BY DEF Await, StreamTypeOK, StreamPc, Awaiting
  <1>2. (\E u \in Threads : Alive(u))'
    BY <1>1 DEF Alive
  <1>3. pc' \in [Threads -> StreamPc]
    BY <1>1
  <1>4. /\ on' \in [Threads -> Conns \cup {None}]
        /\ stopping' \in [Threads -> {"none", "due", "closing"}]
        /\ closes' \in [Threads -> Conns \cup {None}]
    BY DEF Await, StreamTypeOK, stopVars
  <1> QED BY <1>2, <1>3, <1>4

(* A new connection keeps the types of the adapter. *)
LEMMA OpenedTypes ==
  ASSUME NEW c \in Conns, StreamTypeOK, Opened(c)
  PROVE  /\ conn' \in [Conns -> {"open", "subscribed", "closed"}]
         /\ ws' \in Conns \cup {None} /\ connected' \in BOOLEAN
  BY DEF Opened, StreamTypeOK

(* A failed attempt keeps the invariant: the last one clears the flag. *)
LEMMA FailedKeepsInv ==
  ASSUME NEW t \in Threads, StreamInv, Failed(t)
  PROVE  StreamInv'
  <1> USE StreamAssumption
  <1>1. PICK p \in {"done", "backoff"} :
          /\ Goto(t, p)
          /\ p = "done" => running' = FALSE
          /\ p = "backoff" => count' < MaxReconnectAttempts /\ running' = running
    BY DEF Failed, StreamInv, StreamTypeOK
  <1>2. p \in StreamPc
    BY DEF StreamPc, Awaiting
  <1>3. StreamTypeOK'
    <2>1. UNCHANGED <<loop, ws, connected, receiving, conn>>
      BY DEF Failed, adapterVars
    <2>2. count' \in Nat
      BY DEF Failed, StreamInv, StreamTypeOK
    <2>3. running' \in BOOLEAN
      BY <1>1 DEF Failed, StreamInv, StreamTypeOK
    <2> QED BY <1>1, <1>2, <2>1, <2>2, <2>3, GotoTypes DEF StreamInv, StreamTypeOK
  <1>4. AttemptsLeft'
    BY <1>1 DEF AttemptsLeft
  <1>5. RunningHasThread'
    <2>1. CASE p = "done"
      BY <1>1, <2>1 DEF RunningHasThread
    <2>2. CASE p = "backoff"
      BY <1>1, <1>2, <2>2, GotoTypes DEF StreamInv, RunningHasThread
    <2> QED BY <1>1, <2>1, <2>2
  <1> QED BY <1>3, <1>4, <1>5 DEF StreamInv

(* So does every step of a thread that goes on at p and neither sets the     *)
(* flag nor takes an attempt.                                                *)
LEMMA GotoKeepsInv ==
  ASSUME NEW t \in Threads, NEW p \in StreamPc, StreamInv, Goto(t, p),
         running' = running, count' \in {0, count},
         loop' \in Threads \cup {None}, ws' \in Conns \cup {None},
         connected' \in BOOLEAN, receiving' \in BOOLEAN,
         conn' \in [Conns -> {"open", "subscribed", "closed"}],
         p = "done" => ~running \/ Exchange = "upbit"
  PROVE  StreamInv'
  <1> USE StreamAssumption
  <1>1. StreamTypeOK'
    <2>1. running' \in BOOLEAN /\ count' \in Nat
      BY DEF StreamInv, StreamTypeOK
    <2> QED BY <2>1, GotoTypes DEF StreamInv, StreamTypeOK
  <1>2. AttemptsLeft'
    BY DEF StreamInv, AttemptsLeft
  <1>3. RunningHasThread'
    <2>1. CASE p = "done"
      BY <2>1 DEF StreamInv, RunningHasThread
    <2>2. CASE p # "done"
      BY <2>2, GotoTypes DEF StreamInv, RunningHasThread
    <2> QED BY <2>1, <2>2
  <1> QED BY <1>1, <1>2, <1>3 DEF StreamInv

LEMMA AwaitKeepsInv ==
  ASSUME NEW t \in Threads, NEW p \in Awaiting, NEW c \in Conns \cup {None},
         StreamInv, Await(t, p, c), UNCHANGED providerVars,
         ws' \in Conns \cup {None}, connected' \in BOOLEAN, receiving' \in BOOLEAN,
         conn' \in [Conns -> {"open", "subscribed", "closed"}]
  PROVE  StreamInv'
  <1>1. StreamTypeOK'
    BY AwaitTypes DEF StreamInv, StreamTypeOK, providerVars
  <1>2. AttemptsLeft' /\ RunningHasThread'
    BY AwaitTypes DEF StreamInv, AttemptsLeft, RunningHasThread, providerVars
  <1> QED BY <1>1, <1>2 DEF StreamInv

(* And every step that leaves the threads where they are. *)
LEMMA ThreadsStayKeepsInv ==
  ASSUME StreamInv, UNCHANGED threadVars, running' \in {running, FALSE},
         count' = count, loop' = loop, ws' = ws,
         connected' \in BOOLEAN, receiving' \in BOOLEAN,
         conn' \in [Conns -> {"open", "subscribed", "closed"}],
         stopping' \in [Threads -> {"none", "due", "closing"}],
         closes' \in [Threads -> Conns \cup {None}]
  PROVE  StreamInv'
  <1>1. StreamTypeOK'
    BY DEF StreamInv, StreamTypeOK, threadVars
  <1>2. AttemptsLeft' /\ RunningHasThread'
    <2>1. CASE running' = FALSE
      BY <2>1 DEF AttemptsLeft, RunningHasThread
    <2>2. CASE running' = running
      BY <2>2 DEF StreamInv, AttemptsLeft, RunningHasThread, threadVars, Alive
    <2> QED BY <2>1, <2>2
  <1> QED BY <1>1, <1>2 DEF StreamInv

-----------------------------------------------------------------------------
LEMMA InitKeepsInv == StreamInit => StreamInv
  <1> SUFFICES ASSUME StreamInit PROVE StreamInv
    OBVIOUS
  <1>1. AttemptsLeft /\ RunningHasThread
    BY DEF StreamInit, AttemptsLeft, RunningHasThread
  <1>2. StreamTypeOK
    BY DEF StreamInit, StreamTypeOK, StreamPc
  <1> QED BY <1>1, <1>2 DEF StreamInv

LEMMA StartKeepsInv ==
  ASSUME NEW t \in Threads, StreamInv, Start(t)
  PROVE  StreamInv'
  <1> USE StreamAssumption
  <1>1. "new" \in StreamPc /\ Goto(t, "new") /\ running' = TRUE /\ count' = 0
    BY DEF Start, StreamPc
  <1>2. StreamTypeOK'
    BY <1>1, GotoTypes DEF Start, StreamInv, StreamTypeOK, adapterVars
  <1>3. AttemptsLeft' /\ RunningHasThread'
    BY <1>1, GotoTypes DEF StreamInv, AttemptsLeft, RunningHasThread
  <1> QED BY <1>2, <1>3 DEF StreamInv

LEMMA ThreadKeepsInv ==
  ASSUME NEW t \in Threads, StreamInv, ThreadStep(t)
  PROVE  StreamInv'
  <1> USE StreamAssumption
  <1>a. StreamTypeOK /\ AttemptsLeft
    BY DEF StreamInv
  <1>p. Awaiting \subseteq StreamPc /\ {"done", "top", "loop"} \subseteq StreamPc
        /\ {"connect", "subscribe", "recv", "close", "backoff", "retry", "reconnect"} = Awaiting
    BY DEF StreamPc, Awaiting
  <1>c. ASSUME BeginClose(t) PROVE StreamInv'
    BY <1>a, <1>c, <1>p, AwaitKeepsInv DEF BeginClose, StreamTypeOK
  <1>1. CASE OpenLoop(t)
    BY <1>1, <1>a, <1>p, GotoKeepsInv DEF OpenLoop, StreamTypeOK, adapterVars
  <1>2. CASE Top(t)
    <2>1. PICK p \in {"connect", "done"} : Goto(t, p) /\ (p = "done" => ~running)
      BY <1>2, <1>a DEF Top, AttemptsLeft
    <2>2. p \in StreamPc
      BY <1>p
    <2> QED BY <1>2, <1>a, <2>1, <2>2, GotoKeepsInv DEF Top, StreamTypeOK, providerVars, adapterVars
  <1>3. CASE Connect(t)
    <2>1. CASE Failed(t)
      BY <2>1, FailedKeepsInv
    <2>2. CASE /\ \E c \in Conns : Opened(c)
               /\ Goto(t, "subscribe")
               /\ UNCHANGED <<providerVars, receiving>>
      BY <2>2, <1>a, <1>p, OpenedTypes, GotoKeepsInv DEF StreamTypeOK, providerVars
    <2> QED BY <1>3, <2>1, <2>2 DEF Connect
  <1>4. CASE Subscribe(t)
    <2>1. CASE Failed(t)
      BY <2>1, FailedKeepsInv
    <2>2. CASE ~Failed(t)
      <3>1. /\ conn' = [conn EXCEPT ![ws] = "subscribed"] /\ count' = 0
            /\ receiving' = TRUE /\ Goto(t, "loop") /\ UNCHANGED <<running, loop, ws, connected>>
        BY <1>4, <2>2 DEF Subscribe, Connected
      <3>2. conn' \in [Conns -> {"open", "subscribed", "closed"}]
        BY <3>1, <1>a DEF StreamTypeOK
      <3> QED BY <3>1, <3>2, <1>a, <1>p, GotoKeepsInv DEF StreamTypeOK
    <2> QED BY <2>1, <2>2
  <1>5. CASE Backoff(t)
    BY <1>5, <1>a, <1>p, GotoKeepsInv DEF Backoff, StreamTypeOK, providerVars, adapterVars
  <1>6. CASE Loop(t)
    <2> USE <1>6, <1>a, <1>p DEF StreamTypeOK, providerVars, adapterVars
    <2>1. CASE ~receiving /\ Goto(t, AfterLoss)
      <3>1. AfterLoss \in StreamPc /\ (AfterLoss = "done" => Exchange = "upbit")
        BY DEF AfterLoss
      <3> QED BY <2>1, <3>1, GotoKeepsInv DEF Loop
    <2>2. CASE Await(t, "recv", ws)
      BY <2>2, AwaitKeepsInv DEF Loop
    <2>3. CASE Goto(t, "retry")
      BY <2>3, GotoKeepsInv DEF Loop
    <2> QED BY <2>1, <2>2, <2>3 DEF Loop
  <1>7. CASE Receive(t)
    BY <1>7, <1>a, <1>p, GotoKeepsInv DEF Receive, StreamTypeOK, providerVars, adapterVars
  <1>8. CASE HeartbeatTimeout(t)
    BY <1>8, <1>c DEF HeartbeatTimeout
  <1>9. CASE ReceiveFails(t)
    BY <1>9, <1>c DEF ReceiveFails
  <1>10. CASE EndClose(t)
    <2>1. conn' \in [Conns -> {"open", "subscribed", "closed"}] /\ connected' \in BOOLEAN
      BY <1>10, <1>a DEF EndClose, StreamTypeOK
    <2> QED BY <1>10, <1>a, <1>p, <2>1, GotoKeepsInv DEF EndClose, StreamTypeOK, providerVars
  <1>11. CASE RetryWait(t)
    BY <1>11, <1>a, <1>p, GotoKeepsInv DEF RetryWait, StreamTypeOK, providerVars, adapterVars
  <1>12. CASE Reconnect(t)
    <2>1. CASE BeginClose(t)
      BY <2>1, <1>c
    <2>2. CASE Await(t, "recv", ws) /\ UNCHANGED <<providerVars, adapterVars, conn>>
      BY <2>2, <1>a, <1>p, AwaitKeepsInv DEF StreamTypeOK, adapterVars
    <2>3. ASSUME NEW c \in Conns, Opened(c), Await(t, "recv", c), UNCHANGED <<providerVars, receiving>>
          PROVE  StreamInv'
      BY <2>3, <1>a, <1>p, OpenedTypes, AwaitKeepsInv DEF StreamTypeOK
    <2> QED BY <1>12, <2>1, <2>2, <2>3 DEF Reconnect
  <1> QED BY <1>1, <1>2, <1>3, <1>4, <1>5, <1>6, <1>7, <1>8, <1>9, <1>10, <1>11, <1>12 DEF ThreadStep

LEMMA OthersKeepInv ==
  ASSUME StreamInv,
         \/ Stop
         \/ \E t \in Threads : StopBegins(t) \/ StopEnds(t)
         \/ \E c \in Conns : Lose(c)
         \/ UNCHANGED streamVars
  PROVE  StreamInv'
  <1>a. StreamTypeOK
    BY DEF StreamInv
  <1> USE <1>a DEF StreamTypeOK, providerVars, adapterVars, stopVars
  <1>1. CASE Stop
    BY <1>1, ThreadsStayKeepsInv DEF Stop
  <1>2. ASSUME NEW t \in Threads, StopBegins(t) PROVE StreamInv'
    BY <1>2, ThreadsStayKeepsInv DEF StopBegins
  <1>3. ASSUME NEW t \in Threads, StopEnds(t) PROVE StreamInv'
    <2>1. conn' \in [Conns -> {"open", "subscribed", "closed"}] /\ connected' \in BOOLEAN
      BY <1>3 DEF StopEnds
    <2>2. /\ stopping' \in [Threads -> {"none", "due", "closing"}]
          /\ closes' \in [Threads -> Conns \cup {None}]
      BY <1>3 DEF StopEnds
    <2> QED BY <1>3, <2>1, <2>2, ThreadsStayKeepsInv DEF StopEnds
  <1>4. ASSUME NEW c \in Conns, Lose(c) PROVE StreamInv'
    BY <1>4, ThreadsStayKeepsInv DEF Lose
  <1>5. CASE UNCHANGED streamVars
    BY <1>5, ThreadsStayKeepsInv DEF streamVars
  <1> QED BY <1>1, <1>2, <1>3, <1>4, <1>5

LEMMA NextKeepsInv ==
  ASSUME StreamInv, [StreamNext]_streamVars
  PROVE  StreamInv'
  BY StartKeepsInv, ThreadKeepsInv, OthersKeepInv DEF StreamNext

(* A provider of Binance whose flag is set has a thread, over every history  *)
(* of starts, stops and losses (exchanges/binance_l2_ws_provider.py).        *)
THEOREM RunningProviderIsAlive == StreamSpec => [](StreamTypeOK /\ RunningHasThread)
  <1>1. StreamSpec => []StreamInv
    BY InitKeepsInv, NextKeepsInv, PTL DEF StreamSpec
  <1>2. StreamInv => StreamTypeOK /\ RunningHasThread
    BY DEF StreamInv
  <1> QED BY <1>1, <1>2, PTL
=============================================================================
