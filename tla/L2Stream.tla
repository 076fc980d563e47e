----------------------------- MODULE L2Stream -----------------------------
(***************************************************************************)
(* The stream of order books of one exchange: the provider that keeps a    *)
(* thread with an event loop (exchanges/upbit_l2_ws_provider.py and        *)
(* binance_l2_ws_provider.py) over the web socket adapter all its threads  *)
(* share (exchanges/ws_client.py).                                         *)
(*                                                                         *)
(* A thread steps from one await to the next.  stop() schedules the        *)
(* adapter's disconnect on the loop of the latest thread, waits five       *)
(* seconds for it and five for the thread, and returns whether or not they *)
(* ended; so start() may come while an old thread still sleeps, and the    *)
(* two share the adapter's socket and flags.  Waiting times are not        *)
(* modelled, nor is what a book says.                                      *)
(***************************************************************************)
EXTENDS Integers

CONSTANTS
  Exchange,   \* "upbit" or "binance": whose provider it is
  Threads,    \* bound: threads alive at a time
  Conns,      \* names of connections; a name nobody holds is used again
  MaxReconnectAttempts,
  None

ASSUME StreamAssumption ==
  /\ Exchange \in {"upbit", "binance"}
  /\ MaxReconnectAttempts \in Nat \ {0}
  /\ Conns \subseteq Int
  /\ None \notin Conns \cup Threads

VARIABLES
  running,    \* the provider's _is_running
  count,      \* _reconnect_count
  loop,       \* the thread whose event loop _loop is
  ws, connected, receiving,  \* the adapter's ws, is_connected, is_running
  conn,       \* external: the connections
  pc,         \* the await each thread is at, or the loop head it comes to
  on,         \* the connection it reads from or closes
  stopping,   \* the disconnect that stop() put on its loop
  closes      \* the connection that closes

providerVars == <<running, count, loop>>
adapterVars == <<ws, connected, receiving>>
threadVars == <<pc, on>>
stopVars == <<stopping, closes>>
streamVars == <<providerVars, adapterVars, conn, threadVars, stopVars>>

Awaiting == {"connect", "subscribe", "recv", "close", "backoff", "retry", "reconnect"}
StreamPc == Awaiting \cup {"done", "new", "top", "loop"}
Alive(t) == pc[t] # "done"

Held == {ws} \cup {on[t] : t \in Threads} \cup {closes[t] : t \in Threads}
\* connect() returned connection c.
Opened(c) ==
  /\ c \in Conns \ Held
  /\ \A d \in Conns \ Held : c <= d
  /\ conn' = [d \in Conns |-> IF d = c THEN "open" ELSE IF d \in Held THEN conn[d] ELSE "closed"]
  /\ ws' = c /\ connected' = TRUE

\* The coroutine of thread t goes on at p; with "done" its loop is closed,
\* and a disconnect still on it never goes on.
Goto(t, p) ==
  /\ pc' = [pc EXCEPT ![t] = p]
  /\ on' = [on EXCEPT ![t] = None]
  /\ IF p = "done"
     THEN /\ stopping' = [stopping EXCEPT ![t] = "none"]
          /\ closes' = [closes EXCEPT ![t] = None]
     ELSE UNCHANGED stopVars

\* ... at an await on connection c.
Await(t, p, c) ==
  /\ pc' = [pc EXCEPT ![t] = p]
  /\ on' = [on EXCEPT ![t] = c]
  /\ UNCHANGED stopVars

-----------------------------------------------------------------------------
(* Slips of a change to the streams; see the README. *)

\* The thread gives up and leaves the flag as it is.
FailedFlagKept(t) ==
  /\ count' = count + 1
  /\ Goto(t, IF count + 1 >= MaxReconnectAttempts THEN "done" ELSE "backoff")
  /\ UNCHANGED <<running, loop, adapterVars, conn>>

\* receive_loop came to an end: break, as in the provider of Upbit.
AfterLossBreak == "done"

\* while self._reconnect_count < self.max_reconnect_attempts
TopUnlessExhausted(t) ==
  /\ pc[t] = "top"
  /\ Goto(t, IF count < MaxReconnectAttempts THEN "connect" ELSE "done")
  /\ UNCHANGED <<providerVars, adapterVars, conn>>

-----------------------------------------------------------------------------
(* The owner of the provider. *)

Start(t) ==
  /\ ~running /\ ~Alive(t)
  /\ running' = TRUE /\ count' = 0
  /\ Goto(t, "new")
  /\ UNCHANGED <<loop, adapterVars, conn>>

\* Bound: one disconnect per loop at a time.
Stop ==
  /\ running
  /\ running' = FALSE
  /\ IF loop # None /\ Alive(loop)
     THEN /\ stopping[loop] = "none"
          /\ stopping' = [stopping EXCEPT ![loop] = "due"]
     ELSE UNCHANGED stopping
  /\ UNCHANGED <<count, loop, adapterVars, conn, threadVars, closes>>

-----------------------------------------------------------------------------
(* _connect_and_subscribe *)

\* An exception of connect or subscribe.
Failed(t) ==
  /\ count' = count + 1
  /\ IF count + 1 >= MaxReconnectAttempts
     THEN running' = FALSE /\ Goto(t, "done")
     ELSE Goto(t, "backoff") /\ UNCHANGED running
  /\ UNCHANGED <<loop, adapterVars, conn>>

Connected == count' = 0
AfterLoss == IF Exchange = "upbit" THEN "done" ELSE "top"

OpenLoop(t) ==
  /\ pc[t] = "new"
  /\ loop' = t
  /\ Goto(t, "top")
  /\ UNCHANGED <<running, count, adapterVars, conn>>

Top(t) ==
  /\ pc[t] = "top"
  /\ Goto(t, IF running /\ count < MaxReconnectAttempts THEN "connect" ELSE "done")
  /\ UNCHANGED <<providerVars, adapterVars, conn>>

Connect(t) ==
  /\ pc[t] = "connect"
  /\ \/ /\ \E c \in Conns : Opened(c)
        /\ Goto(t, "subscribe")
        /\ UNCHANGED <<providerVars, receiving>>
     \/ Failed(t)

\* The subscription is sent on whatever socket the adapter has by now; only
\* the adapter of Binance asks is_connected first.  Then receive_loop begins.
Subscribe(t) ==
  /\ pc[t] = "subscribe"
  /\ IF conn[ws] # "closed" /\ (Exchange = "binance" => connected)
     THEN /\ conn' = [conn EXCEPT ![ws] = "subscribed"]
          /\ Connected
          /\ receiving' = TRUE
          /\ Goto(t, "loop")
          /\ UNCHANGED <<running, loop, ws, connected>>
     ELSE Failed(t)

Backoff(t) ==
  /\ pc[t] = "backoff"
  /\ Goto(t, "top")
  /\ UNCHANGED <<providerVars, adapterVars, conn>>

-----------------------------------------------------------------------------
(* BaseWebSocketClient.receive_loop, _reconnect and disconnect *)

Loop(t) ==
  /\ pc[t] = "loop"
  /\ \/ ~receiving /\ Goto(t, AfterLoss)
     \/ receiving /\ connected /\ Await(t, "recv", ws)
     \/ receiving /\ ~connected /\ Goto(t, "retry")
  /\ UNCHANGED <<providerVars, adapterVars, conn>>

\* disconnect() of a thread up to its await.
BeginClose(t) ==
  /\ receiving' = FALSE
  /\ Await(t, "close", ws)
  /\ UNCHANGED <<providerVars, ws, connected, conn>>

\* A message, which goes to the callback, or ten seconds without one.
Receive(t) ==
  /\ pc[t] = "recv" /\ conn[on[t]] # "closed"
  /\ Goto(t, "loop")
  /\ UNCHANGED <<providerVars, adapterVars, conn>>

\* More than two heartbeat intervals without a message.
HeartbeatTimeout(t) ==
  /\ pc[t] = "recv" /\ conn[on[t]] # "closed"
  /\ BeginClose(t)

\* recv on a closed connection raises, and so does the second of two.
ReceiveFails(t) ==
  /\ pc[t] = "recv"
  /\ conn[on[t]] = "closed" \/ \E u \in Threads \ {t} : pc[u] = "recv" /\ on[u] = on[t]
  /\ BeginClose(t)

\* close() returned or raised, which disconnect() logs.
EndClose(t) ==
  /\ pc[t] = "close"
  /\ \/ /\ conn' = [conn EXCEPT ![on[t]] = "closed"]
        /\ connected' = FALSE
     \/ UNCHANGED <<conn, connected>>
  /\ Goto(t, "loop")
  /\ UNCHANGED <<providerVars, ws, receiving>>

RetryWait(t) ==
  /\ pc[t] = "retry"
  /\ Goto(t, "reconnect")
  /\ UNCHANGED <<providerVars, adapterVars, conn>>

\* Nothing is subscribed on the new connection.  A refused connection leaves
\* the old one to read from; a time-out is a receive error.
Reconnect(t) ==
  /\ pc[t] = "reconnect"
  /\ \/ \E c \in Conns :
          /\ Opened(c)
          /\ Await(t, "recv", c)
          /\ UNCHANGED <<providerVars, receiving>>
     \/ /\ Await(t, "recv", ws)
        /\ UNCHANGED <<providerVars, adapterVars, conn>>
     \/ BeginClose(t)

-----------------------------------------------------------------------------
(* disconnect() as stop() scheduled it: it runs while the thread awaits. *)

StopBegins(t) ==
  /\ stopping[t] = "due" /\ pc[t] \in Awaiting \cup {"top"}
  /\ receiving' = FALSE
  /\ IF ws = None
     THEN /\ connected' = FALSE
          /\ stopping' = [stopping EXCEPT ![t] = "none"]
          /\ UNCHANGED closes
     ELSE /\ stopping' = [stopping EXCEPT ![t] = "closing"]
          /\ closes' = [closes EXCEPT ![t] = ws]
          /\ UNCHANGED connected
  /\ UNCHANGED <<providerVars, ws, conn, threadVars>>

StopEnds(t) ==
  /\ stopping[t] = "closing" /\ pc[t] \in Awaiting \cup {"top"}
  /\ \/ /\ conn' = [conn EXCEPT ![closes[t]] = "closed"]
        /\ connected' = FALSE
     \/ UNCHANGED <<conn, connected>>
  /\ stopping' = [stopping EXCEPT ![t] = "none"]
  /\ closes' = [closes EXCEPT ![t] = None]
  /\ UNCHANGED <<providerVars, ws, receiving, threadVars>>

\* The exchange or the network ends a connection.
Lose(c) ==
  /\ c \in Held /\ conn[c] # "closed"
  /\ conn' = [conn EXCEPT ![c] = "closed"]
  /\ UNCHANGED <<providerVars, adapterVars, threadVars, stopVars>>

-----------------------------------------------------------------------------
StreamInit ==
  /\ running = FALSE /\ count = 0 /\ loop = None
  /\ ws = None /\ connected = FALSE /\ receiving = FALSE
  /\ conn = [c \in Conns |-> "closed"]
  /\ pc = [t \in Threads |-> "done"]
  /\ on = [t \in Threads |-> None]
  /\ stopping = [t \in Threads |-> "none"]
  /\ closes = [t \in Threads |-> None]

ThreadStep(t) ==
  \/ OpenLoop(t) \/ Top(t) \/ Connect(t) \/ Subscribe(t) \/ Backoff(t)
  \/ Loop(t) \/ Receive(t) \/ HeartbeatTimeout(t) \/ ReceiveFails(t) \/ EndClose(t)
  \/ RetryWait(t) \/ Reconnect(t)

StreamNext ==
  \/ Stop
  \/ \E t \in Threads : Start(t) \/ ThreadStep(t) \/ StopBegins(t) \/ StopEnds(t)
  \/ \E c \in Conns : Lose(c)

StreamSpec == StreamInit /\ [][StreamNext]_streamVars

\* Every await comes to an end, as each of them has a time-out; the loop
\* gets to the scheduled disconnect between two awaits; and nothing arrives
\* on a connection without a subscription, so its heartbeat does run out.
FairStreamSpec ==
  /\ StreamSpec
  /\ \A t \in Threads :
       /\ WF_streamVars(ThreadStep(t))
       /\ SF_streamVars(StopBegins(t))
       /\ SF_streamVars(HeartbeatTimeout(t) /\ conn[on[t]] # "subscribed")

-----------------------------------------------------------------------------
StreamTypeOK ==
  /\ running \in BOOLEAN /\ count \in Nat
  /\ loop \in Threads \cup {None}
  /\ ws \in Conns \cup {None}
  /\ connected \in BOOLEAN /\ receiving \in BOOLEAN
  /\ conn \in [Conns -> {"open", "subscribed", "closed"}]
  /\ pc \in [Threads -> StreamPc]
  /\ on \in [Threads -> Conns \cup {None}]
  /\ stopping \in [Threads -> {"none", "due", "closing"}]
  /\ closes \in [Threads -> Conns \cup {None}]

(* A provider of Binance that says it is running has a thread: whatever old  *)
(* threads do to its flag and its counter, one that gives up clears the      *)
(* flag, and start(), which refuses while the flag is set, can help again.   *)
RunningHasThread ==
  Exchange = "binance" /\ running => \E t \in Threads : Alive(t)

(* A stream that is lost is connected again or given up: after a thread      *)
(* closed its connection some thread tries a new one, or reads a live one,   *)
(* or the provider says that it stopped (auto-reconnect of the providers).   *)
LostStreamRetried ==
  \A t \in Threads :
    pc[t] = "close" ~> \/ ~running
                       \/ \E u \in Threads : \/ pc[u] = "connect"
                                             \/ pc[u] = "recv" /\ conn[on[u]] = "subscribed"

(* stop() while the only thread reads ends it, whatever the connection does. *)
StopEndsReader ==
  \A t \in Threads :
    (pc[t] = "recv" /\ stopping[t] = "due" /\ \A u \in Threads \ {t} : ~Alive(u))
      ~> (running \/ ~Alive(t))

=============================================================================
