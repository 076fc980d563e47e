-------------------------- MODULE TradingSession --------------------------
(***************************************************************************)
(* What the live runner promises of a trading session, without the loop,   *)
(* the engine and the exchanges: a bounded set of positions, a loss that   *)
(* only grows, a limit beyond which nothing is opened, and a restart that  *)
(* brings back what was saved last or nothing, never a mixture.            *)
(* LiveRunner implements it (LiveRunner!SessionRefined).                   *)
(***************************************************************************)
EXTENDS Integers, FiniteSets

CONSTANTS
  MaxPositions,  \* positions the session may hold
  LossLimit      \* no position is opened at this loss or above

VARIABLES
  up,         \* the process runs
  halted,     \* the session was told to stop
  positions,  \* the positions it knows of
  loss,       \* the loss it has counted
  saved       \* the state saved last: a set of one, or none

vars == <<up, halted, positions, loss, saved>>

Init ==
  /\ up = TRUE
  /\ halted = FALSE
  /\ positions = {}
  /\ loss = 0
  /\ saved = {}

\* One position more, while both limits have room.
Open ==
  /\ up /\ ~halted
  /\ Cardinality(positions) < MaxPositions
  /\ loss < LossLimit
  /\ \E id \in positions' \ positions : positions' = positions \cup {id}
  /\ UNCHANGED <<up, halted, loss, saved>>

\* The result of a trade is booked: at most its own position goes.
Settle ==
  /\ up
  /\ positions' = positions \/ \E id \in positions : positions' = positions \ {id}
  /\ loss' >= loss
  /\ UNCHANGED <<up, halted, saved>>

\* The session is stopped for its loss, and for nothing else.
Halt ==
  /\ up
  /\ loss >= LossLimit
  /\ halted'
  /\ UNCHANGED <<up, positions, loss, saved>>

Save ==
  /\ up
  /\ saved' = {[positions |-> positions, loss |-> loss]}
  /\ UNCHANGED <<up, halted, positions, loss>>

\* The process ends, and its memory is gone.
Forget ==
  /\ up
  /\ ~up' /\ ~halted' /\ positions' = {} /\ loss' = 0
  /\ UNCHANGED saved

\* A new session, or the old one from nothing.
Restart ==
  /\ ~up
  /\ up'
  /\ saved' \in {saved, {}}
  /\ UNCHANGED <<halted, positions, loss>>

Recover ==
  /\ ~up
  /\ up'
  /\ \E s \in saved : positions' = s.positions /\ loss' = s.loss
  /\ UNCHANGED <<halted, saved>>

Next == Open \/ Settle \/ Halt \/ Save \/ Forget \/ Restart \/ Recover

Spec == Init /\ [][Next]_vars
=============================================================================
