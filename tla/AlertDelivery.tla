-------------------------- MODULE AlertDelivery --------------------------
(***************************************************************************)
(* What the alert dispatcher promises of every alert, without threads,     *)
(* lists or a Redis server: an alert is tried only after it was accepted,  *)
(* it counts as delivered only after a channel took it, and it is given up *)
(* only after the first try and every retry failed.  AlertQueue implements *)
(* it (AlertQueue!DeliveryRefined), also when the process crashes, Redis   *)
(* fails and two workers run at once.                                      *)
(***************************************************************************)
EXTENDS Integers

CONSTANTS
  Alerts,
  Retries   \* retries after the first try

VARIABLES
  accepted,  \* the alerts the dispatcher took over
  taken,     \* the alerts some channel took, reported or not
  failures,  \* how many tries of an alert were reported as failed
  done,      \* the alerts settled as delivered
  dead       \* the alerts given up

vars == <<accepted, taken, failures, done, dead>>

Init ==
  /\ accepted = {} /\ taken = {} /\ done = {} /\ dead = {}
  /\ failures = [a \in Alerts |-> 0]

Accept(a) ==
  /\ a \notin accepted
  /\ accepted' = accepted \cup {a}
  /\ UNCHANGED <<taken, failures, done, dead>>

\* A try that is reported as failed may have reached a channel all the same.
Try(a) ==
  /\ a \in accepted
  /\ \/ taken' = taken \cup {a} /\ UNCHANGED failures
     \/ /\ taken' \in {taken, taken \cup {a}}
        /\ failures' = [failures EXCEPT ![a] = @ + 1]
  /\ UNCHANGED <<accepted, done, dead>>

Settle(a) ==
  /\ a \in taken
  /\ done' = done \cup {a}
  /\ UNCHANGED <<accepted, taken, failures, dead>>

GiveUp(a) ==
  /\ failures[a] > Retries
  /\ dead' = dead \cup {a}
  /\ UNCHANGED <<accepted, taken, failures, done>>

\* The list of the dead goes with the process when it is not in Redis.
Forget ==
  /\ dead' = {}
  /\ UNCHANGED <<accepted, taken, failures, done>>

Next ==
  \/ \E a \in Alerts : Accept(a) \/ Try(a) \/ Settle(a) \/ GiveUp(a)
  \/ Forget

Spec == Init /\ [][Next]_vars
=============================================================================
