---------------------------- MODULE AlertSend ----------------------------
(***************************************************************************)
(* What sending an alert promises to the worker that asks for it: an       *)
(* answer, and that "sent" means that some notifier took the alert.  It    *)
(* does not promise that an alert reported as failed is not out: a send    *)
(* that timed out may arrive later.                                        *)
(***************************************************************************)
CONSTANTS
  Threads,   \* who sends
  Alerts     \* what is sent

VARIABLES
  alert,     \* the alert each thread sends, or sent last
  report,    \* what it knows of that alert
  tried,     \* the alerts somebody began to send
  taken      \* the alerts some notifier took

sendVars == <<alert, report, tried, taken>>

Report == {"none", "busy", "sent", "failed"}

Begin(t, a) ==
  /\ report[t] # "busy"
  /\ report' = [report EXCEPT ![t] = "busy"]
  /\ alert' = [alert EXCEPT ![t] = a]
  /\ tried' = tried \cup {a}
  /\ UNCHANGED taken

\* In time or late.
Take(a) ==
  /\ a \in tried
  /\ taken' = taken \cup {a}
  /\ UNCHANGED <<alert, report, tried>>

ReportSent(t) ==
  /\ report[t] = "busy" /\ alert[t] \in taken
  /\ report' = [report EXCEPT ![t] = "sent"]
  /\ UNCHANGED <<alert, tried, taken>>

ReportFailed(t) ==
  /\ report[t] = "busy"
  /\ report' = [report EXCEPT ![t] = "failed"]
  /\ UNCHANGED <<alert, tried, taken>>

Init ==
  /\ alert \in [Threads -> Alerts]
  /\ report = [t \in Threads |-> "none"]
  /\ tried = {} /\ taken = {}

Next ==
  \/ \E t \in Threads :
       ReportSent(t) \/ ReportFailed(t) \/ \E a \in Alerts : Begin(t, a)
  \/ \E a \in Alerts : Take(a)

Spec == Init /\ [][Next]_sendVars
=============================================================================
