--------------------------- MODULE MCAlertQueue ---------------------------
(* Instances of AlertQueue: alerts and worker threads are model values.      *)
EXTENDS AlertQueue
=============================================================================
