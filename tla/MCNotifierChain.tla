-------------------------- MODULE MCNotifierChain --------------------------
(***************************************************************************)
(* Instances of NotifierChain: telegram with slack and the log behind it,  *)
(* slack also a channel of its own.                                        *)
(***************************************************************************)
EXTENDS NotifierChain

MCNotifiers == {"telegram", "slack", "local_log"}
MCRoutes == << [chained |-> TRUE,  notifiers |-> <<"telegram", "slack", "local_log">>],
               [chained |-> FALSE, notifiers |-> <<"slack">>] >>
=============================================================================
