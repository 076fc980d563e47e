---------------------------- MODULE MCL2Stream ----------------------------
(***************************************************************************)
(* Instances of L2Stream.  A connection is held by the adapter, by the      *)
(* thread or by scheduled disconnects: five names are enough.               *)
(***************************************************************************)
EXTENDS L2Stream

MCConns == 1 .. 5
=============================================================================
