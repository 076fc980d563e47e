---------------------------- MODULE MCStateStore ----------------------------
(* Three of the four categories, and enough failures for two spells of fallback. *)
EXTENDS StateStore

MCCategories == <<"session", "positions", "risk_guard">>
=============================================================================
