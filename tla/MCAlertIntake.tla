---------------------------- MODULE MCAlertIntake ----------------------------
(* Two producers; two keys of an aggregated rule, and one of another rule,   *)
(* all of them of one severity and source.                                   *)
EXTENDS AlertIntake, TLC

CONSTANTS p1, p2, down, slow, lost

MCRuleOf == (down :> "P1") @@ (slow :> "P2") @@ (lost :> "P2")
MCGroupOf == [r \in {"P1", "P2"} |-> "g"]
MCRateLimit == [g \in {"g"} |-> 2]
MCSymmetry == Permutations({p1, p2}) \cup Permutations({slow, lost})
=============================================================================
