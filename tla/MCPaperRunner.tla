--------------------------- MODULE MCPaperRunner ---------------------------
(* Instances of PaperRunner: a price of 400 with no, a small and a wide      *)
(* spread, and one of 200.                                                   *)
EXTENDS PaperRunner

MCQuotes == {[bid |-> 400, ask |-> 400], [bid |-> 400, ask |-> 402],
             [bid |-> 400, ask |-> 404], [bid |-> 200, ask |-> 201]}
MCReversalBps == -10

\* No fill model; one that slips by 5 basis points, with whole, half and no fills.
MCFillModels == {[pct |-> 100, buyBps |-> 0, sellBps |-> 0]}
  \cup [pct : {0, 50, 100}, buyBps : {5}, sellBps : {5}]
=============================================================================
