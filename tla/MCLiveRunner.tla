--------------------------- MODULE MCLiveRunner ---------------------------
(***************************************************************************)
(* Instances of LiveRunner.  The books are one of each kind on_snapshot    *)
(* tells apart: an opportunity that just covers the costs, a good one in   *)
(* each direction (of different size), one that favours nobody, one that   *)
(* only keeps what is open, a crossed one and one whose ask is zero.       *)
(***************************************************************************)
EXTENDS LiveRunner

Quotes(bidA, askA, bidB, askB) ==
  [bidA |-> bidA, askA |-> askA, bidB |-> bidB, askB |-> askB]

MCBooks == { Quotes(100, 101, 103, 104),   \* A to B, edge equal to the costs
             Quotes(100, 101, 105, 106),   \* A to B, an edge of two
             Quotes(104, 106, 100, 101),   \* B to A, an edge of one
             Quotes(100, 103, 101, 104),   \* both spreads negative
             Quotes(100, 101, 101, 103),   \* spread zero: nothing to do
             Quotes(104, 100, 104, 100),   \* crossed books
             Quotes(0, 0, 100, 101) }      \* an empty ask
=============================================================================
