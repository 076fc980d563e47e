----------------------------- MODULE MCFxRates -----------------------------
(* Rates at, near and far from the others; entries that live one step.  The *)
(* rate of USDT/USD is written and never read: states are told apart by the *)
(* rest.                                                                    *)
EXTENDS FxRates, TLC

CONSTANTS binance, okx, bybit

MCSymmetry == Permutations({binance, okx, bybit})
MCView == <<updates, source, cache, pc, pair, during, stamp, leg>>
=============================================================================
