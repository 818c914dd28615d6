----------------------------- MODULE MCTradeWriter -----------------------------
(***************************************************************************)
(* Small instances of TradeWriter for TLC.                                 *)
(***************************************************************************)
EXTENDS TradeWriter

CONSTANTS p1, p2, nobody

OnePosition == {p1}
TwoPositions == {p1, p2}
None == {}

=============================================================================
