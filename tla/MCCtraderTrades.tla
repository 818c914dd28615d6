---------------------------- MODULE MCCtraderTrades ----------------------------
(***************************************************************************)
(* Small instances of CtraderTrades for TLC.                               *)
(***************************************************************************)
EXTENDS CtraderTrades

CONSTANTS p1, p2

OnePosition == {p1}
TwoPositions == {p1, p2}
None == {}

=============================================================================
