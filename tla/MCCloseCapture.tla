---------------------------- MODULE MCCloseCapture ----------------------------
(***************************************************************************)
(* Small instances of CloseCapture for TLC.                                *)
(***************************************************************************)
EXTENDS CloseCapture, TLC

CONSTANTS f1, f2, p1, p2, nobody, nopos

OnePosition == {p1}
TwoPositions == {p1, p2}
TwoFlows == {f1, f2}
OneFlow == {f1}
SecondPosition == {p2}
None == {}
Callers == TwoFlows \cup {nobody}
OneFlowCallers == OneFlow \cup {nobody}

Interchangeable == Permutations(TwoFlows)
InterchangeablePositions == Permutations(TwoPositions)

=============================================================================
