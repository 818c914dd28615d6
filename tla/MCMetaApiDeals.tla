--------------------------- MODULE MCMetaApiDeals ---------------------------
(* Small sets for TLC: one or two positions, one or two calls at once.      *)
EXTENDS MetaApiDeals

CONSTANTS p1, p2, k1, k2, backfill

OnePosition == {p1}
TwoPositions == {p1, p2}
OneCall == {k1}
TwoCalls == {k1, k2}

=============================================================================
