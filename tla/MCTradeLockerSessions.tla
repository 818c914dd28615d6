------------------------- MODULE MCTradeLockerSessions -------------------------
(* Small sets for TLC: one login group of one or two accounts.              *)
EXTENDS TradeLockerSessions

CONSTANTS x1, x2

OneAccount == {x1}
TwoAccounts == {x1, x2}

=============================================================================
