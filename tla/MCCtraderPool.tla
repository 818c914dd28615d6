---------------------------- MODULE MCCtraderPool ----------------------------
(* Small sets for TLC: two rows, of two cTrader accounts or of one.         *)
EXTENDS CtraderPool, TLC

CONSTANTS t1, t2, c1, c2, a1, a2

TwoTokens == {t1, t2}
OneToken == {t1}
TwoAttempts == {a1, a2}
OwnCtid == t1 :> c1 @@ t2 :> c2
SameCtid == t1 :> c1 @@ t2 :> c1
OneCtid == t1 :> c1

=============================================================================
