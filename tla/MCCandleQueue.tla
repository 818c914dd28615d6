----------------------------- MODULE MCCandleQueue -----------------------------
(***************************************************************************)
(* A small instance of CandleQueue for TLC: a day and a month.             *)
(***************************************************************************)
EXTENDS CandleQueue

CONSTANTS day, month

Jobs == {day, month}
Month == {month}

=============================================================================
