----------------------------- MODULE MCPayouts ------------------------------
(***************************************************************************)
(* Instances of Payouts for TLC.  Fees of 3 and 5 cents split at 30% round   *)
(* differently one by one (0 + 1) and in sum (2).                           *)
(***************************************************************************)
EXTENDS Payouts

CONSTANTS o1, o2

TwoOrders == {o1, o2}
Subtotals == [o \in Order |-> 8]
Fees3And5 == [o \in Order |-> IF o = o1 THEN 3 ELSE 5]
=============================================================================
