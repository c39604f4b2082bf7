------------------------------ MODULE MCOrders ------------------------------
(***************************************************************************)
(* Instances of Orders for TLC.  One offering is enough for the counters,   *)
(* whose rows are independent; quantities 1 and 2 of a stock of 2 make      *)
(* orders compete for the last unit.  Amounts are scaled down: a total of 5 *)
(* against a no-show fee of 2 tells the two captures apart.                 *)
(***************************************************************************)
EXTENDS OrderProperties

CONSTANTS o1, o2, o3, f1

Two == {o1, o2}
Three == {o1, o2, o3}

OneOffering == {f1}
StockTwo == [f \in OneOffering |-> 2]

UnitEach == [o \in Order |-> [f \in OneOffering |-> 1]]
(* o3 asks for both units at once.                                          *)
PairLast ==
  [o \in Order |-> [f \in OneOffering |-> IF o = o3 THEN 2 ELSE 1]]

OwnCheckout == [o \in Order |-> o]
(* o2 is sent for the checkout session of o1: a double submit.              *)
DoubleSubmit == [o \in Order |-> IF o = o2 THEN o1 ELSE o]

TotalFive == [o \in Order |-> 5]
NoDeposit == [o \in Order |-> 0]

AllFaults == FaultKind
=============================================================================
