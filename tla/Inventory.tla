----------------------------- MODULE Inventory ------------------------------
(***************************************************************************)
(* The two counters of an offering row: quantity_available, the units not  *)
(* yet handed to a buyer, and quantity_reserved, the units promised to open *)
(* orders.  The module gives the three updates every order handler makes on *)
(* them.  `items` is what one order holds: a quantity for each offering,    *)
(* zero for the offerings the order has no item of.                         *)
(***************************************************************************)
EXTENDS Naturals

CONSTANTS
  Offering,   \* offering rows of the store
  Stock       \* quantity_available each offering is created with

ASSUME StockAssumption == Stock \in [Offering -> Nat]

VARIABLES
  available,  \* offerings.quantity_available
  reserved    \* offerings.quantity_reserved

inventoryVars == <<available, reserved>>

Items == [Offering -> Nat]

InventoryTypeOK ==
  /\ available \in [Offering -> Nat]
  /\ reserved \in [Offering -> Nat]

InventoryInit ==
  /\ available = Stock
  /\ reserved = [f \in Offering |-> 0]

(* SQL greatest(0, a - b).                                                  *)
Monus(a, b) == IF b <= a THEN a - b ELSE 0

(* Mutant of Remains: forgets the units already promised to open orders.    *)
RemainsIgnoringReserved(items) ==
  \A f \in Offering : items[f] > 0 => items[f] <= available[f]

(* The check made under the row lock of each offering: available minus      *)
(* reserved covers the quantity asked for.                                  *)
Remains(items) ==
  \A f \in Offering : items[f] > 0 => reserved[f] + items[f] <= available[f]

Reserve(items) ==
  /\ reserved' = [f \in Offering |-> reserved[f] + items[f]]
  /\ UNCHANGED available

(* Mutant of Release: subtracts without greatest(0, ...).                   *)
ReleaseUnclamped(items) ==
  /\ reserved' = [f \in Offering |-> reserved[f] - items[f]]
  /\ UNCHANGED available

Release(items) ==
  /\ reserved' = [f \in Offering |-> Monus(reserved[f], items[f])]
  /\ UNCHANGED available

(* Mutant of Finalize: consumes the units but keeps them promised.          *)
FinalizeKeepingReserved(items) ==
  /\ available' = [f \in Offering |-> Monus(available[f], items[f])]
  /\ UNCHANGED reserved

Finalize(items) ==
  /\ available' = [f \in Offering |-> Monus(available[f], items[f])]
  /\ reserved' = [f \in Offering |-> Monus(reserved[f], items[f])]
-----------------------------------------------------------------------------
(* What every handler may rely on when it reads the counters: the units     *)
(* promised never exceed the units left, which never exceed what the seller *)
(* offered.  greatest(0, ...) hides an underflow instead of failing on it,  *)
(* so the bound has to survive releases that happen twice.                  *)
ReservedWithinStock ==
  \A f \in Offering : reserved[f] <= available[f] /\ available[f] <= Stock[f]
=============================================================================
