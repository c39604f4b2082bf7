-------------------------- MODULE Inventory_proofs --------------------------
(***************************************************************************)
(* The three updates of the counters keep their types and keep the units   *)
(* promised within the units left.                                          *)
(***************************************************************************)
EXTENDS Inventory, TLAPS

(* greatest(0, a - b) is a natural number, at most a.                       *)
LEMMA MonusBounds ==
  ASSUME NEW a \in Nat, NEW b \in Nat
  PROVE  Monus(a, b) \in Nat /\ Monus(a, b) <= a
BY DEF Monus

(* Taking the same quantity from two counters keeps their order.            *)
LEMMA MonusMonotone ==
  ASSUME NEW a \in Nat, NEW c \in Nat, NEW b \in Nat, a <= c
  PROVE  Monus(a, b) <= Monus(c, b)
BY DEF Monus

(* Placing an order adds its items to the reservations.                     *)
LEMMA ReserveType ==
  ASSUME NEW items \in Items, InventoryTypeOK, Reserve(items)
  PROVE  InventoryTypeOK'
BY DEF Items, InventoryTypeOK, Reserve

(* Canceling gives the items of an order back.                              *)
LEMMA ReleaseType ==
  ASSUME NEW items \in Items, InventoryTypeOK, Release(items)
  PROVE  InventoryTypeOK'
BY MonusBounds DEF Items, InventoryTypeOK, Release

(* Collecting an order consumes its items.                                  *)
LEMMA FinalizeType ==
  ASSUME NEW items \in Items, InventoryTypeOK, Finalize(items)
  PROVE  InventoryTypeOK'
BY MonusBounds DEF Items, InventoryTypeOK, Finalize

(* The check under the offering's row lock is what keeps a reservation      *)
(* within the stock.                                                        *)
LEMMA ReserveWithin ==
  ASSUME NEW items \in Items, InventoryTypeOK, ReservedWithinStock,
         Remains(items), Reserve(items)
  PROVE  ReservedWithinStock'
<1> SUFFICES ASSUME NEW f \in Offering
             PROVE  reserved'[f] <= available'[f] /\ available'[f] <= Stock[f]
  BY DEF ReservedWithinStock
<1>1. /\ reserved'[f] = reserved[f] + items[f]
      /\ available' = available
  BY DEF Reserve
<1>2. /\ items[f] \in Nat /\ reserved[f] \in Nat /\ available[f] \in Nat
      /\ reserved[f] <= available[f] /\ available[f] <= Stock[f]
  BY DEF Items, InventoryTypeOK, ReservedWithinStock
<1>3. CASE items[f] = 0
  BY <1>1, <1>2, <1>3
<1>4. CASE items[f] > 0
  BY <1>1, <1>2, <1>4 DEF Remains
<1> QED
  BY <1>2, <1>3, <1>4

(* A release never breaks the bound, even one that comes a second time.     *)
LEMMA ReleaseWithin ==
  ASSUME NEW items \in Items, InventoryTypeOK, ReservedWithinStock,
         Release(items)
  PROVE  ReservedWithinStock'
<1> SUFFICES ASSUME NEW f \in Offering
             PROVE  reserved'[f] <= available'[f] /\ available'[f] <= Stock[f]
  BY DEF ReservedWithinStock
<1>1. /\ reserved'[f] = Monus(reserved[f], items[f])
      /\ available' = available
  BY DEF Release
<1>2. /\ items[f] \in Nat /\ reserved[f] \in Nat /\ available[f] \in Nat
      /\ reserved[f] <= available[f] /\ available[f] <= Stock[f]
  BY DEF Items, InventoryTypeOK, ReservedWithinStock
<1>3. Monus(reserved[f], items[f]) \in Nat
      /\ Monus(reserved[f], items[f]) <= reserved[f]
  BY <1>2, MonusBounds
<1> QED
  BY <1>1, <1>2, <1>3

(* Consuming takes the same quantity from both counters.                    *)
LEMMA FinalizeWithin ==
  ASSUME NEW items \in Items, InventoryTypeOK, ReservedWithinStock,
         Finalize(items)
  PROVE  ReservedWithinStock'
<1> SUFFICES ASSUME NEW f \in Offering
             PROVE  reserved'[f] <= available'[f] /\ available'[f] <= Stock[f]
  BY DEF ReservedWithinStock
<1>1. /\ reserved'[f] = Monus(reserved[f], items[f])
      /\ available'[f] = Monus(available[f], items[f])
  BY DEF Finalize
<1>2. /\ items[f] \in Nat /\ reserved[f] \in Nat /\ available[f] \in Nat
      /\ Stock[f] \in Nat
      /\ reserved[f] <= available[f] /\ available[f] <= Stock[f]
  BY StockAssumption DEF Items, InventoryTypeOK, ReservedWithinStock
<1>3. /\ Monus(reserved[f], items[f]) <= Monus(available[f], items[f])
      /\ Monus(available[f], items[f]) \in Nat
      /\ Monus(available[f], items[f]) <= available[f]
  BY <1>2, MonusMonotone, MonusBounds
<1> QED
  BY <1>1, <1>2, <1>3
=============================================================================
