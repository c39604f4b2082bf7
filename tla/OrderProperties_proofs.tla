------------------------ MODULE OrderProperties_proofs ------------------------
(***************************************************************************)
(* The counters against the orders, the order book, and the money: what    *)
(* OrderProperties states of every step of every interleaving, for any set *)
(* of orders, offerings, quantities, billing passes and faults.             *)
(***************************************************************************)
EXTENDS Orders_proofs, FiniteSetTheorems

-----------------------------------------------------------------------------
(* Units: how many units of an offering a set of orders holds.              *)

(* Two finite sets without a common element.                                *)
LEMMA DisjointUnion ==
  ASSUME NEW A, NEW B, IsFiniteSet(A), IsFiniteSet(B), A \cap B = {}
  PROVE  /\ IsFiniteSet(A \cup B)
         /\ Cardinality(A \cup B) = Cardinality(A) + Cardinality(B)
<1>1. Cardinality(A) \in Nat /\ Cardinality(B) \in Nat
  BY FS_CardinalityType
<1>2. Cardinality(A \cap B) = 0
  BY FS_EmptySet, Zenon
<1>3. /\ IsFiniteSet(A \cup B)
      /\ Cardinality(A \cup B) =
           Cardinality(A) + Cardinality(B) - Cardinality(A \cap B)
  BY FS_Union
<1> QED
  BY <1>1, <1>2, <1>3

(* One order holds as many units as its items say.                          *)
LEMMA UnitsOfOne ==
  ASSUME NEW o \in Order, NEW f \in Offering
  PROVE  /\ IsFiniteSet({o} \X (1 .. Qty[o][f]))
         /\ Cardinality({o} \X (1 .. Qty[o][f])) = Qty[o][f]
<1>1. Qty[o][f] \in Nat
  BY QtyType DEF Items
<1>2. IsFiniteSet({o}) /\ Cardinality({o}) = 1
  BY FS_Singleton
<1>3. ASSUME NEW q \in Nat
      PROVE  IsFiniteSet(1 .. q) /\ Cardinality(1 .. q) = q
  <2>0. 1 \in Int /\ q \in Int
    OBVIOUS
  <2>1. /\ IsFiniteSet(1 .. q)
        /\ Cardinality(1 .. q) = IF 1 > q THEN 0 ELSE q - 1 + 1
    BY <2>0, FS_Interval, Zenon
  <2>2. (IF 1 > q THEN 0 ELSE q - 1 + 1) = q
    OBVIOUS
  <2> QED
    BY <2>1, <2>2
<1>4. /\ IsFiniteSet(1 .. Qty[o][f])
      /\ Cardinality(1 .. Qty[o][f]) = Qty[o][f]
  BY <1>1, <1>3
<1>5. /\ IsFiniteSet({o} \X (1 .. Qty[o][f]))
      /\ Cardinality({o} \X (1 .. Qty[o][f])) = 1 * Qty[o][f]
  BY <1>2, <1>4, FS_Product, Zenon
<1>6. 1 * Qty[o][f] = Qty[o][f]
  BY <1>1
<1> QED
  BY <1>5, <1>6, Zenon

(* An order that joins a set of orders adds its own units.                  *)
LEMMA UnitsJoin ==
  ASSUME NEW S \in SUBSET Order, NEW o \in Order \ S, NEW f \in Offering,
         IsFiniteSet(Units(S, f))
  PROVE  /\ IsFiniteSet(Units(S \cup {o}, f))
         /\ Cardinality(Units(S \cup {o}, f)) =
              Cardinality(Units(S, f)) + Qty[o][f]
<1> DEFINE own == {o} \X (1 .. Qty[o][f])
<1>1. Units(S \cup {o}, f) = Units(S, f) \cup own
  BY DEF Units, Promise!Units
<1>2. Units(S, f) \cap own = {}
  BY DEF Units, Promise!Units
<1>3. IsFiniteSet(own) /\ Cardinality(own) = Qty[o][f]
  BY UnitsOfOne
<1> HIDE DEF own
<1> QED
  BY <1>1, <1>2, <1>3, DisjointUnion, Zenon

(* A smaller set of orders holds a part of the units.                       *)
LEMMA UnitsSubset ==
  ASSUME NEW S, NEW T, T \subseteq S, NEW f \in Offering,
         IsFiniteSet(Units(S, f))
  PROVE  /\ IsFiniteSet(Units(T, f))
         /\ Cardinality(Units(T, f)) <= Cardinality(Units(S, f))
<1>1. Units(T, f) \subseteq Units(S, f)
  BY DEF Units, Promise!Units
<1> QED
  BY <1>1, FS_Subset

(* An order that leaves a set of orders takes its own units with it.        *)
LEMMA UnitsLeave ==
  ASSUME NEW S \in SUBSET Order, NEW o \in S, NEW f \in Offering,
         IsFiniteSet(Units(S, f))
  PROVE  /\ IsFiniteSet(Units(S \ {o}, f))
         /\ Cardinality(Units(S, f)) =
              Cardinality(Units(S \ {o}, f)) + Qty[o][f]
<1>1. IsFiniteSet(Units(S \ {o}, f))
  BY UnitsSubset
<1>2. (S \ {o}) \cup {o} = S
  OBVIOUS
<1>3. S \ {o} \in SUBSET Order /\ o \in Order \ (S \ {o})
  OBVIOUS
<1> QED
  BY <1>1, <1>2, <1>3, UnitsJoin

(* Two disjoint sets of orders hold no unit twice.                          *)
LEMMA UnitsDisjoint ==
  ASSUME NEW S, NEW T, S \cap T = {}, NEW f \in Offering,
         IsFiniteSet(Units(S, f)), IsFiniteSet(Units(T, f))
  PROVE  /\ IsFiniteSet(Units(S \cup T, f))
         /\ Cardinality(Units(S \cup T, f)) =
              Cardinality(Units(S, f)) + Cardinality(Units(T, f))
<1>1. Units(S \cup T, f) = Units(S, f) \cup Units(T, f)
  BY DEF Units, Promise!Units
<1>2. Units(S, f) \cap Units(T, f) = {}
  BY DEF Units, Promise!Units
<1> QED
  BY <1>1, <1>2, DisjointUnion, Zenon
-----------------------------------------------------------------------------
(* What a step does to the rows and to the counters at the same time.       *)

Kept(o) ==
  /\ orders'[o].status = orders[o].status
  /\ orders'[o].pickedUp = orders[o].pickedUp

Turned(o, from, to) ==
  /\ orders[o].status \in from
  /\ orders'[o].status = to
  /\ orders'[o].pickedUp = orders[o].pickedUp

Placing(o) ==
  /\ orders[o].status = "none"
  /\ orders'[o].status = "placed"
  /\ ~orders'[o].pickedUp
  /\ Remains(Qty[o]) /\ Reserve(Qty[o])

Readying(o) == Turned(o, {"placed"}, "ready") /\ UNCHANGED inventoryVars

(* The subscription that o opened ends.                                     *)
Ending(o) == o \in SubOrder /\ subscription'[o] = "canceled"

Closing(o) ==
  /\ \/ Turned(o, {"ready"}, "no_show")
     \/ Turned(o, {"placed"}, "canceled")
     \/ Turned(o, {"ready"}, "canceled") /\ Ending(o)
  /\ Release(Qty[o])

Collecting(o) ==
  /\ orders[o].status \in Open
  /\ orders'[o].status = "picked_up"
  /\ orders'[o].pickedUp
  /\ Finalize(Qty[o])

LateClosing(o) ==
  /\ Turned(o, Terminal, "canceled")
  /\ Release(Qty[o])
  /\ o \in stale'

BookChange(o) ==
  Placing(o) \/ Readying(o) \/ Closing(o) \/ Collecting(o) \/ LateClosing(o)

BookStep ==
  /\ stale \subseteq stale'
  /\ \/ UNCHANGED inventoryVars /\ \A x \in Order : Kept(x)
     \/ \E o \in Order : BookChange(o) /\ \A x \in Order \ {o} : Kept(x)

(* A step that leaves the rows and the counters alone.                      *)
LEMMA BookUnchanged ==
  ASSUME UNCHANGED <<orders, inventoryVars, stale>>
  PROVE  BookStep
BY DEF BookStep, Kept

(* A step that writes one row.                                              *)
LEMMA BookOneRow ==
  ASSUME NEW o \in Order, BookChange(o), stale \subseteq stale',
         \A x \in Order \ {o} : orders'[x] = orders[x]
  PROVE  BookStep
BY DEF BookStep, Kept

(* A step that writes one row but not its status.                           *)
LEMMA BookOneRowKept ==
  ASSUME NEW o \in Order, Kept(o), UNCHANGED <<inventoryVars, stale>>,
         \A x \in Order \ {o} : orders'[x] = orders[x]
  PROVE  BookStep
BY DEF BookStep, Kept

LEMMA SellerBook ==
  ASSUME StatusInv, NEW o \in Order, CreateOrder(o) \/ SellerStep(o)
  PROVE  BookStep
<1> USE DEF StatusInv, TypeOK, requestVars
<1>1. CASE CreateOrder(o)
  <2>1. Placing(o) /\ \A x \in Order \ {o} : orders'[x] = orders[x]
    BY <1>1 DEF CreateOrder, Insert, Placing
  <2> QED
    BY <1>1, <2>1, BookOneRow DEF CreateOrder, BookChange
<1>2. CASE MarkReady(o)
  <2>1. Readying(o) /\ \A x \in Order \ {o} : orders'[x] = orders[x]
    BY <1>2 DEF MarkReady, Readying, Turned, Row
  <2> QED
    BY <1>2, <2>1, BookOneRow DEF MarkReady, BookChange
<1>3. CASE CancelOrder(o)
  <2>1. Closing(o) /\ \A x \in Order \ {o} : orders'[x] = orders[x]
    BY <1>3 DEF CancelOrder, Closing, Turned, Open, Row
  <2> QED
    BY <1>3, <2>1, BookOneRow DEF CancelOrder, BookChange
<1>4. ASSUME NEW waive \in BOOLEAN, NoShow(o, waive)
      PROVE  BookStep
  <2>1. Turned(o, {"ready"}, "no_show")
    BY <1>4 DEF NoShow, Turned, Row
  <2>2. \A x \in Order \ {o} : orders'[x] = orders[x]
    BY <1>4 DEF NoShow
  <2>3. Closing(o)
    BY <1>4, <2>1 DEF NoShow, Closing
  <2> QED
    BY <1>4, <2>2, <2>3, BookOneRow DEF NoShow, BookChange
<1>5. CASE ConfirmPickup(o)
  <2>1. Collecting(o) /\ \A x \in Order \ {o} : orders'[x] = orders[x]
    BY <1>5 DEF ConfirmPickup, HandOver, Eligible, IsOpen, Collecting
  <2> QED
    BY <1>5, <2>1, BookOneRow DEF ConfirmPickup, BookChange
<1>6. CASE PickupFails(o) \/ RefundOrder(o)
  BY <1>6, BookUnchanged DEF PickupFails, RefundOrder
<1> QED
  BY <1>1, <1>2, <1>3, <1>4, <1>5, <1>6 DEF SellerStep

LEMMA WebhookBook ==
  ASSUME StatusInv, NEW o \in Order, NEW e \in Event, Webhook(o, e)
  PROVE  BookStep
<1> USE DEF StatusInv, TypeOK, requestVars
<1> DEFINE cancel == e \in CancelsOrder /\ orders[o].status = "placed"
           s == IF cancel THEN "canceled" ELSE orders[o].status
<1>1. orders' = [orders EXCEPT ![o].payment = EventPayment[e],
                               ![o].captured = SyncedCaptured(o, e),
                               ![o].status = s]
  BY DEF Webhook, Row
<1>2. /\ orders'[o].status = s
      /\ orders'[o].pickedUp = orders[o].pickedUp
      /\ \A x \in Order \ {o} : orders'[x] = orders[x]
  <2> HIDE DEF s
  <2> QED
    BY <1>1 DEF Row
<1>3. CASE cancel
  <2>1. Closing(o)
    BY <1>2, <1>3 DEF Webhook, Closing, Turned, Open
  <2> QED
    BY <1>2, <2>1, BookOneRow DEF Webhook, BookChange
<1>4. CASE ~cancel
  BY <1>2, <1>4, BookOneRowKept DEF Webhook, Kept
<1> QED
  BY <1>3, <1>4

LEMMA SubscriptionBook ==
  ASSUME StatusInv, NEW o \in SubOrder,
         SubscriberStep(o) \/ (o \in Closable /\ SellerCancelStep(o))
  PROVE  BookStep
<1> USE DEF StatusInv, TypeOK, requestVars
<1>o. o \in Order
  BY OrdersAssumption
<1>1. CASE SubscribeAdmit(o) \/ SubscribeRefuse(o) \/ SubscribeRollback(o)
  BY <1>1, BookUnchanged
     DEF SubscribeAdmit, SubscribeRefuse, SubscribeRollback
<1>2. CASE SubscribeCommit(o)
  <2>1. orders[o].status = "none"
    BY <1>2 DEF RequestsCurrent, SubscribeCommit
  <2>2. Placing(o) /\ \A x \in Order \ {o} : orders'[x] = orders[x]
    BY <1>2, <1>o, <2>1 DEF SubscribeCommit, Insert, Placing
  <2> QED
    BY <1>2, <1>o, <2>2, BookOneRow DEF SubscribeCommit, BookChange
<1>3. CASE \E new \in {"active", "paused"} : BuyerSetStatus(o, new)
  BY <1>3, BookUnchanged DEF BuyerSetStatus
<1>4. CASE BuyerCancel(o)
  <2>1. CASE IsOpen(o) /\ ~cutoffPassed
    <3>1. Turned(o, {"placed"}, "canceled") \/ Turned(o, {"ready"}, "canceled")
      BY <1>4, <2>1, <1>o DEF BuyerCancel, IsOpen, Open, Turned, Row
    <3>2. Ending(o)
      BY <1>4 DEF BuyerCancel, Ending
    <3>3. Closing(o) /\ \A x \in Order \ {o} : orders'[x] = orders[x]
      BY <1>4, <2>1, <3>1, <3>2 DEF BuyerCancel, Closing
    <3> QED
      BY <1>4, <1>o, <3>3, BookOneRow DEF BuyerCancel, BookChange
  <2> QED
    BY <1>4, <2>1, BookUnchanged DEF BuyerCancel
<1>5. CASE o \in Closable /\ SellerCancelStep(o)
  <2>1. CASE SellerCancelEmpty(o) \/ SellerCancelRead(o) \/ SellerCancelAbort(o)
    BY <2>1, BookUnchanged
       DEF SellerCancelEmpty, SellerCancelRead, SellerCancelAbort
  <2>2. CASE SellerCancelApply(o)
    <3>1. orders[o].status \in Open \cup Terminal
      BY <2>2, <1>o, RowsTyped
         DEF SellerCancelApply, RequestsCurrent, OrderStatus
    <3>2. /\ orders'[o].status = "canceled"
          /\ orders'[o].pickedUp = orders[o].pickedUp
          /\ \A x \in Order \ {o} : orders'[x] = orders[x]
      BY <2>2, <1>o DEF SellerCancelApply, Row
    <3>3. Ending(o)
      BY <2>2 DEF SellerCancelApply, Ending
    <3>4. Closing(o) \/ LateClosing(o)
      BY <2>2, <3>1, <3>2, <3>3
         DEF SellerCancelApply, IsOpen, Open, Closing, LateClosing, Turned
    <3> QED
      BY <2>2, <1>o, <3>2, <3>4, BookOneRow DEF SellerCancelApply, BookChange
  <2> QED
    BY <1>5, <2>1, <2>2 DEF SellerCancelStep
<1> QED
  BY <1>1, <1>2, <1>3, <1>4, <1>5 DEF SubscriberStep

LEMMA BillingBook ==
  ASSUME StatusInv, NEW x \in charged, BillingStore(x) \/ BillingFail(x)
  PROVE  BookStep
<1> USE DEF StatusInv, TypeOK, requestVars
<1>o. x.order \in Order
  BY DEF Charge
<1>1. CASE BillingStore(x)
  <2>1. Kept(x.order) /\ \A y \in Order \ {x.order} : orders'[y] = orders[y]
    BY <1>1, <1>o DEF BillingStore, Kept, Row
  <2> QED
    BY <1>1, <1>o, <2>1, BookOneRowKept DEF BillingStore
<1>2. CASE BillingFail(x) /\ StillPlaced(x.order)
  <2>1. Turned(x.order, {"placed"}, "canceled")
    BY <1>2, <1>o DEF BillingFail, StillPlaced, Turned, Row
  <2>2. /\ Closing(x.order)
        /\ \A y \in Order \ {x.order} : orders'[y] = orders[y]
    BY <1>2, <2>1 DEF BillingFail, Closing
  <2> QED
    BY <1>2, <1>o, <2>2, BookOneRow DEF BillingFail, BookChange
<1>3. CASE BillingFail(x) /\ ~StillPlaced(x.order)
  BY <1>3, BookUnchanged DEF BillingFail
<1> QED
  BY <1>1, <1>2, <1>3

(* StepBook: every step is one change of the book, or none.                 *)
LEMMA StepBook ==
  ASSUME StatusInv, [Next]_vars
  PROVE  BookStep
<1> USE DEF requestVars
<1>1. CASE \E o \in Order : CreateOrder(o) \/ SellerStep(o)
  BY <1>1, SellerBook
<1>2. CASE \E o \in SubOrder : SubscriberStep(o)
  BY <1>2, SubscriptionBook
<1>3. CASE \E o \in Closable : SellerCancelStep(o)
  BY <1>3, SubscriptionBook, OrdersAssumption
<1>4. CASE \E o \in Order, e \in Event : Webhook(o, e)
  BY <1>4, WebhookBook
<1>5. CASE \E c \in Pass : BillingStep(c)
  BY <1>5, BookUnchanged
     DEF BillingStep, BillingScan, BillingCharge, BillingCrash
<1>6. CASE \E x \in charged : BillingStore(x) \/ BillingFail(x)
  BY <1>6, BillingBook
<1>7. CASE \E t \in deferred : RunDeferred(t) \/ LoseDeferred(t)
  BY <1>7, BookUnchanged DEF RunDeferred, LoseDeferred
<1>8. CASE PassCutoff \/ \E p \in Intent : Expire(p)
  BY <1>8, BookUnchanged DEF PassCutoff, Expire
<1>9. CASE UNCHANGED vars
  BY <1>9, BookUnchanged DEF vars
<1> QED
  BY <1>1, <1>2, <1>3, <1>4, <1>5, <1>6, <1>7, <1>8, <1>9 DEF Next
-----------------------------------------------------------------------------
(* The counters.  CountersExact is inductive together with three facts: the *)
(* book is finite (each step places at most one order, so Order itself need *)
(* not be), picked_up_at says which orders were collected, and the bound    *)
(* that lets Finalize subtract without greatest(0, ...) cutting anything    *)
(* off.                                                                     *)

HandedOver ==
  \A o \in Order :
    /\ orders[o].pickedUp => orders[o].status \in {"picked_up", "canceled"}
    /\ orders[o].status = "picked_up" => orders[o].pickedUp

(* The units of offering f.                                                 *)
Untouched(f) == \A o \in stale : Qty[o][f] = 0
ExactFor(f) ==
  /\ reserved[f] = Cardinality(Units(OpenOrders, f))
  /\ available[f] + Cardinality(Units(PickedUp, f)) = Stock[f]

FiniteBook ==
  \A f \in Offering :
    IsFiniteSet(Units(OpenOrders, f)) /\ IsFiniteSet(Units(PickedUp, f))

CountersInv ==
  /\ HandedOver
  /\ FiniteBook
  /\ CountersExact

LEMMA HandedOverStep ==
  ASSUME StatusInv, HandedOver, BookStep
  PROVE  HandedOver'
BY DEF HandedOver, BookStep, Kept, BookChange, Placing, Readying, Closing,
       Collecting, LateClosing, Turned, Open, Terminal

(* What a change of the book does to the two sets of orders.                *)
LEMMA BookSets ==
  ASSUME StatusInv, HandedOver, NEW o \in Order, BookChange(o),
         \A x \in Order \ {o} : Kept(x)
  PROVE  \/ /\ Placing(o)
            /\ o \notin OpenOrders /\ OpenOrders' = OpenOrders \cup {o}
            /\ PickedUp' = PickedUp
         \/ Readying(o) /\ OpenOrders' = OpenOrders /\ PickedUp' = PickedUp
         \/ /\ Closing(o)
            /\ o \in OpenOrders /\ OpenOrders' = OpenOrders \ {o}
            /\ PickedUp' = PickedUp
         \/ /\ Collecting(o)
            /\ o \in OpenOrders /\ OpenOrders' = OpenOrders \ {o}
            /\ o \notin PickedUp /\ PickedUp' = PickedUp \cup {o}
         \/ LateClosing(o) /\ OpenOrders' = OpenOrders /\ PickedUp' = PickedUp
<1> USE DEF OpenOrders, PickedUp, IsOpen, Kept, Turned, HandedOver, Open
<1>1. CASE Placing(o)
  BY <1>1 DEF Placing
<1>2. CASE Readying(o)
  BY <1>2 DEF Readying
<1>3. CASE Closing(o)
  BY <1>3 DEF Closing
<1>4. CASE Collecting(o)
  BY <1>4 DEF Collecting
<1>5. CASE LateClosing(o)
  BY <1>5 DEF LateClosing, Terminal
<1> QED
  BY <1>1, <1>2, <1>3, <1>4, <1>5 DEF BookChange

(* Finiteness and counts of one offering after a change of the book.        *)
LEMMA FiniteStep ==
  ASSUME StatusInv, HandedOver, FiniteBook, BookStep
  PROVE  FiniteBook'
<1> SUFFICES ASSUME NEW f \in Offering
             PROVE  /\ IsFiniteSet(Units(OpenOrders, f))'
                    /\ IsFiniteSet(Units(PickedUp, f))'
  BY DEF FiniteBook
<1>f. IsFiniteSet(Units(OpenOrders, f)) /\ IsFiniteSet(Units(PickedUp, f))
  BY DEF FiniteBook
<1>s. OpenOrders \in SUBSET Order /\ PickedUp \in SUBSET Order
  BY DEF OpenOrders, PickedUp
<1>1. CASE \A x \in Order : Kept(x)
  <2>1. OpenOrders' = OpenOrders /\ PickedUp' = PickedUp
    BY <1>1 DEF OpenOrders, PickedUp, IsOpen, Kept
  <2> QED
    BY <1>f, <2>1, Zenon DEF Units, Promise!Units
<1>2. ASSUME NEW o \in Order, BookChange(o), \A x \in Order \ {o} : Kept(x)
      PROVE  /\ IsFiniteSet(Units(OpenOrders, f))'
             /\ IsFiniteSet(Units(PickedUp, f))'
  <2>1. /\ \/ OpenOrders' = OpenOrders
           \/ OpenOrders' = OpenOrders \ {o}
           \/ o \notin OpenOrders /\ OpenOrders' = OpenOrders \cup {o}
        /\ \/ PickedUp' = PickedUp
           \/ o \notin PickedUp /\ PickedUp' = PickedUp \cup {o}
    BY <1>2, BookSets
  <2>2. /\ IsFiniteSet(Units(OpenOrders \ {o}, f))
        /\ o \notin OpenOrders => IsFiniteSet(Units(OpenOrders \cup {o}, f))
        /\ o \notin PickedUp => IsFiniteSet(Units(PickedUp \cup {o}, f))
    BY <1>f, <1>s, UnitsSubset, UnitsJoin
  <2>3. /\ Units(OpenOrders, f)' = Units(OpenOrders', f)
        /\ Units(PickedUp, f)' = Units(PickedUp', f)
    BY DEF Units, Promise!Units
  <2> QED
    BY <1>f, <2>1, <2>2, <2>3, Zenon
<1> QED
  BY <1>1, <1>2 DEF BookStep

LEMMA ExactStep ==
  ASSUME StatusInv, ReservedWithinStock, CountersInv, BookStep, NEW f \in Offering, Untouched(f)'
  PROVE  ExactFor(f)'
<1> USE DEF CountersInv
<1>u. ExactFor(f)
  BY DEF BookStep, Untouched, CountersExact, ExactFor
<1>f. IsFiniteSet(Units(OpenOrders, f)) /\ IsFiniteSet(Units(PickedUp, f))
  BY DEF FiniteBook
<1>c. /\ Cardinality(Units(OpenOrders, f)) \in Nat
      /\ Cardinality(Units(PickedUp, f)) \in Nat
  BY <1>f, FS_CardinalityType
<1>s. OpenOrders \in SUBSET Order /\ PickedUp \in SUBSET Order
  BY DEF OpenOrders, PickedUp
<1>t. /\ reserved[f] \in Nat /\ available[f] \in Nat /\ Stock[f] \in Nat
      /\ reserved[f] <= available[f]
  BY StockAssumption DEF StatusInv, TypeOK, InventoryTypeOK,
                         ReservedWithinStock
<1>p. /\ Units(OpenOrders, f)' = Units(OpenOrders', f)
      /\ Units(PickedUp, f)' = Units(PickedUp', f)
  BY DEF Units, Promise!Units
<1>e. SUFFICES /\ reserved'[f] = Cardinality(Units(OpenOrders', f))
               /\ available'[f] + Cardinality(Units(PickedUp', f)) = Stock[f]
  BY <1>p, Zenon DEF ExactFor
<1>1. CASE UNCHANGED inventoryVars /\ \A x \in Order : Kept(x)
  <2>1. OpenOrders' = OpenOrders /\ PickedUp' = PickedUp
    BY <1>1 DEF OpenOrders, PickedUp, IsOpen, Kept
  <2>2. reserved' = reserved /\ available' = available
    BY <1>1 DEF inventoryVars
  <2> QED
    BY <1>u, <2>1, <2>2, Zenon DEF ExactFor
<1>2. ASSUME NEW o \in Order, BookChange(o), \A x \in Order \ {o} : Kept(x)
      PROVE  /\ reserved'[f] = Cardinality(Units(OpenOrders', f))
             /\ available'[f] + Cardinality(Units(PickedUp', f)) = Stock[f]
  <2>q. Qty[o][f] \in Nat
    BY QtyType DEF Items
  <2>1. CASE /\ Placing(o)
             /\ o \notin OpenOrders /\ OpenOrders' = OpenOrders \cup {o}
             /\ PickedUp' = PickedUp
    <3>1. reserved'[f] = reserved[f] + Qty[o][f] /\ available' = available
      BY <2>1 DEF Placing, Reserve
    <3>2. Cardinality(Units(OpenOrders \cup {o}, f)) =
            Cardinality(Units(OpenOrders, f)) + Qty[o][f]
      BY <1>f, <1>s, <2>1, UnitsJoin
    <3> QED
      BY <1>u, <2>1, <3>1, <3>2, Zenon DEF ExactFor
  <2>2. CASE Readying(o) /\ OpenOrders' = OpenOrders /\ PickedUp' = PickedUp
    <3>1. reserved' = reserved /\ available' = available
      BY <2>2 DEF Readying, inventoryVars
    <3> QED
      BY <1>u, <2>2, <3>1, Zenon DEF ExactFor
  <2>3. CASE /\ Closing(o)
             /\ o \in OpenOrders /\ OpenOrders' = OpenOrders \ {o}
             /\ PickedUp' = PickedUp
    <3>1. Cardinality(Units(OpenOrders, f)) =
            Cardinality(Units(OpenOrders \ {o}, f)) + Qty[o][f]
          /\ IsFiniteSet(Units(OpenOrders \ {o}, f))
      BY <1>f, <1>s, <2>3, UnitsLeave
    <3>2. Cardinality(Units(OpenOrders \ {o}, f)) \in Nat
      BY <3>1, FS_CardinalityType
    <3>3. /\ reserved'[f] = Monus(reserved[f], Qty[o][f])
          /\ available' = available
      BY <2>3 DEF Closing, Release
    <3>4. reserved'[f] = Cardinality(Units(OpenOrders \ {o}, f))
      BY <1>u, <1>t, <2>q, <3>1, <3>2, <3>3 DEF ExactFor, Monus
    <3> QED
      BY <1>u, <2>3, <3>3, <3>4, Zenon DEF ExactFor
  <2>4. CASE /\ Collecting(o)
             /\ o \in OpenOrders /\ OpenOrders' = OpenOrders \ {o}
             /\ o \notin PickedUp /\ PickedUp' = PickedUp \cup {o}
    <3>1. Cardinality(Units(OpenOrders, f)) =
            Cardinality(Units(OpenOrders \ {o}, f)) + Qty[o][f]
          /\ IsFiniteSet(Units(OpenOrders \ {o}, f))
      BY <1>f, <1>s, <2>4, UnitsLeave
    <3>2. Cardinality(Units(OpenOrders \ {o}, f)) \in Nat
      BY <3>1, FS_CardinalityType
    <3>3. Cardinality(Units(PickedUp \cup {o}, f)) =
            Cardinality(Units(PickedUp, f)) + Qty[o][f]
      BY <1>f, <1>s, <2>4, UnitsJoin
    <3>4. /\ reserved'[f] = Monus(reserved[f], Qty[o][f])
          /\ available'[f] = Monus(available[f], Qty[o][f])
      BY <2>4 DEF Collecting, Finalize
    <3>5. reserved'[f] = Cardinality(Units(OpenOrders \ {o}, f))
      BY <1>u, <1>t, <2>q, <3>1, <3>2, <3>4 DEF ExactFor, Monus
    <3>6. available'[f] + Cardinality(Units(PickedUp \cup {o}, f)) = Stock[f]
      BY <1>u, <1>t, <1>c, <2>q, <3>1, <3>2, <3>3, <3>4 DEF ExactFor, Monus
    <3> QED
      BY <2>4, <3>5, <3>6, Zenon
  <2>5. CASE LateClosing(o) /\ OpenOrders' = OpenOrders /\ PickedUp' = PickedUp
    <3>1. Qty[o][f] = 0
      BY <2>5 DEF LateClosing, Untouched
    <3>2. /\ reserved'[f] = Monus(reserved[f], Qty[o][f])
          /\ available' = available
      BY <2>5 DEF LateClosing, Release
    <3>3. reserved'[f] = reserved[f]
      BY <1>t, <3>1, <3>2 DEF Monus
    <3> QED
      BY <1>u, <2>5, <3>2, <3>3, Zenon DEF ExactFor
  <2> QED
    BY <1>2, <2>1, <2>2, <2>3, <2>4, <2>5, BookSets, Zenon
<1> QED
  BY <1>1, <1>2 DEF BookStep

LEMMA CountersInit == Init => CountersInv
<1> SUFFICES ASSUME Init PROVE CountersInv
  OBVIOUS
<1>1. OpenOrders = {} /\ PickedUp = {} /\ HandedOver
  BY DEF Init, NoRow, OpenOrders, PickedUp, IsOpen, Open, HandedOver
<1>2. ASSUME NEW f \in Offering
      PROVE  /\ IsFiniteSet(Units(OpenOrders, f))
             /\ IsFiniteSet(Units(PickedUp, f))
             /\ ExactFor(f)
  <2>1. Units({}, f) = {}
    BY DEF Units, Promise!Units
  <2>2. IsFiniteSet({}) /\ Cardinality({}) = 0
    BY FS_EmptySet
  <2>3. reserved[f] = 0 /\ available[f] = Stock[f] /\ Stock[f] \in Nat
    BY StockAssumption DEF Init, InventoryInit
  <2>4. \A n \in Nat : n + 0 = n
    OBVIOUS
  <2> QED
    BY <1>1, <2>1, <2>2, <2>3, <2>4, Zenon DEF ExactFor
<1> QED
  BY <1>1, <1>2 DEF CountersInv, FiniteBook, CountersExact, ExactFor

LEMMA CountersStep ==
  StatusInv /\ ReservedWithinStock /\ CountersInv /\ [Next]_vars => CountersInv'
<1> SUFFICES ASSUME StatusInv, ReservedWithinStock, CountersInv, [Next]_vars
             PROVE  CountersInv'
  OBVIOUS
<1>1. BookStep
  BY StepBook
<1>2. HandedOver' /\ FiniteBook'
  BY <1>1, HandedOverStep, FiniteStep DEF CountersInv
<1>3. \A f \in Offering : Untouched(f)' => ExactFor(f)'
  BY <1>1, ExactStep
<1>4. CountersExact'
  BY <1>3 DEF CountersExact, Untouched, ExactFor
<1> QED
  BY <1>2, <1>4 DEF CountersInv

LEMMA CountersInvariant == Spec => [](StatusInv /\ ReservedWithinStock /\ CountersInv)
BY CountersInit, CountersStep, StatusInvariant, StockBound, PTL DEF Spec

(* CountersAreExact: whatever the interleaving of sellers, buyers, webhooks *)
(* and billing passes, both counters of an offering say what the orders     *)
(* hold of it, until a CancelSubscription comes late for one of its orders. *)
THEOREM CountersAreExact == Spec => []CountersExact
BY CountersInvariant, PTL DEF CountersInv

(* Until then an offering's units are not oversold.                         *)
LEMMA WithinOffer ==
  ASSUME StatusInv, ReservedWithinStock, CountersInv,
         NEW f \in Offering, Untouched(f)
  PROVE  /\ Cardinality(Units(OpenOrders \cup PickedUp, f)) =
              reserved[f] + (Stock[f] - available[f])
         /\ Cardinality(Units(OpenOrders \cup PickedUp, f)) <= Stock[f]
<1>1. OpenOrders \cap PickedUp = {}
  BY DEF CountersInv, HandedOver, OpenOrders, PickedUp, IsOpen, Open
<1>2. IsFiniteSet(Units(OpenOrders, f)) /\ IsFiniteSet(Units(PickedUp, f))
  BY DEF CountersInv, FiniteBook
<1>3. Cardinality(Units(OpenOrders \cup PickedUp, f)) =
        Cardinality(Units(OpenOrders, f)) + Cardinality(Units(PickedUp, f))
  BY <1>1, <1>2, UnitsDisjoint
<1>4. Cardinality(Units(PickedUp, f)) \in Nat
  BY <1>2, FS_CardinalityType
<1>5. ExactFor(f)
  BY DEF CountersInv, CountersExact, Untouched, ExactFor
<1>6. /\ reserved[f] \in Nat /\ available[f] \in Nat /\ Stock[f] \in Nat
      /\ reserved[f] <= available[f]
  BY StockAssumption DEF StatusInv, TypeOK, InventoryTypeOK,
                         ReservedWithinStock
<1> QED
  BY <1>3, <1>4, <1>5, <1>6 DEF ExactFor

(* OversoldOnlyLate: a late CancelSubscription is the only way to oversell: *)
(* as long as none has come, the units of open and of collected orders      *)
(* never exceed what the seller offered, whatever else runs at the same     *)
(* time.                                                                    *)
THEOREM OversoldOnlyLate == Spec => [](stale = {} => NoOversell)
<1>1. StatusInv /\ ReservedWithinStock /\ CountersInv => (stale = {} => NoOversell)
  BY WithinOffer DEF NoOversell, Untouched
<1> QED
  BY <1>1, CountersInvariant, PTL
-----------------------------------------------------------------------------
(* The order book.                                                          *)

(* The book counts as Orders does.                                          *)
LEMMA SameCardinality ==
  ASSUME NEW S
  PROVE  Promise!Cardinality(S) = Cardinality(S)
BY DEF Promise!Cardinality, Cardinality

(* The check under the row locks is the check the order book makes on its   *)
(* own sets.                                                                *)
LEMMA PlaceWithinOffer ==
  ASSUME StatusInv, ReservedWithinStock, CountersInv, stale = {},
         NEW o \in Order, Remains(Qty[o]), NEW f \in Offering
  PROVE  Cardinality(Units(Promise!Taking, f)) + Qty[o][f] <= Stock[f]
<1>1. Promise!Taking \subseteq OpenOrders \cup PickedUp
  BY DEF Promise!Taking, CountersInv, HandedOver, OpenOrders, PickedUp, IsOpen,
         Open
<1>2. /\ IsFiniteSet(Units(OpenOrders \cup PickedUp, f))
      /\ Cardinality(Units(OpenOrders \cup PickedUp, f)) =
           reserved[f] + (Stock[f] - available[f])
  <2>1. OpenOrders \cap PickedUp = {}
    BY DEF CountersInv, HandedOver, OpenOrders, PickedUp, IsOpen, Open
  <2>2. IsFiniteSet(Units(OpenOrders \cup PickedUp, f))
    BY <2>1, UnitsDisjoint DEF CountersInv, FiniteBook
  <2> QED
    BY <2>2, WithinOffer DEF Untouched
<1>3. /\ IsFiniteSet(Units(Promise!Taking, f))
      /\ Cardinality(Units(Promise!Taking, f)) <=
           Cardinality(Units(OpenOrders \cup PickedUp, f))
  BY <1>1, <1>2, UnitsSubset
<1>4. Cardinality(Units(Promise!Taking, f)) \in Nat
  BY <1>3, FS_CardinalityType
<1>5. /\ reserved[f] \in Nat /\ available[f] \in Nat /\ Stock[f] \in Nat
      /\ reserved[f] <= available[f] /\ Qty[o][f] \in Nat
      /\ Qty[o][f] > 0 => reserved[f] + Qty[o][f] <= available[f]
  BY StockAssumption, QtyType DEF StatusInv, TypeOK, InventoryTypeOK,
                         ReservedWithinStock, Items, Remains
<1> QED
  BY <1>2, <1>3, <1>4, <1>5

(* Every step of the handlers is a step of the book, the end of a            *)
(* subscription, or none.                                                    *)
LEMMA BookSimulates ==
  ASSUME StatusInv, ReservedWithinStock, CountersInv, stale' = {}, BookStep
  PROVE  [Promise!Next \/ SubscriptionEnds]_[o \in Order |-> orders[o].status]
<1> DEFINE st == [o \in Order |-> orders[o].status]
<1>0. stale = {}
  BY DEF BookStep
<1>1. CASE \A x \in Order : Kept(x)
  <2>1. st' = st
    BY <1>1 DEF Kept
  <2> QED
    BY <2>1
<1>2. ASSUME NEW o \in Order, BookChange(o), \A x \in Order \ {o} : Kept(x)
      PROVE  Promise!Next \/ SubscriptionEnds
  <2>1. st' = [st EXCEPT ![o] = orders'[o].status]
    BY <1>2 DEF Kept
  <2>2. CASE Placing(o)
    <3>1. \A f \in Offering :
            Cardinality(Units(Promise!Taking, f)) + Qty[o][f] <= Stock[f]
      BY <1>0, <2>2, PlaceWithinOffer DEF Placing
    <3>2. Promise!Place(o)
      BY <2>1, <2>2, <3>1, SameCardinality DEF Promise!Place, Placing, Units
    <3> QED
      BY <3>2 DEF Promise!Next
  <2>3. CASE Readying(o)
    <3>1. Promise!Move(o, {"placed"}, "ready")
      BY <2>1, <2>3 DEF Promise!Move, Readying, Turned
    <3> QED
      BY <3>1 DEF Promise!Next
  <2>4. CASE Closing(o)
    <3>1. \/ Promise!Move(o, {"ready"}, "no_show")
          \/ Promise!Move(o, {"placed"}, "canceled")
          \/ Promise!Move(o, {"ready"}, "canceled") /\ Ending(o)
      BY <2>1, <2>4 DEF Promise!Move, Closing, Turned
    <3> QED
      BY <3>1 DEF Promise!Next, SubscriptionEnds, Ending
  <2>5. CASE Collecting(o)
    <3>1. Promise!Move(o, {"placed", "ready"}, "picked_up")
      BY <2>1, <2>5 DEF Promise!Move, Collecting, Open
    <3> QED
      BY <3>1 DEF Promise!Next
  <2> QED
    BY <1>0, <1>2, <2>2, <2>3, <2>4, <2>5 DEF BookChange, LateClosing
<1> QED
  BY <1>1, <1>2 DEF BookStep

(* BookKept: the handlers implement the order book: with their counters,    *)
(* greatest(0, ...), row locks, webhooks and billing passes they place,     *)
(* move and close orders only as the book allows, and never beyond the      *)
(* stock, in every run in which no CancelSubscription comes late; the one   *)
(* thing they do beside it is to cancel an order that is ready because its  *)
(* subscription ends.                                                       *)
THEOREM BookKept == Spec /\ [](stale = {}) => KeepsPromise
<1>1. Init => Promise!Init
  BY DEF Init, NoRow, Promise!Init
<1>2. /\ StatusInv /\ ReservedWithinStock /\ CountersInv
      /\ [Next]_vars /\ (stale = {})'
      => [Promise!Next \/ SubscriptionEnds]_[o \in Order |-> orders[o].status]
  BY StepBook, BookSimulates
<1> QED
  BY <1>1, <1>2, CountersInvariant, PTL DEF Spec, KeepsPromise

(* BookKeptWithoutClosing: in particular where sellers cancel no            *)
(* subscriptions, as in the run that checks it.                             *)
THEOREM BookKeptWithoutClosing ==
  ASSUME Closable = {}
  PROVE  Spec => KeepsPromise
<1>1. TypeOK => stale = {}
  BY DEF TypeOK
<1> QED
  BY <1>1, TypeCorrect, BookKept, PTL
-----------------------------------------------------------------------------
(* The money.  An order owns the intents that may be charged for it: the    *)
(* checkout that holds its amount, or the two authorizations of its saved   *)
(* card.  Only the step that settles the order asks for a capture, and it   *)
(* asks for one.                                                            *)
Own(o) ==
  IF o \in SetupCheckout THEN {BillingAuth(o), JitAuth(o)} ELSE {CheckoutOf(o)}
Live(p) == \E o \in Order : p \in Own(o)

(* Each order carries an intent of its own, and no two the same.            *)
IntentsBound ==
  /\ \A o \in Order :
       /\ orders[o].intent # NoIntent => orders[o].intent \in Own(o)
       /\ orders[o].status = "none" => orders[o].intent = NoIntent
       /\ orders[o].intent = NoIntent =>
            orders[o].status = "none" \/ o \in SetupCheckout
       /\ orders[o].payment = "pending" => o \in SetupCheckout
  /\ \A a, b \in Order :
       orders[a].intent # NoIntent /\ orders[a].intent = orders[b].intent
         => a = b

(* The billing job works on placed orders with a saved card.                *)
Billed(o) == o \in SetupCheckout /\ orders[o].status # "none"
JobsBound ==
  /\ \A c \in Pass : \A o \in scan[c] : Billed(o)
  /\ \A x \in charged : Billed(x.order)

(* Stripe knows only live intents, and has answered for the authorizations  *)
(* that exist.                                                              *)
StripeBound ==
  /\ \A p \in Intent : intent[p] # "none" => Live(p)
  /\ \A t \in deferred : Live(t.intent)
  /\ \A o \in Order : \A p \in {BillingAuth(o), JitAuth(o)} :
       reply[p] = "none" => intent[p] = "none"

(* An intent that was captured, or is about to be.                          *)
Capturing(p) == {t \in deferred : t.op = "capture" /\ t.intent = p}
Touched(p) == Captured(p) \/ Capturing(p) # {}
Settled(o) == orders[o].status \in {"picked_up", "no_show"} \/ o \in stale

(* Money moves only for settled orders, and on one of their intents.        *)
SettledOnce ==
  /\ \A o \in stale : orders[o].status = "canceled"
  /\ \A p \in Intent : Touched(p) => \E o \in Order : p \in Own(o) /\ Settled(o)
  /\ \A o \in SetupCheckout : Touched(BillingAuth(o)) =>
       ~Touched(JitAuth(o)) /\ orders[o].intent = BillingAuth(o)

(* What the row says of the intent it carries, unless that intent is gone.  *)
(* A billing pass may store an intent again and call it authorized after    *)
(* the capture.                                                             *)
Gone(p) == intent[p] \in {"declined", "requires_action", "canceled"}

AgreesOn(o, p) ==
  /\ \/ orders[o].payment \in {"paid", "refunded"}
     \/ o \in SetupCheckout /\ orders[o].payment = "authorized"
  /\ IF Captured(p) THEN received[p] = orders[o].captured
     ELSE \A t \in Capturing(p) : t.amount = orders[o].captured

RowAgrees ==
  \A o \in Order, p \in Intent :
    p = orders[o].intent /\ Touched(p) /\ ~Gone(p) => AgreesOn(o, p)

MoneyInv ==
  IntentsBound /\ JobsBound /\ StripeBound /\ SettledOnce /\ RowAgrees
-----------------------------------------------------------------------------
(* What a step does to the money.                                           *)

IntentMove(p) ==
  \/ UNCHANGED <<intent[p], received[p], reply[p]>>
  \/ /\ intent[p] \in {"requires_capture", "requires_action"}
     /\ intent'[p] = "canceled"
     /\ UNCHANGED reply[p]
  \/ /\ intent[p] = "requires_capture"
     /\ intent'[p] = "succeeded"
     /\ \E t \in Capturing(p) : received'[p] = t.amount
     /\ UNCHANGED reply[p]
  \/ /\ intent[p] = "succeeded"
     /\ intent'[p] = "refunded"
     /\ UNCHANGED <<received[p], reply[p]>>
  \/ /\ intent[p] = "none"
     /\ intent'[p] \in {"declined", "requires_action", "requires_capture"}
     /\ reply'[p] # "none"
     /\ \E o \in SetupCheckout : p \in {BillingAuth(o), JitAuth(o)}

StripeMoves == \A p \in Intent : IntentMove(p)

Settling(o) ==
  /\ orders[o].status \in Open
  /\ orders'[o].status \in {"picked_up", "no_show"}

CallsMove ==
  \A t \in deferred' \ deferred :
    \E o \in Order :
      /\ t.intent = orders'[o].intent
      /\ t.intent # NoIntent
      /\ t.op = "capture" =>
           /\ Settling(o)
           /\ orders'[o].payment = "paid"
           /\ t.amount = orders'[o].captured

Entered(o) ==
  /\ orders[o].status = "none"
  /\ orders'[o].status = "placed"
  /\ IF o \in SetupCheckout THEN orders'[o].intent = NoIntent
     ELSE /\ orders'[o].intent = CheckoutOf(o)
          /\ NotBound(CheckoutOf(o))
          /\ orders'[o].payment # "pending"

Worked(o) ==
  /\ orders[o].status \in Open
  /\ orders'[o].status # "none"
  /\ \/ orders'[o].intent = orders[o].intent
     \/ /\ o \in SetupCheckout
        /\ orders[o].intent = NoIntent
        /\ orders'[o].intent = JitAuth(o)
  /\ orders'[o].payment = "pending" => orders[o].payment = "pending"

Synced(o) ==
  /\ orders'[o].status = orders[o].status
  /\ orders[o].intent # NoIntent
  /\ orders'[o].intent = orders[o].intent
  /\ \E e \in Event :
       /\ Sent(orders[o].intent, e)
       /\ <<orders[o].payment, EventPayment[e]>> \in ValidPaymentTransition
       /\ orders'[o].payment = EventPayment[e]
       /\ orders'[o].captured = SyncedCaptured(o, e)

Stored(o) ==
  /\ Billed(o)
  /\ orders'[o].status = orders[o].status
  /\ orders'[o].intent = BillingAuth(o)
  /\ orders'[o].payment = "authorized"
  /\ orders'[o].captured = orders[o].captured

Overwritten(o) ==
  /\ orders[o].status \in Terminal
  /\ orders'[o].status = "canceled"
  /\ o \in stale'
  /\ orders'[o].intent = orders[o].intent
  /\ orders'[o].payment = orders[o].payment
  /\ orders'[o].captured = orders[o].captured

RowMove(o) ==
  Entered(o) \/ Worked(o) \/ Synced(o) \/ Stored(o) \/ Overwritten(o)

RowsMove ==
  \/ \A x \in Order : orders'[x] = orders[x]
  \/ \E o \in Order : /\ RowMove(o)
                      /\ \A x \in Order \ {o} : orders'[x] = orders[x]

JobsMove ==
  /\ \A c \in Pass : scan'[c] \subseteq scan[c] \cup Candidates
  /\ \A x \in charged' : x \in charged \/ \E c \in Pass : x.order \in scan[c]

StaleMoves ==
  /\ stale \subseteq stale'
  /\ \A o \in stale' \ stale : orders'[o].status = "canceled"

MoneyStep ==
  StripeMoves /\ CallsMove /\ RowsMove /\ JobsMove /\ StaleMoves
-----------------------------------------------------------------------------
(* The invariant of the money is kept by every such step.                   *)

LEMMA OwnType ==
  ASSUME NEW o \in Order
  PROVE  Own(o) \subseteq Intent /\ NoIntent \notin Own(o)
BY KeysInIntent, NoIntentAssumption DEF Own

(* The authorizations of a saved card belong to one order.                  *)
LEMMA OwnSetup ==
  ASSUME NEW o \in Order, NEW w \in Order,
         BillingAuth(o) \in Own(w) \/ JitAuth(o) \in Own(w)
  PROVE  w = o /\ w \in SetupCheckout
BY DEF Own, CheckoutOf, Checkout, BillingAuth, JitAuth

LEMMA KeysDistinct ==
  ASSUME NEW o
  PROVE  BillingAuth(o) # JitAuth(o)
BY DEF BillingAuth, JitAuth

(* An order that carries an intent is the only one placed that owns it.     *)
LEMMA OneOwner ==
  ASSUME IntentsBound, NEW a \in Order, NEW b \in Order,
         orders[a].status # "none", NEW p, p \in Own(a),
         orders[b].intent = p
  PROVE  a = b
<1>1. p \in Own(b)
  BY OwnType DEF IntentsBound
<1>2. CASE a \in SetupCheckout
  BY <1>1, <1>2, OwnSetup DEF Own
<1>3. CASE a \notin SetupCheckout
  <2>1. orders[a].intent = p
    BY <1>3 DEF IntentsBound, Own
  <2>2. p # NoIntent
    BY OwnType
  <2> QED
    BY <2>1, <2>2 DEF IntentsBound
<1> QED
  BY <1>2, <1>3

(* No money has moved for an open order.                                    *)
LEMMA OpenUntouched ==
  ASSUME IntentsBound, SettledOnce, NEW o \in Order, orders[o].status \in Open,
         NEW p \in Own(o)
  PROVE  ~Touched(p)
<1> SUFFICES ASSUME Touched(p) PROVE FALSE
  OBVIOUS
<1>1. p \in Intent /\ p # NoIntent
  BY OwnType
<1>2. PICK w \in Order : p \in Own(w) /\ Settled(w)
  BY <1>1 DEF SettledOnce
<1>3. orders[w].status # "none" /\ orders[w].status \notin Open
  BY <1>2 DEF Settled, SettledOnce, Open
<1>4. CASE o \in SetupCheckout
  BY <1>2, <1>3, <1>4, OwnSetup DEF Own
<1>5. CASE o \notin SetupCheckout
  <2>1. orders[o].intent = p
    BY <1>5 DEF IntentsBound, Own, Open
  <2>2. w = o
    BY <1>2, <1>3, <2>1, OneOwner
  <2> QED
    BY <1>3, <2>2
<1> QED
  BY <1>4, <1>5

LEMMA BoundStep ==
  ASSUME StatusInv, MoneyInv, MoneyStep
  PROVE  IntentsBound'
<1> USE DEF MoneyInv
<1>1. CASE \A x \in Order : orders'[x] = orders[x]
  BY <1>1 DEF IntentsBound
<1>2. ASSUME NEW o \in Order, RowMove(o),
             \A x \in Order \ {o} : orders'[x] = orders[x]
      PROVE  IntentsBound'
  <2>1. /\ orders'[o].intent # NoIntent => orders'[o].intent \in Own(o)
        /\ orders'[o].status = "none" => orders'[o].intent = NoIntent
        /\ orders'[o].intent = NoIntent =>
             orders'[o].status = "none" \/ o \in SetupCheckout
    BY <1>2, OwnType DEF IntentsBound, RowMove, Entered, Worked, Synced, Stored,
          Overwritten, Own, Open, Terminal, Billed
  <2>2. orders'[o].payment = "pending" => o \in SetupCheckout
    BY <1>2 DEF IntentsBound, RowMove, Entered, Worked, Synced, Stored,
          Overwritten, EventPayment, Event
  <2>3. ASSUME NEW a \in Order \ {o}, orders'[o].intent # NoIntent,
               orders[a].intent = orders'[o].intent
        PROVE  FALSE
    <3>1. orders'[o].intent \in Own(a)
      BY <2>3 DEF IntentsBound
    <3>2. CASE orders'[o].intent = orders[o].intent
      BY <2>3, <3>2 DEF IntentsBound
    <3>3. CASE Entered(o)
      BY <2>3, <3>3 DEF Entered, NotBound
    <3>4. CASE orders'[o].intent \in {BillingAuth(o), JitAuth(o)}
      BY <2>3, <3>1, <3>4, OwnSetup
    <3> QED
      BY <1>2, <3>2, <3>3, <3>4
         DEF RowMove, Worked, Synced, Stored, Overwritten
  <2>4. ASSUME NEW a \in Order, NEW b \in Order, orders'[a].intent # NoIntent,
               orders'[a].intent = orders'[b].intent
        PROVE  a = b
    BY <1>2, <2>3, <2>4 DEF IntentsBound
  <2> QED
    BY <1>2, <2>1, <2>2, <2>4 DEF IntentsBound
<1> QED
  BY <1>1, <1>2 DEF MoneyStep, RowsMove

LEMMA JobsStep ==
  ASSUME StatusInv, MoneyInv, MoneyStep
  PROVE  JobsBound'
<1> USE DEF MoneyInv
<1>1. ASSUME NEW o \in Order, Billed(o) PROVE Billed(o)'
  BY <1>1 DEF Billed, MoneyStep, RowsMove, RowMove, Entered, Worked, Synced, Stored,
          Overwritten
<1>2. SetupCheckout \subseteq Order
  BY OrdersAssumption
<1>3. \A o \in Candidates : Billed(o)
  BY OrdersAssumption DEF Candidates, IntentsBound, Billed
<1>4. ASSUME NEW c \in Pass, NEW o \in scan'[c] PROVE Billed(o)'
  BY <1>1, <1>2, <1>3, <1>4 DEF MoneyStep, JobsMove, JobsBound, Billed
<1>5. ASSUME NEW x \in charged' PROVE Billed(x.order)'
  BY <1>1, <1>2, <1>5 DEF MoneyStep, JobsMove, JobsBound, Billed
<1> QED
  BY <1>4, <1>5 DEF JobsBound, Billed

LEMMA StripeStep ==
  ASSUME StatusInv, MoneyInv, MoneyStep, IntentsBound'
  PROVE  StripeBound'
<1> USE DEF MoneyInv
<1>1. ASSUME NEW p \in Intent, intent'[p] # "none" PROVE Live(p)
  <2>1. CASE intent[p] # "none"
    BY <2>1 DEF StripeBound
  <2>2. CASE intent[p] = "none"
    <3>1. PICK o \in SetupCheckout : p \in {BillingAuth(o), JitAuth(o)}
      BY <1>1, <2>2 DEF MoneyStep, StripeMoves, IntentMove
    <3> QED
      BY <3>1, OrdersAssumption DEF Live, Own
  <2> QED
    BY <2>1, <2>2
<1>2. ASSUME NEW t \in deferred' PROVE Live(t.intent)
  BY <1>2 DEF MoneyStep, CallsMove, StripeBound, IntentsBound, Live
<1>3. ASSUME NEW o \in Order, NEW p \in {BillingAuth(o), JitAuth(o)},
             reply'[p] = "none"
      PROVE  intent'[p] = "none"
  <2>1. p \in Intent
    BY KeysInIntent
  <2> QED
    BY <1>3, <2>1 DEF MoneyStep, StripeMoves, IntentMove, StripeBound
<1> QED
  BY <1>1, <1>2, <1>3 DEF StripeBound, Live

(* NewCapture(p): this step asks for a capture of p.                        *)
NewCapture(p) == \E t \in deferred' \ deferred : t.op = "capture" /\ t.intent = p

(* A capture that is not asked for in this step was asked for before.       *)
LEMMA TouchedBefore ==
  ASSUME MoneyStep, NEW p \in Intent, Touched(p)'
  PROVE  Touched(p) \/ NewCapture(p)
BY DEF Touched, Captured, Capturing, NewCapture, MoneyStep, StripeMoves, IntentMove

(* A capture is asked for by the order that carries the intent, which is    *)
(* settled in this step, and no intent of it was touched before.            *)
LEMMA NewCaptureOf ==
  ASSUME StatusInv, MoneyInv, MoneyStep, IntentsBound', NEW p \in Intent,
         NEW t \in deferred' \ deferred, t.op = "capture", t.intent = p
  PROVE  \E o \in Order :
           /\ p = orders'[o].intent /\ p \in Own(o)
           /\ Settling(o)
           /\ \A q \in Own(o) : ~Touched(q)
           /\ orders'[o].payment = "paid"
           /\ t.amount = orders'[o].captured
<1>1. PICK o \in Order :
        /\ t.intent = orders'[o].intent
        /\ t.intent # NoIntent
        /\ t.op = "capture" =>
             /\ Settling(o)
             /\ orders'[o].payment = "paid"
             /\ t.amount = orders'[o].captured
  BY DEF MoneyStep, CallsMove
<1>2. p \in Own(o)
  BY <1>1 DEF IntentsBound
<1>3. \A q \in Own(o) : ~Touched(q)
  BY <1>1, OpenUntouched DEF MoneyInv, Settling
<1> QED
  BY <1>1, <1>2, <1>3

LEMMA SettledStays ==
  ASSUME StatusInv, MoneyInv, MoneyStep, NEW o \in Order, Settled(o)
  PROVE  Settled(o)'
BY DEF Settled, MoneyStep, RowsMove, RowMove, Entered, Worked, Synced, Stored,
       Overwritten, StaleMoves, Open, Terminal

LEMMA SettledStep ==
  ASSUME StatusInv, MoneyInv, MoneyStep, IntentsBound'
  PROVE  SettledOnce'
<1> USE DEF MoneyInv
<1>s. SetupCheckout \subseteq Order /\ stale \subseteq Order
  BY OrdersAssumption DEF StatusInv, TypeOK
<1>1. ASSUME NEW o \in stale' PROVE orders'[o].status = "canceled"
  BY <1>1, <1>s DEF MoneyStep, StaleMoves, SettledOnce, RowsMove, RowMove, Entered,
          Worked, Synced, Stored, Overwritten, Open
<1>2. ASSUME NEW p \in Intent, Touched(p)'
      PROVE  \E o \in Order : p \in Own(o) /\ Settled(o)'
  <2>1. CASE Touched(p)
    BY <2>1, SettledStays DEF SettledOnce
  <2>2. CASE NewCapture(p)
    <3>1. PICK o \in Order : p \in Own(o) /\ Settling(o)
      BY <2>2, NewCaptureOf DEF NewCapture
    <3> QED
      BY <3>1 DEF Settling, Settled
  <2> QED
    BY <1>2, <2>1, <2>2, TouchedBefore
<1>3. ASSUME NEW o \in SetupCheckout, Touched(BillingAuth(o))'
      PROVE  ~Touched(JitAuth(o))' /\ orders'[o].intent = BillingAuth(o)
  <2> DEFINE b == BillingAuth(o)
             j == JitAuth(o)
  <2>o. o \in Order /\ b \in Intent /\ j \in Intent /\ b # j
        /\ b \in Own(o) /\ j \in Own(o)
    BY <1>s, KeysInIntent, KeysDistinct DEF Own
  <2>n. ASSUME NEW p \in {b, j}, NewCapture(p)
        PROVE  /\ p = orders'[o].intent /\ orders[o].status \in Open
               /\ ~Touched(b) /\ ~Touched(j)
    <3>1. p \in Intent
      BY <2>o
    <3>2. PICK w \in Order : /\ p = orders'[w].intent /\ p \in Own(w)
                             /\ Settling(w)
                             /\ \A q \in Own(w) : ~Touched(q)
      BY <2>n, <3>1, NewCaptureOf DEF NewCapture
    <3>3. w = o
      BY <2>o, <3>2, OwnSetup
    <3> QED
      BY <2>o, <3>2, <3>3 DEF Settling
  <2>1. CASE NewCapture(b)
    <3>1. ~NewCapture(j)
      BY <2>1, <2>n, <2>o
    <3> QED
      BY <2>1, <2>n, <2>o, <3>1, TouchedBefore
  <2>2. CASE Touched(b)
    <3>1. ~Touched(j) /\ orders[o].intent = b
      BY <2>2 DEF SettledOnce
    <3>2. ~NewCapture(j)
      BY <2>2, <2>n
    <3>3. orders[o].status \notin Open /\ orders[o].status # "none"
      BY <2>2, <2>o, <3>1, OpenUntouched, OwnType DEF IntentsBound
    <3>4. orders'[o].intent = b
      BY <2>o, <3>1, <3>3 DEF MoneyStep, RowsMove, RowMove, Entered, Worked, Synced,
             Stored, Overwritten
    <3> QED
      BY <2>o, <3>1, <3>2, <3>4, TouchedBefore
  <2> QED
    BY <1>3, <2>o, <2>1, <2>2, TouchedBefore
<1> QED
  BY <1>1, <1>2, <1>3 DEF SettledOnce

(* While an intent is not gone, neither was it before.                      *)
LEMMA GoneStays ==
  ASSUME MoneyStep, NEW p \in Intent, Gone(p)
  PROVE  Gone(p)'
BY DEF MoneyStep, StripeMoves, IntentMove, Gone

(* An intent that this step asks to capture was not captured before.        *)
LEMMA AgreesNew ==
  ASSUME StatusInv, MoneyInv, MoneyStep, IntentsBound', NEW o \in Order,
         NEW p \in Intent, p = orders'[o].intent, NewCapture(p)
  PROVE  AgreesOn(o, p)'
<1>1. ASSUME NEW t \in deferred' \ deferred, t.op = "capture", t.intent = p
      PROVE  /\ ~Touched(p)
             /\ orders'[o].payment = "paid"
             /\ t.amount = orders'[o].captured
  <2>1. PICK w \in Order :
          /\ p = orders'[w].intent /\ p \in Own(w)
          /\ Settling(w)
          /\ \A q \in Own(w) : ~Touched(q)
          /\ orders'[w].payment = "paid"
          /\ t.amount = orders'[w].captured
    BY <1>1, NewCaptureOf
  <2>2. w = o
    BY <2>1, NoIntentAssumption DEF IntentsBound
  <2> QED
    BY <2>1, <2>2
<1>2. ~Touched(p) /\ orders'[o].payment = "paid"
  BY <1>1 DEF NewCapture
<1>3. ~Captured(p)'
  BY <1>2 DEF MoneyStep, StripeMoves, IntentMove, Captured, Touched, Capturing
<1>4. \A t \in Capturing(p)' : t.amount = orders'[o].captured
  BY <1>1, <1>2 DEF Touched, Capturing
<1> QED
  BY <1>2, <1>3, <1>4 DEF AgreesOn

(* The row keeps its amount while the capture is carried out.               *)
LEMMA AgreesKept ==
  ASSUME MoneyStep, NEW o \in Order, NEW p \in Intent, AgreesOn(o, p),
         Touched(p), ~NewCapture(p),
         orders'[o].captured = orders[o].captured,
         \/ orders'[o].payment = orders[o].payment
         \/ o \in SetupCheckout /\ orders'[o].payment = "authorized"
  PROVE  AgreesOn(o, p)'
<1>1. \/ orders'[o].payment \in {"paid", "refunded"}
      \/ o \in SetupCheckout /\ orders'[o].payment = "authorized"
  BY DEF AgreesOn
<1>2. Capturing(p)' \subseteq Capturing(p)
  BY DEF Capturing, NewCapture
<1>3. CASE Captured(p)
  BY <1>1, <1>3 DEF AgreesOn, MoneyStep, StripeMoves, IntentMove, Captured
<1>4. CASE ~Captured(p)
  <2>1. \A t \in Capturing(p) : t.amount = orders[o].captured
    BY <1>4 DEF AgreesOn
  <2>2. Captured(p)' => \E t \in Capturing(p) : received'[p] = t.amount
    BY <1>4 DEF MoneyStep, StripeMoves, IntentMove, Captured
  <2> QED
    BY <1>1, <1>2, <2>1, <2>2 DEF AgreesOn
<1> QED
  BY <1>3, <1>4

(* A webhook writes the amount that Stripe took, or leaves it.              *)
LEMMA AgreesSynced ==
  ASSUME MoneyStep, NEW o \in Order, NEW p \in Intent, AgreesOn(o, p),
         Touched(p), ~NewCapture(p), ~Gone(p), p = orders[o].intent, Synced(o),
         o \in SetupCheckout => p[1] # "checkout"
  PROVE  AgreesOn(o, p)'
<1>1. PICK e \in Event :
        /\ Sent(p, e)
        /\ <<orders[o].payment, EventPayment[e]>> \in ValidPaymentTransition
        /\ orders'[o].payment = EventPayment[e]
        /\ orders'[o].captured = SyncedCaptured(o, e)
  BY DEF Synced
<1>2. \/ orders[o].payment \in {"paid", "refunded"}
      \/ o \in SetupCheckout /\ orders[o].payment = "authorized"
  BY DEF AgreesOn
<1>3. \/ e = "charge.refunded" /\ Captured(p)
      \/ e = "payment_intent.succeeded" /\ Captured(p)
  BY <1>1, <1>2
     DEF Sent, Gone, Captured, EventPayment, Event, ValidPaymentTransition
<1>4. received'[p] = received[p] /\ Captured(p)'
  BY <1>3 DEF MoneyStep, StripeMoves, IntentMove, Captured
<1>5. received[p] = orders[o].captured
  BY <1>3 DEF AgreesOn
<1>6. orders'[o].captured = received[p]
  BY <1>1, <1>3, <1>5 DEF SyncedCaptured
<1>7. orders'[o].payment \in {"paid", "refunded"}
  BY <1>1, <1>3 DEF EventPayment, Event
<1> QED
  BY <1>4, <1>6, <1>7 DEF AgreesOn

LEMMA RowAgreesStep ==
  ASSUME StatusInv, MoneyInv, MoneyStep, IntentsBound'
  PROVE  RowAgrees'
<1> USE DEF MoneyInv
<1> SUFFICES ASSUME NEW o \in Order, NEW p \in Intent,
                    p = orders'[o].intent, Touched(p)', ~Gone(p)'
             PROVE  AgreesOn(o, p)'
  BY DEF RowAgrees
<1>1. CASE NewCapture(p)
  BY <1>1, AgreesNew
<1>2. CASE ~NewCapture(p)
  <2>1. Touched(p) /\ ~Gone(p)
    BY <1>2, TouchedBefore, GoneStays
  <2>2. p \in Own(o)
    BY NoIntentAssumption DEF IntentsBound
  <2>3. PICK w \in Order : p \in Own(w) /\ Settled(w)
    BY <2>1 DEF SettledOnce
  <2>4. CASE orders[o].intent = p
    <3>1. AgreesOn(o, p)
      BY <2>1, <2>4 DEF RowAgrees
    <3>2. CASE Synced(o)
      <4>1. o \in SetupCheckout => p[1] # "checkout"
        BY <2>2 DEF Own, BillingAuth, JitAuth
      <4> QED
        BY <1>2, <2>1, <2>4, <3>1, <3>2, <4>1, AgreesSynced
    <3>3. orders[o].status \notin Open /\ orders[o].status # "none"
      BY <2>1, <2>2, <2>4, OpenUntouched, NoIntentAssumption DEF IntentsBound
    <3>4. CASE ~Synced(o)
      BY <1>2, <2>1, <3>1, <3>3, <3>4, AgreesKept
         DEF MoneyStep, RowsMove, RowMove, Entered, Worked, Stored, Overwritten,
             Billed
    <3> QED
      BY <3>2, <3>4
  <2>5. CASE orders[o].intent # p
    <3>1. RowMove(o)
      BY <2>5 DEF MoneyStep, RowsMove
    <3>2. CASE Entered(o) /\ o \notin SetupCheckout
      <4>1. NotBound(p)
        BY <3>2 DEF Entered
      <4>2. w \notin SetupCheckout
        BY <2>2, <2>3, <3>2, OwnSetup DEF Own
      <4>3. orders[w].status # "none"
        BY <2>3 DEF Settled, SettledOnce
      <4>4. orders[w].intent = p
        BY <2>3, <4>2, <4>3 DEF IntentsBound, Own
      <4> QED
        BY <4>1, <4>4 DEF NotBound
    <3>3. CASE Worked(o)
      BY <2>1, <2>2, <3>3, OpenUntouched DEF Worked
    <3>4. CASE Stored(o)
      BY <2>1, <2>5, <3>4 DEF Stored, Billed, SettledOnce
    <3> QED
      BY <2>5, <3>1, <3>2, <3>3, <3>4, NoIntentAssumption
         DEF RowMove, Entered, Synced, Overwritten
  <2> QED
    BY <2>4, <2>5
<1> QED
  BY <1>1, <1>2

LEMMA MoneyKept ==
  ASSUME StatusInv, MoneyInv, MoneyStep
  PROVE  MoneyInv'
BY BoundStep, JobsStep, StripeStep, SettledStep, RowAgreesStep DEF MoneyInv
-----------------------------------------------------------------------------
(* Every step of the handlers, the jobs and Stripe is one of these.         *)

(* The calls to Stripe.                                                     *)
LEMMA QuietMoves ==
  ASSUME UNCHANGED stripeVars
  PROVE  StripeMoves
BY DEF stripeVars, StripeMoves, IntentMove

LEMMA CancelMoves ==
  ASSUME IntentsTypeOK, NEW p, CancelPaymentIntent(p)
  PROVE  StripeMoves
<1>1. CASE UNCHANGED stripeVars
  BY <1>1, QuietMoves
<1>2. CASE /\ Cancelable(p)
           /\ intent' = [intent EXCEPT ![p] = "canceled"]
           /\ UNCHANGED <<received, reply>>
  BY <1>2 DEF IntentsTypeOK, Cancelable, StripeMoves, IntentMove
<1> QED
  BY <1>1, <1>2 DEF CancelPaymentIntent, Lost

LEMMA CaptureMoves ==
  ASSUME IntentsTypeOK, NEW t \in deferred, t.op = "capture",
         CaptureAuthorization(t.intent, t.amount)
  PROVE  StripeMoves
<1>1. CASE UNCHANGED stripeVars
  BY <1>1, QuietMoves
<1>2. CASE /\ Held(t.intent)
           /\ intent' = [intent EXCEPT ![t.intent] = "succeeded"]
           /\ received' = [received EXCEPT ![t.intent] = t.amount]
           /\ UNCHANGED reply
  BY <1>2 DEF IntentsTypeOK, Held, Capturing, StripeMoves, IntentMove
<1> QED
  BY <1>1, <1>2 DEF CaptureAuthorization, Lost

LEMMA RefundMoves ==
  ASSUME IntentsTypeOK, NEW p, Refund(p)
  PROVE  StripeMoves
<1>1. CASE UNCHANGED stripeVars
  BY <1>1, QuietMoves
<1>2. CASE /\ intent[p] = "succeeded"
           /\ intent' = [intent EXCEPT ![p] = "refunded"]
           /\ UNCHANGED <<received, reply>>
  BY <1>2 DEF IntentsTypeOK, StripeMoves, IntentMove
<1> QED
  BY <1>1, <1>2 DEF Refund, Lost

LEMMA ExpireMoves ==
  ASSUME IntentsTypeOK, NEW p, ExpireHold(p)
  PROVE  StripeMoves
BY DEF IntentsTypeOK, ExpireHold, Held, StripeMoves, IntentMove

(* Stripe executes an authorization only of an intent it does not have yet. *)
LEMMA AuthorizationMoves ==
  ASSUME IntentsTypeOK, StripeBound, NEW o \in SetupCheckout,
         NEW p \in {BillingAuth(o), JitAuth(o)}, NEW seen \in Reply,
         CreateOffSessionAuthorization(p, seen)
  PROVE  StripeMoves
<1>o. o \in Order /\ p \in Intent
  BY OrdersAssumption, KeysInIntent
<1>1. ASSUME NEW answer \in Reply, Execute(p, answer)
      PROVE  StripeMoves
  BY <1>o, <1>1
     DEF Execute, StripeBound, IntentsTypeOK, Reply, StripeMoves, IntentMove
<1>2. ASSUME NEW answer \in Reply, Answer(p, answer)
      PROVE  StripeMoves
  BY <1>1, <1>2, QuietMoves DEF Answer, Replay
<1> QED
  BY <1>2, QuietMoves DEF CreateOffSessionAuthorization

(* The common case: nothing is asked of the jobs.                           *)
LEMMA JobsQuiet ==
  ASSUME UNCHANGED jobVars
  PROVE  JobsMove
BY DEF jobVars, JobsMove

LEMMA StaleQuiet ==
  ASSUME UNCHANGED stale
  PROVE  StaleMoves
BY DEF StaleMoves

LEMMA CallsQuiet ==
  ASSUME deferred' \subseteq deferred
  PROVE  CallsMove
BY DEF CallsMove

(* What a handler defers is a call on the intent of the order it wrote.     *)
LEMMA DeferMoves ==
  ASSUME NEW o \in Order, NEW op, NEW p, NEW amount, Defer(op, p, amount),
         p = orders'[o].intent,
         op = "capture" => /\ Settling(o)
                           /\ orders'[o].payment = "paid"
                           /\ amount = orders'[o].captured
  PROVE  CallsMove
<1>1. CASE p = NoIntent
  BY <1>1, CallsQuiet DEF Defer
<1>2. CASE p # NoIntent
  <2>1. deferred' \ deferred \subseteq {[op |-> op, intent |-> p, amount |-> amount]}
    BY <1>2 DEF Defer
  <2> QED
    BY <1>2, <2>1 DEF CallsMove
<1> QED
  BY <1>1, <1>2

LEMMA RowsQuiet ==
  ASSUME UNCHANGED orders
  PROVE  RowsMove
BY DEF RowsMove

LEMMA OneRowMoves ==
  ASSUME NEW o \in Order, RowMove(o),
         \A x \in Order \ {o} : orders'[x] = orders[x]
  PROVE  RowsMove
BY DEF RowsMove

LEMMA PlacingMoney ==
  ASSUME StatusInv, MoneyInv, NEW o \in Order,
         \/ CreateOrder(o)
         \/ o \in SubOrder /\ SubscribeAdmit(o)
         \/ o \in SubOrder /\ SubscribeRefuse(o)
         \/ o \in SubOrder /\ SubscribeCommit(o)
         \/ o \in SubOrder /\ SubscribeRollback(o)
  PROVE  MoneyStep
<1> USE DEF StatusInv, TypeOK, requestVars, MoneyStep
<1>1. CASE CreateOrder(o)
  <2>1. Entered(o) /\ \A x \in Order \ {o} : orders'[x] = orders[x]
    BY <1>1, OrdersAssumption DEF CreateOrder, Insert, Entered
  <2> QED
    BY <1>1, <2>1, OneRowMoves, QuietMoves, JobsQuiet, StaleQuiet, CallsQuiet
       DEF CreateOrder, RowMove
<1>2. CASE SubscribeAdmit(o)
  BY <1>2, RowsQuiet, QuietMoves, JobsQuiet, StaleQuiet, CallsQuiet
     DEF SubscribeAdmit
<1>3. CASE SubscribeRefuse(o) \/ SubscribeRollback(o)
  <2>1. StripeMoves
    BY <1>3, QuietMoves, CancelMoves
       DEF SubscribeRefuse, SubscribeRollback, VoidCheckout
  <2> QED
    BY <1>3, <2>1, RowsQuiet, JobsQuiet, StaleQuiet, CallsQuiet
       DEF SubscribeRefuse, SubscribeRollback
<1>4. CASE SubscribeCommit(o)
  <2>1. orders[o].status = "none"
    BY <1>4 DEF RequestsCurrent, SubscribeCommit
  <2>2. Entered(o) /\ \A x \in Order \ {o} : orders'[x] = orders[x]
    BY <1>4, <2>1 DEF SubscribeCommit, Insert, Entered
  <2> QED
    BY <1>4, <2>2, OneRowMoves, QuietMoves, JobsQuiet, StaleQuiet, CallsQuiet
       DEF SubscribeCommit, RowMove
<1> QED
  BY <1>1, <1>2, <1>3, <1>4

LEMMA SellerMoney ==
  ASSUME StatusInv, MoneyInv, NEW o \in Order, SellerStep(o)
  PROVE  MoneyStep
<1> USE DEF StatusInv, TypeOK, requestVars, MoneyStep
<1>1. CASE MarkReady(o)
  <2>1. Worked(o) /\ \A x \in Order \ {o} : orders'[x] = orders[x]
    BY <1>1 DEF MarkReady, Worked, Open, Row
  <2> QED
    BY <1>1, <2>1, OneRowMoves, QuietMoves, JobsQuiet, StaleQuiet, CallsQuiet
       DEF MarkReady, RowMove
<1>2. CASE CancelOrder(o)
  <2>1. /\ Worked(o) /\ orders'[o].intent = orders[o].intent
        /\ \A x \in Order \ {o} : orders'[x] = orders[x]
    BY <1>2 DEF CancelOrder, Worked, Open, Row
  <2>2. CallsMove
    BY <1>2, <2>1, DeferMoves DEF CancelOrder
  <2> QED
    BY <1>2, <2>1, <2>2, OneRowMoves, QuietMoves, JobsQuiet, StaleQuiet
       DEF CancelOrder, RowMove
<1>3. ASSUME NEW waive \in BOOLEAN, NoShow(o, waive)
      PROVE  MoneyStep
  <2> DEFINE charge == ChargesFee(o, waive)
             paid == IF charge THEN "paid" ELSE "voided"
             amount == IF charge THEN FeeFor(o) ELSE 0
  <2>1. orders' = [orders EXCEPT ![o].status = "no_show",
                                 ![o].payment = paid,
                                 ![o].captured = amount]
    BY <1>3 DEF NoShow
  <2>2. /\ orders'[o].status = "no_show"
        /\ orders'[o].payment = paid
        /\ orders'[o].captured = amount
        /\ orders'[o].intent = orders[o].intent
        /\ \A x \in Order \ {o} : orders'[x] = orders[x]
    <3> HIDE DEF paid, amount
    <3> QED
      BY <2>1 DEF Row
  <2>3. Worked(o) /\ Settling(o)
    BY <1>3, <2>2 DEF NoShow, Worked, Settling, Open
  <2>4. CallsMove
    BY <1>3, <2>2, <2>3, DeferMoves DEF NoShow
  <2> QED
    BY <1>3, <2>2, <2>3, <2>4, OneRowMoves, QuietMoves, JobsQuiet, StaleQuiet
       DEF NoShow, RowMove
<1>4. CASE ConfirmPickup(o)
  <2>1. ASSUME NEW p, HandOver(o, p),
               \/ p = orders[o].intent
               \/ /\ o \in SetupCheckout /\ orders[o].intent = NoIntent
                  /\ p = JitAuth(o)
        PROVE  CallsMove /\ RowsMove
    <3>1. /\ orders'[o] = [status |-> "picked_up", payment |-> "paid",
                           captured |-> Total[o], intent |-> p,
                           pickedUp |-> TRUE]
          /\ \A x \in Order \ {o} : orders'[x] = orders[x]
      BY <2>1 DEF HandOver
    <3>2. Worked(o) /\ Settling(o)
      BY <1>4, <2>1, <3>1
         DEF ConfirmPickup, Eligible, IsOpen, Worked, Settling
    <3>3. CallsMove
      BY <2>1, <3>1, <3>2, DeferMoves DEF HandOver
    <3> QED
      BY <3>1, <3>2, <3>3, OneRowMoves DEF RowMove
  <2>2. CASE /\ UNCHANGED stripeVars
             /\ HandOver(o, orders[o].intent)
    BY <1>4, <2>1, <2>2, QuietMoves, JobsQuiet, StaleQuiet DEF ConfirmPickup
  <2>3. CASE /\ orders[o].intent = NoIntent
             /\ \E seen \in Reply \ {"error"} :
                  CreateOffSessionAuthorization(JitAuth(o), seen)
             /\ HandOver(o, JitAuth(o))
    <3>1. o \in SetupCheckout
      BY <1>4, <2>3 DEF ConfirmPickup, Eligible, IsOpen, Open, MoneyInv,
                        IntentsBound
    <3>2. StripeMoves
      BY <2>3, <3>1, AuthorizationMoves DEF MoneyInv
    <3>3. CallsMove /\ RowsMove
      BY <2>1, <2>3, <3>1
    <3> QED
      BY <1>4, <3>2, <3>3, JobsQuiet, StaleQuiet DEF ConfirmPickup
  <2> QED
    BY <1>4, <2>2, <2>3 DEF ConfirmPickup
<1>5. CASE PickupFails(o)
  <2>1. o \in SetupCheckout
    BY <1>5 DEF PickupFails, Eligible, IsOpen, Open, MoneyInv, IntentsBound
  <2>2. StripeMoves
    BY <1>5, <2>1, AuthorizationMoves DEF PickupFails, MoneyInv, Reply
  <2> QED
    BY <1>5, <2>2, RowsQuiet, JobsQuiet, StaleQuiet, CallsQuiet
       DEF PickupFails
<1>6. CASE RefundOrder(o)
  <2>1. CallsMove
    BY <1>6, DeferMoves DEF RefundOrder
  <2> QED
    BY <1>6, <2>1, RowsQuiet, QuietMoves, JobsQuiet, StaleQuiet
       DEF RefundOrder
<1> QED
  BY <1>1, <1>2, <1>3, <1>4, <1>5, <1>6 DEF SellerStep

LEMMA WebhookMoney ==
  ASSUME StatusInv, MoneyInv, NEW o \in Order, NEW e \in Event, Webhook(o, e)
  PROVE  MoneyStep
<1> USE DEF StatusInv, TypeOK, requestVars, MoneyStep
<1> DEFINE cancel == e \in CancelsOrder /\ orders[o].status = "placed"
           s == IF cancel THEN "canceled" ELSE orders[o].status
           a == SyncedCaptured(o, e)
           m == EventPayment[e]
<1>1. orders' = [orders EXCEPT ![o].payment = m, ![o].captured = a,
                               ![o].status = s]
  BY DEF Webhook, Row
<1>2. /\ orders'[o].status = s
      /\ orders'[o].payment = m
      /\ orders'[o].captured = a
      /\ orders'[o].intent = orders[o].intent
      /\ \A x \in Order \ {o} : orders'[x] = orders[x]
  <2> HIDE DEF s, a, m
  <2> QED
    BY <1>1 DEF Row
<1>3. CASE cancel
  <2>1. m # "pending"
    BY DEF EventPayment, Event
  <2>2. Worked(o)
    BY <1>2, <1>3, <2>1 DEF Worked, Open
  <2> QED
    BY <1>2, <2>2, OneRowMoves, QuietMoves, JobsQuiet, StaleQuiet, CallsQuiet
       DEF Webhook, RowMove
<1>4. CASE ~cancel
  <2>1. Synced(o)
    BY <1>2, <1>4 DEF Webhook, Synced
  <2> QED
    BY <1>2, <2>1, OneRowMoves, QuietMoves, JobsQuiet, StaleQuiet, CallsQuiet
       DEF Webhook, RowMove
<1> QED
  BY <1>3, <1>4

LEMMA SubscriptionMoney ==
  ASSUME StatusInv, MoneyInv, NEW o \in SubOrder,
         \/ \E new \in {"active", "paused"} : BuyerSetStatus(o, new)
         \/ BuyerCancel(o)
         \/ o \in Closable /\ SellerCancelStep(o)
  PROVE  MoneyStep
<1> USE DEF StatusInv, TypeOK, requestVars, MoneyStep
<1>o. o \in Order
  BY OrdersAssumption
<1>1. CASE \E new \in {"active", "paused"} : BuyerSetStatus(o, new)
  BY <1>1, RowsQuiet, QuietMoves, JobsQuiet, StaleQuiet, CallsQuiet
     DEF BuyerSetStatus
<1>2. CASE BuyerCancel(o)
  <2>1. CASE IsOpen(o) /\ ~cutoffPassed
    <3> DEFINE m == IF orders[o].intent = NoIntent
                    THEN orders[o].payment ELSE "voided"
    <3>1. orders' = [orders EXCEPT ![o].status = "canceled",
                                   ![o].payment = m]
      BY <1>2, <2>1, <1>o DEF BuyerCancel, Row
    <3>2. /\ orders'[o].status = "canceled"
          /\ orders'[o].payment = m
          /\ orders'[o].intent = orders[o].intent
          /\ \A x \in Order \ {o} : orders'[x] = orders[x]
      <4> HIDE DEF m
      <4> QED
        BY <1>o, <3>1 DEF Row
    <3>3. Worked(o)
      BY <2>1, <3>2 DEF IsOpen, Worked
    <3>4. CallsMove
      BY <1>2, <1>o, <2>1, <3>2, DeferMoves, CallsQuiet DEF BuyerCancel
    <3> QED
      BY <1>2, <1>o, <3>2, <3>3, <3>4, OneRowMoves, QuietMoves, JobsQuiet,
         StaleQuiet DEF BuyerCancel, RowMove
  <2>2. CASE ~(IsOpen(o) /\ ~cutoffPassed)
    BY <1>2, <2>2, RowsQuiet, QuietMoves, JobsQuiet, StaleQuiet, CallsQuiet
       DEF BuyerCancel
  <2> QED
    BY <2>1, <2>2
<1>3. CASE SellerCancelEmpty(o) \/ SellerCancelRead(o) \/ SellerCancelAbort(o)
  BY <1>3, RowsQuiet, QuietMoves, JobsQuiet, StaleQuiet, CallsQuiet
     DEF SellerCancelEmpty, SellerCancelRead, SellerCancelAbort
<1>4. CASE SellerCancelApply(o)
  <2>1. orders[o].status \in Open \cup Terminal
    BY <1>4, <1>o, RowsTyped
       DEF SellerCancelApply, RequestsCurrent, OrderStatus
  <2>2. /\ orders'[o].status = "canceled"
        /\ orders'[o].intent = orders[o].intent
        /\ orders'[o].payment = orders[o].payment
        /\ orders'[o].captured = orders[o].captured
        /\ \A x \in Order \ {o} : orders'[x] = orders[x]
    BY <1>4, <1>o DEF SellerCancelApply, Row
  <2>3. Worked(o) \/ Overwritten(o)
    BY <1>4, <2>1, <2>2
       DEF SellerCancelApply, IsOpen, Worked, Overwritten
  <2>4. StaleMoves
    BY <1>4, <2>2 DEF SellerCancelApply, StaleMoves
  <2> QED
    BY <1>4, <1>o, <2>2, <2>3, <2>4, OneRowMoves, QuietMoves, JobsQuiet,
       CallsQuiet DEF SellerCancelApply, RowMove
<1> QED
  BY <1>1, <1>2, <1>3, <1>4 DEF SellerCancelStep

LEMMA BillingMoney ==
  ASSUME StatusInv, MoneyInv, NEW c \in Pass, BillingStep(c)
  PROVE  MoneyStep
<1> USE DEF StatusInv, TypeOK, requestVars, MoneyStep
<1>1. CASE BillingScan(c)
  <2>1. JobsMove
    BY <1>1 DEF BillingScan, JobsMove
  <2> QED
    BY <1>1, <2>1, RowsQuiet, QuietMoves, StaleQuiet, CallsQuiet
       DEF BillingScan
<1>2. ASSUME NEW o \in SubOrder, BillingCharge(c, o)
      PROVE  MoneyStep
  <2>1. PICK seen \in Reply :
          /\ CreateOffSessionAuthorization(BillingAuth(o), seen)
          /\ charged' = charged \cup
                {[pass |-> c, order |-> o, outcome |-> OutcomeOf(seen)]}
    BY <1>2 DEF BillingCharge
  <2>2. o \in SetupCheckout
    BY <1>2 DEF BillingCharge, MoneyInv, JobsBound, Billed
  <2>3. StripeMoves
    BY <2>1, <2>2, AuthorizationMoves DEF MoneyInv
  <2>4. JobsMove
    BY <1>2, <2>1 DEF BillingCharge, JobsMove
  <2> QED
    BY <1>2, <2>3, <2>4, RowsQuiet, StaleQuiet, CallsQuiet
       DEF BillingCharge
<1>3. CASE BillingCrash(c)
  <2>1. JobsMove
    BY <1>3 DEF BillingCrash, JobsMove
  <2> QED
    BY <1>3, <2>1, RowsQuiet, QuietMoves, StaleQuiet, CallsQuiet
       DEF BillingCrash
<1> QED
  BY <1>1, <1>2, <1>3 DEF BillingStep

LEMMA BillingWriteMoney ==
  ASSUME StatusInv, MoneyInv, NEW x \in charged, BillingStore(x) \/ BillingFail(x)
  PROVE  MoneyStep
<1> USE DEF StatusInv, TypeOK, requestVars, MoneyStep
<1>o. x.order \in Order /\ Billed(x.order) /\ x.outcome \in Outcome
  BY DEF Charge, MoneyInv, JobsBound
<1>1. CASE BillingStore(x)
  <2>1. Stored(x.order) /\ \A y \in Order \ {x.order} : orders'[y] = orders[y]
    BY <1>1, <1>o DEF BillingStore, Stored, Row
  <2>2. JobsMove
    BY <1>1 DEF BillingStore, JobsMove
  <2> QED
    BY <1>1, <1>o, <2>1, <2>2, OneRowMoves, QuietMoves, StaleQuiet, CallsQuiet
       DEF BillingStore, RowMove
<1>2. CASE BillingFail(x)
  <2>1. StripeMoves
    BY <1>2, QuietMoves, CancelMoves DEF BillingFail
  <2>2. RowsMove
    <3>1. CASE StillPlaced(x.order)
      <4>1. orders' = [orders EXCEPT ![x.order].status = "canceled",
                                     ![x.order].payment = x.outcome]
        BY <1>2, <3>1 DEF BillingFail
      <4>2. /\ orders'[x.order].status = "canceled"
            /\ orders'[x.order].payment = x.outcome
            /\ orders'[x.order].intent = orders[x.order].intent
            /\ \A y \in Order \ {x.order} : orders'[y] = orders[y]
        BY <1>o, <4>1 DEF Row
      <4>3. Worked(x.order)
        BY <1>o, <3>1, <4>2 DEF StillPlaced, Worked, Open, Outcome
      <4> QED
        BY <1>o, <4>2, <4>3, OneRowMoves DEF RowMove
    <3>2. CASE ~StillPlaced(x.order)
      BY <1>2, <3>2, RowsQuiet DEF BillingFail
    <3> QED
      BY <3>1, <3>2
  <2>3. JobsMove
    BY <1>2 DEF BillingFail, JobsMove
  <2> QED
    BY <1>2, <2>1, <2>2, <2>3, StaleQuiet, CallsQuiet DEF BillingFail
<1> QED
  BY <1>1, <1>2

LEMMA DeferredMoney ==
  ASSUME StatusInv, MoneyInv, NEW t \in deferred, RunDeferred(t) \/ LoseDeferred(t)
  PROVE  MoneyStep
<1> USE DEF StatusInv, TypeOK, requestVars, MoneyStep
<1>1. StripeMoves
  BY QuietMoves, CancelMoves, CaptureMoves, RefundMoves
     DEF RunDeferred, LoseDeferred
<1>2. deferred' \subseteq deferred
  BY DEF RunDeferred, LoseDeferred
<1> QED
  BY <1>1, <1>2, RowsQuiet, JobsQuiet, StaleQuiet, CallsQuiet
     DEF RunDeferred, LoseDeferred

LEMMA StepMoney ==
  ASSUME StatusInv, MoneyInv, [Next]_vars
  PROVE  MoneyStep
<1> USE DEF requestVars
<1>1. CASE \E o \in Order : CreateOrder(o)
  BY <1>1, PlacingMoney
<1>2. CASE \E o \in Order : SellerStep(o)
  BY <1>2, SellerMoney
<1>3. CASE \E o \in SubOrder : SubscriberStep(o)
  BY <1>3, PlacingMoney, SubscriptionMoney, OrdersAssumption DEF SubscriberStep
<1>4. CASE \E o \in Closable : SellerCancelStep(o)
  BY <1>4, SubscriptionMoney, OrdersAssumption
<1>5. CASE \E o \in Order, e \in Event : Webhook(o, e)
  BY <1>5, WebhookMoney
<1>6. CASE \E c \in Pass : BillingStep(c)
  BY <1>6, BillingMoney
<1>7. CASE \E x \in charged : BillingStore(x) \/ BillingFail(x)
  BY <1>7, BillingWriteMoney
<1>8. CASE \E t \in deferred : RunDeferred(t) \/ LoseDeferred(t)
  BY <1>8, DeferredMoney
<1>9. CASE PassCutoff \/ \E p \in Intent : Expire(p)
  <2>1. StripeMoves
    BY <1>9, QuietMoves, ExpireMoves DEF PassCutoff, Expire, StatusInv, TypeOK
  <2> QED
    BY <1>9, <2>1, RowsQuiet, JobsQuiet, StaleQuiet, CallsQuiet
       DEF PassCutoff, Expire, MoneyStep
<1>10. CASE UNCHANGED vars
  BY <1>10, RowsQuiet, QuietMoves, JobsQuiet, StaleQuiet, CallsQuiet
     DEF vars, MoneyStep
<1> QED
  BY <1>1, <1>2, <1>3, <1>4, <1>5, <1>6, <1>7, <1>8, <1>9, <1>10 DEF Next

LEMMA MoneyInit == Init => MoneyInv
<1> SUFFICES ASSUME Init PROVE MoneyInv
  OBVIOUS
<1>1. IntentsBound /\ JobsBound
  BY DEF Init, NoRow, IntentsBound, JobsBound
<1>2. StripeBound
  <2>1. ASSUME NEW p \in Intent, intent[p] # "none" PROVE Live(p)
    <3>1. PICK o \in Order \ SetupCheckout : p = CheckoutOf(o)
      BY <2>1 DEF Init, IntentsInit
    <3> QED
      BY <3>1 DEF Live, Own
  <2>2. ASSUME NEW o \in Order, NEW p \in {BillingAuth(o), JitAuth(o)}
        PROVE  intent[p] = "none"
    <3>1. p \in Intent
      BY KeysInIntent
    <3>2. \A a \in Order : p # CheckoutOf(a)
      BY DEF CheckoutOf, Checkout, BillingAuth, JitAuth
    <3> QED
      BY <3>1, <3>2 DEF Init, IntentsInit
  <2> QED
    BY <2>1, <2>2 DEF StripeBound, Init
<1>3. \A p \in Intent : ~Touched(p)
  BY DEF Init, IntentsInit, Touched, Captured, Capturing
<1>4. SettledOnce /\ RowAgrees
  <2>1. \A o \in SetupCheckout : BillingAuth(o) \in Intent
    BY KeysInIntent, OrdersAssumption
  <2> QED
    BY <1>3, <2>1 DEF SettledOnce, RowAgrees, Init
<1> QED
  BY <1>1, <1>2, <1>4 DEF MoneyInv

LEMMA MoneyInvariant == Spec => [](StatusInv /\ MoneyInv)
<1>1. StatusInv /\ MoneyInv /\ [Next]_vars => MoneyInv'
  BY StepMoney, MoneyKept
<1> QED
  BY <1>1, MoneyInit, StatusInvariant, PTL DEF Spec

(* FulfilledOnly: whatever is lost, late, retried or stopped halfway, money *)
(* is taken only for orders that were collected or not shown for.           *)
THEOREM FulfilledOnly == Spec => []ChargedOnlyIfFulfilled
<1>1. MoneyInv => ChargedOnlyIfFulfilled
  BY DEF MoneyInv, SettledOnce, ChargedOnlyIfFulfilled, Touched, Settled, Own,
         IntentsOf
<1> QED
  BY <1>1, MoneyInvariant, PTL

(* AmountAgrees: captured_cents is the amount that Stripe took on the       *)
(* intent the order carries, also when a billing pass wrote that intent     *)
(* again after the capture or a webhook was late.                           *)
THEOREM AmountAgrees == Spec => []CapturedAgrees
<1>1. MoneyInv => CapturedAgrees
  <2> SUFFICES ASSUME MoneyInv, NEW o \in Order, orders[o].intent # NoIntent,
                      Captured(orders[o].intent)
               PROVE  received[orders[o].intent] = orders[o].captured
    BY DEF CapturedAgrees
  <2> DEFINE p == orders[o].intent
  <2>1. p \in Intent
    BY OwnType DEF MoneyInv, IntentsBound
  <2>2. Touched(p) /\ ~Gone(p)
    BY DEF Touched, Gone, Captured
  <2> QED
    BY <2>1, <2>2 DEF MoneyInv, RowAgrees, AgreesOn
<1> QED
  BY <1>1, MoneyInvariant, PTL

(* ChargedOnce: no buyer pays twice for an order.  Two holds there may be:  *)
(* a billing pass and the pickup each authorize the card under a key of     *)
(* their own; but only one of them is ever captured.                        *)
THEOREM ChargedOnce == Spec => []ChargedAtMostOnce
<1>1. MoneyInv => ChargedAtMostOnce
  <2> SUFFICES ASSUME MoneyInv, NEW o \in Order
               PROVE  Cardinality({p \in IntentsOf(o) : Captured(p)}) <= 1
    BY DEF ChargedAtMostOnce
  <2> DEFINE taken == {p \in IntentsOf(o) : Captured(p)}
  <2>1. ASSUME NEW p \in taken PROVE p \in Own(o) /\ Touched(p)
    <3>1. p \in Intent /\ Touched(p)
      BY KeysInIntent DEF IntentsOf, Touched
    <3>2. PICK w \in Order : p \in Own(w)
      BY <3>1 DEF MoneyInv, SettledOnce
    <3>3. CASE p = CheckoutOf(o)
      <4>1. w \notin SetupCheckout /\ SameCheckout[w] = SameCheckout[o]
        BY <3>2, <3>3 DEF Own, CheckoutOf, Checkout, BillingAuth, JitAuth
      <4>2. o \notin SetupCheckout
        BY <4>1, OrdersAssumption
      <4> QED
        BY <3>1, <3>3, <4>2 DEF Own
    <3>4. CASE p \in {BillingAuth(o), JitAuth(o)}
      BY <3>1, <3>2, <3>4, OwnSetup
    <3> QED
      BY <3>1, <3>2, <3>3, <3>4 DEF IntentsOf
  <2>2. \A p, q \in taken : p = q
    BY <2>1 DEF Own, MoneyInv, SettledOnce
  <2>3. CASE taken = {}
    BY <2>3, FS_EmptySet
  <2>4. ASSUME NEW p \in taken
        PROVE  Cardinality(taken) <= 1
    <3>1. taken = {p}
      BY <2>2, <2>4
    <3>2. Cardinality({p}) = 1
      BY FS_Singleton
    <3> QED
      BY <3>1, <3>2
  <2> QED
    BY <2>3, <2>4
<1> QED
  BY <1>1, MoneyInvariant, PTL
-----------------------------------------------------------------------------
(* The hold of a canceled order.  CanceledHoldsNothing is not true of every *)
(* instance: a billing pass may authorize a saved card after its order was  *)
(* canceled, a seller's CancelSubscription leaves the hold alone, and the   *)
(* call that releases it is made once.  Without these it holds.             *)
NoLooseEnds ==
  /\ SetupCheckout = {}
  /\ Closable = {}
  /\ Faults \cap {"late_decline", "lost_call", "crash"} = {}

Releasing(p) == \E t \in deferred : t.op = "cancel" /\ t.intent = p

(* An order with a hold is authorized as long as it is open, and its hold   *)
(* is on its way out once it is canceled.                                   *)
HoldKnown(o) ==
  Held(orders[o].intent) =>
    /\ orders[o].status \in Open => orders[o].payment = "authorized"
    /\ orders[o].status = "canceled" => Releasing(orders[o].intent)
HoldsKnown == \A o \in Order : HoldKnown(o)

(* No hold comes into being, and a release is forgotten only when made.     *)
HoldsShrink ==
  /\ \A p \in Intent : Held(p)' => Held(p)
  /\ \A t \in deferred \ deferred' : t.op = "cancel" => ~Held(t.intent)'

LEMMA HoldsOnlyShrink ==
  ASSUME NoLooseEnds, StatusInv, MoneyInv, [Next]_vars
  PROVE  HoldsShrink
<1>1. ASSUME NEW p \in Intent, Held(p)' PROVE Held(p)
  BY <1>1, StepMoney
     DEF NoLooseEnds, MoneyStep, StripeMoves, IntentMove, Held
<1>2. CASE deferred \subseteq deferred'
  BY <1>1, <1>2 DEF HoldsShrink
<1>3. ASSUME NEW t \in deferred, RunDeferred(t) \/ LoseDeferred(t)
      PROVE  \A s \in deferred \ deferred' : s.op = "cancel" => ~Held(s.intent)'
  <2>1. t \in Call /\ deferred \ deferred' \subseteq {t}
    BY <1>3 DEF StatusInv, TypeOK, RunDeferred, LoseDeferred
  <2>2. CASE t.op = "cancel"
    <3>1. CancelPaymentIntent(t.intent) /\ ~Lost
      BY <1>3, <2>2 DEF NoLooseEnds, RunDeferred, LoseDeferred, Lost
    <3>2. ~Held(t.intent)'
      BY <2>1, <3>1 DEF CancelPaymentIntent, Cancelable, Held, StatusInv, TypeOK,
             IntentsTypeOK, Call, stripeVars
    <3> QED
      BY <2>1, <3>2
  <2> QED
    BY <2>1, <2>2
<1>4. CASE \A t \in deferred : ~RunDeferred(t) /\ ~LoseDeferred(t)
  <2>1. deferred \subseteq deferred'
    BY <1>4 DEF Next, vars, CreateOrder, SellerStep, MarkReady, CancelOrder, NoShow,
           ConfirmPickup, HandOver, PickupFails, RefundOrder, SubscriberStep,
           SubscribeAdmit, SubscribeRefuse, SubscribeCommit, SubscribeRollback,
           BuyerSetStatus, BuyerCancel, SellerCancelStep, SellerCancelEmpty,
           SellerCancelRead, SellerCancelApply, SellerCancelAbort, Webhook,
           BillingStep, BillingScan, BillingCharge, BillingCrash, BillingStore,
           BillingFail, PassCutoff, Expire, Defer
  <2> QED
    BY <1>2, <2>1
<1> QED
  BY <1>1, <1>3, <1>4 DEF HoldsShrink

(* An order whose row is not written keeps what is known of its hold.       *)
LEMMA HoldKept ==
  ASSUME StatusInv, HoldsShrink, NEW o \in Order, HoldKnown(o),
         orders'[o].status = orders[o].status,
         orders'[o].intent = orders[o].intent,
         orders'[o].payment = orders[o].payment
  PROVE  HoldKnown(o)'
<1> DEFINE p == orders[o].intent
<1> SUFFICES ASSUME Held(p)'
             PROVE  /\ orders[o].status \in Open => orders[o].payment = "authorized"
                    /\ orders[o].status = "canceled" => Releasing(p)'
  BY DEF HoldKnown, Held, Releasing
<1>1. p \in Intent
  BY RowsTyped DEF Held, StatusInv, TypeOK
<1>2. Held(p)
  BY <1>1 DEF HoldsShrink
<1>3. ASSUME Releasing(p) PROVE Releasing(p)'
  BY <1>3 DEF Releasing, HoldsShrink
<1> QED
  BY <1>2, <1>3 DEF HoldKnown

(* Where the hold is, a webhook finds nothing to do.                        *)
LEMMA WebhookNeedsNoHold ==
  ASSUME NoLooseEnds, NEW o \in Order, NEW e \in Event, Webhook(o, e),
         Held(orders[o].intent)
  PROVE  orders[o].payment # "authorized"
BY DEF NoLooseEnds, Webhook, Held, Sent, EventPayment, Event,
       ValidPaymentTransition

LEMMA HoldStep ==
  ASSUME NoLooseEnds, StatusInv, MoneyInv, HoldsKnown, [Next]_vars
  PROVE  HoldsKnown'
<1> USE DEF StatusInv, TypeOK
<1>h. HoldsShrink
  BY HoldsOnlyShrink
<1>0. SUFFICES ASSUME NEW o \in Order, orders'[o] # orders[o]
               PROVE  HoldKnown(o)'
  BY <1>h, HoldKept DEF HoldsKnown
<1>p. orders[o].intent \in Intent \cup {NoIntent} /\ HoldKnown(o)
  BY RowsTyped DEF HoldsKnown
<1>r. ASSUME NEW p \in Intent \cup {NoIntent}, Defer("cancel", p, 0), Held(p)'
      PROVE  Releasing(p)'
  <2> DEFINE t == [op |-> "cancel", intent |-> p, amount |-> 0]
  <2>1. p # NoIntent
    BY <1>r DEF Held
  <2>2. t \in deferred' /\ t.op = "cancel" /\ t.intent = p
    BY <1>r, <2>1 DEF Defer
  <2> QED
    BY <2>2 DEF Releasing
<1>1. CASE CreateOrder(o) \/ (o \in SubOrder /\ SubscribeCommit(o))
  <2>1. orders'[o].status = "placed" /\ orders'[o].payment = "authorized"
    BY <1>1 DEF CreateOrder, SubscribeCommit, Insert, NoLooseEnds
  <2> QED
    BY <2>1 DEF HoldKnown
<1>2. CASE MarkReady(o)
  <2>1. /\ orders[o].status = "placed"
        /\ orders'[o].status = "ready"
        /\ orders'[o].payment = orders[o].payment
        /\ orders'[o].intent = orders[o].intent
        /\ UNCHANGED intent
    BY <1>2 DEF MarkReady, Row, stripeVars
  <2> QED
    BY <1>p, <2>1 DEF HoldKnown, Held, Open
<1>3. CASE CancelOrder(o)
  <2>1. /\ orders'[o].status = "canceled"
        /\ orders'[o].intent = orders[o].intent
    BY <1>3 DEF CancelOrder, Row
  <2> QED
    BY <1>3, <1>p, <1>r, <2>1 DEF CancelOrder, HoldKnown, Held, Releasing, Open
<1>4. CASE (\E waive \in BOOLEAN : NoShow(o, waive)) \/ ConfirmPickup(o)
  <2>1. ASSUME NEW paid, NEW amount,
               orders' = [orders EXCEPT ![o].status = "no_show",
                                        ![o].payment = paid,
                                        ![o].captured = amount]
        PROVE  orders'[o].status = "no_show"
    BY <2>1 DEF Row
  <2>2. ASSUME NEW waive \in BOOLEAN, NoShow(o, waive)
        PROVE  orders'[o].status = "no_show"
    BY <2>1, <2>2 DEF NoShow
  <2>3. ASSUME NEW p, HandOver(o, p)
        PROVE  orders'[o].status = "picked_up"
    BY <2>3 DEF HandOver
  <2>4. orders'[o].status \in {"no_show", "picked_up"}
    BY <1>4, <2>2, <2>3 DEF ConfirmPickup
  <2> QED
    BY <2>4 DEF HoldKnown, Open
<1>5. ASSUME NEW e \in Event, Webhook(o, e)
      PROVE  HoldKnown(o)'
  <2>1. /\ orders'[o].intent = orders[o].intent
        /\ orders'[o].status \in {orders[o].status, "canceled"}
        /\ orders[o].status # "placed" => orders'[o].status = orders[o].status
        /\ UNCHANGED <<intent, deferred>>
    BY <1>5 DEF Webhook, Row, stripeVars
  <2>2. CASE orders[o].status \in Open
    BY <1>5, <1>p, <2>1, <2>2, WebhookNeedsNoHold DEF HoldKnown, Held
  <2>3. CASE orders[o].status \notin Open
    BY <1>p, <2>1, <2>3 DEF HoldKnown, Held, Releasing, Open
  <2> QED
    BY <2>2, <2>3
<1>6. CASE o \in SubOrder /\ BuyerCancel(o)
  <2>1. /\ orders[o].status \in Open
        /\ orders'[o].status = "canceled"
        /\ orders'[o].intent = orders[o].intent
        /\ orders[o].payment = "authorized" => Defer("cancel", orders[o].intent, 0)
        /\ UNCHANGED intent
    BY <1>6, <1>0 DEF BuyerCancel, IsOpen, Row, stripeVars
  <2> QED
    BY <1>p, <1>r, <2>1 DEF HoldKnown, Held, Releasing, Open
<1>7. \A c \in Pass : scan[c] = {}
  BY DEF NoLooseEnds, MoneyInv, JobsBound, Billed
<1>8. charged = {}
  BY DEF NoLooseEnds, MoneyInv, JobsBound, Billed
<1>9. \/ CreateOrder(o) \/ (o \in SubOrder /\ SubscribeCommit(o))
      \/ MarkReady(o) \/ CancelOrder(o)
      \/ (\E waive \in BOOLEAN : NoShow(o, waive)) \/ ConfirmPickup(o)
      \/ \E e \in Event : Webhook(o, e)
      \/ o \in SubOrder /\ BuyerCancel(o)
  <2>1. ASSUME NEW x \in Order, CreateOrder(x) \/ SellerStep(x)
        PROVE  /\ x = o /\ ~PickupFails(o) /\ ~RefundOrder(o)
    BY <1>0, <2>1 DEF CreateOrder, Insert, SellerStep, MarkReady, CancelOrder,
          NoShow, ConfirmPickup, HandOver, PickupFails, RefundOrder
  <2>2. ASSUME NEW x \in SubOrder, SubscriberStep(x)
        PROVE  x = o /\ (SubscribeCommit(o) \/ BuyerCancel(o))
    BY <1>0, <2>2 DEF SubscriberStep, SubscribeAdmit, SubscribeRefuse,
          SubscribeCommit, Insert, SubscribeRollback, BuyerSetStatus, BuyerCancel
  <2>3. ASSUME NEW x \in Order, NEW e \in Event, Webhook(x, e)
        PROVE  x = o
    BY <1>0, <2>3 DEF Webhook
  <2>4. ASSUME NEW c \in Pass, BillingStep(c)
        PROVE  UNCHANGED orders
    BY <2>4 DEF BillingStep, BillingScan, BillingCharge, BillingCrash
  <2>5. ASSUME NEW t \in deferred, RunDeferred(t) \/ LoseDeferred(t)
        PROVE  UNCHANGED orders
    BY <2>5 DEF RunDeferred, LoseDeferred
  <2>6. PassCutoff \/ (\E p \in Intent : Expire(p)) \/ UNCHANGED vars
          => UNCHANGED orders
    BY DEF PassCutoff, Expire, vars
  <2>7. Closable = {}
    BY DEF NoLooseEnds
  <2> QED
    BY <1>0, <1>8, <2>1, <2>2, <2>3, <2>4, <2>5, <2>6, <2>7 DEF Next, SellerStep
<1> QED
  BY <1>1, <1>2, <1>3, <1>4, <1>5, <1>6, <1>9

(* CanceledReleases: where cards are held at checkout, subscriptions end    *)
(* by their buyers, and calls to Stripe are carried out, a canceled order   *)
(* never leaves the card held without the call that releases it, whichever  *)
(* of seller, buyer and webhook cancels first and however often a checkout  *)
(* was submitted.                                                           *)
THEOREM CanceledReleases ==
  ASSUME NoLooseEnds
  PROVE  Spec => []CanceledHoldsNothing
<1>1. Init => HoldsKnown
  BY DEF Init, NoRow, HoldsKnown, HoldKnown, Held
<1>2. StatusInv /\ MoneyInv /\ HoldsKnown /\ [Next]_vars => HoldsKnown'
  BY HoldStep
<1>3. HoldsKnown => CanceledHoldsNothing
  BY DEF HoldsKnown, HoldKnown, CanceledHoldsNothing, Releasing
<1> QED
  BY <1>1, <1>2, <1>3, MoneyInvariant, PTL DEF Spec
-----------------------------------------------------------------------------
(* The money behind "paid".  A row says paid before anything was taken, so  *)
(* PaidIsCovered is about what is still to come, and it needs every hold    *)
(* and every call to be there when its turn comes.  Each of these fails it: *)
(* a stopped handler or a lost call forgets the capture, a lapsed hold or a *)
(* card that asks for the buyer leaves nothing to capture, and of two       *)
(* requests for one checkout the second cancels the hold of the first.      *)
Calm ==
  /\ Faults \cap {"crash", "lost_call", "expiry", "action"} = {}
  /\ \A a, b \in Order : SameCheckout[a] = SameCheckout[b] => a = b

(* An order that may still be placed or settled: nothing is about to take   *)
(* its holds, and an authorization that Stripe granted is one.              *)
Unsettled(o) == orders[o].status \in Open \cup {"none"}
HoldsSafe(o) ==
  Unsettled(o) => \A p \in Own(o) :
    /\ ~Releasing(p)
    /\ o \in SetupCheckout /\ reply[p] = "requires_capture" => Held(p)

(* An open order has its hold or waits for one; a paid one is covered.      *)
OpenHeld(o) ==
  orders[o].status \in Open =>
    /\ orders[o].payment # "paid"
    /\ IF orders[o].intent = NoIntent THEN orders[o].payment = "pending"
       ELSE Held(orders[o].intent)

CaptureOf(o) ==
  [op |-> "capture", intent |-> orders[o].intent, amount |-> orders[o].captured]

PaidHeld(o) ==
  orders[o].payment = "paid" =>
    /\ orders[o].intent # NoIntent
    /\ \/ Captured(orders[o].intent)
       \/ /\ Held(orders[o].intent)
          /\ ~Releasing(orders[o].intent)
          /\ CaptureOf(o) \in deferred

RowCovered(o) == OpenHeld(o) /\ PaidHeld(o)

(* What requests and billing passes have in hand is true at Stripe.         *)
RequestsHeld == \A o \in admitted \ SetupCheckout : Held(CheckoutOf(o))

AnswersHeld ==
  /\ \A p \in Intent : reply[p] # "requires_action"
  /\ \A x \in charged :
       /\ x.outcome # "requires_action"
       /\ x.outcome = "store" => reply[BillingAuth(x.order)] = "requires_capture"

CoverInv ==
  /\ \A o \in Order : HoldsSafe(o) /\ RowCovered(o)
  /\ RequestsHeld
  /\ AnswersHeld

(* The same order owns an intent wherever it turns up.                      *)
LEMMA OwnDisjoint ==
  ASSUME Calm, NEW a \in Order, NEW b \in Order, NEW p, p \in Own(a), p \in Own(b)
  PROVE  a = b
BY OrdersAssumption
   DEF Calm, Own, CheckoutOf, Checkout, BillingAuth, JitAuth

(* Nothing was captured, or is about to be, for an order not yet settled.   *)
LEMMA UnsettledUntouched ==
  ASSUME Calm, MoneyInv, NEW o \in Order, Unsettled(o), NEW p \in Own(o)
  PROVE  ~Touched(p)
<1> SUFFICES ASSUME Touched(p) PROVE FALSE
  OBVIOUS
<1>1. PICK w \in Order : p \in Own(w) /\ Settled(w)
  BY OwnType DEF MoneyInv, SettledOnce
<1>2. w = o
  BY <1>1, OwnDisjoint
<1> QED
  BY <1>1, <1>2 DEF Settled, Unsettled, Open, MoneyInv, SettledOnce
-----------------------------------------------------------------------------
(* What a step does to holds, calls and answers.                            *)

(* A request that ends without an order cancels the hold of its checkout.   *)
Voided(p) ==
  \E x \in Order \ SetupCheckout :
    /\ p = CheckoutOf(x)
    /\ orders[x].status = "none"
    /\ x \notin admitted'

HoldsMove ==
  \A p \in Intent : Held(p) =>
    \/ Held(p)'
    \/ Capturing(p) # {} /\ Captured(p)'
    \/ Releasing(p)
    \/ Voided(p)

AnswersMove ==
  \A p \in Intent :
    \/ reply'[p] = reply[p]
    \/ /\ reply[p] = "none"
       /\ reply'[p] # "requires_action"
       /\ reply'[p] = "requires_capture" => Held(p)'

(* A capture of a hold takes the money, and a release follows the row that  *)
(* gave the order up.                                                       *)
CapturesMade ==
  \A t \in deferred \ deferred' :
    t.op = "capture" /\ Held(t.intent) => Captured(t.intent)'

ReleasesFollow ==
  \A t \in deferred' \ deferred :
    t.op = "cancel" =>
      \E w \in Order : /\ t.intent = orders'[w].intent
                       /\ t.intent # NoIntent
                       /\ orders'[w].status \in Terminal
                       /\ orders'[w].payment = "voided"

CalmStep == HoldsMove /\ AnswersMove /\ CapturesMade /\ ReleasesFollow

LEMMA StripeQuiet ==
  ASSUME UNCHANGED stripeVars
  PROVE  HoldsMove /\ AnswersMove
BY DEF stripeVars, HoldsMove, AnswersMove, Held

LEMMA DeferredQuiet ==
  ASSUME UNCHANGED deferred
  PROVE  CapturesMade /\ ReleasesFollow
BY DEF CapturesMade, ReleasesFollow

(* Stripe answers an off-session authorization.                             *)
LEMMA AuthorizationCalm ==
  ASSUME Calm, IntentsTypeOK, StripeBound, AnswersHeld, NEW o \in Order,
         NEW p \in {BillingAuth(o), JitAuth(o)}, NEW seen \in Reply,
         CreateOffSessionAuthorization(p, seen)
  PROVE  /\ HoldsMove /\ AnswersMove
         /\ seen # "requires_action"
         /\ seen = "requires_capture" =>
              /\ reply'[p] = "requires_capture"
              /\ Held(p)' \/ (reply[p] = "requires_capture" /\ UNCHANGED stripeVars)
<1>p. p \in Intent /\ p # NoIntent
  BY KeysInIntent, NoIntentAssumption
<1>1. ASSUME NEW answer \in Reply, Execute(p, answer)
      PROVE  /\ HoldsMove /\ AnswersMove
             /\ answer # "requires_action"
             /\ reply'[p] = answer
             /\ answer = "requires_capture" => Held(p)'
  <2>1. /\ answer \in {"requires_capture", "error"}
        /\ reply' = [reply EXCEPT ![p] = answer]
        /\ intent' = [intent EXCEPT
                        ![p] = IF answer = "error" THEN "declined" ELSE answer]
        /\ reply[p] = "none" /\ intent[p] = "none"
    BY <1>1 DEF Execute, Possible, Calm, Reply, StripeBound
  <2>2. /\ reply'[p] = answer
        /\ intent'[p] = IF answer = "error" THEN "declined" ELSE answer
        /\ \A q \in Intent \ {p} : reply'[q] = reply[q] /\ intent'[q] = intent[q]
    BY <1>p, <2>1 DEF IntentsTypeOK
  <2>3. answer = "requires_capture" => Held(p)'
    BY <1>p, <2>2 DEF Held
  <2>4. HoldsMove
    BY <2>1, <2>2 DEF HoldsMove, Held
  <2>5. AnswersMove
    BY <2>1, <2>2, <2>3 DEF AnswersMove
  <2> QED
    BY <2>1, <2>2, <2>3, <2>4, <2>5
<1>2. ASSUME NEW answer \in Reply, Replay(p, answer)
      PROVE  /\ HoldsMove /\ AnswersMove
             /\ answer # "requires_action"
             /\ reply[p] = answer /\ reply'[p] = answer
             /\ UNCHANGED stripeVars
  BY <1>p, <1>2, StripeQuiet DEF Replay, AnswersHeld, stripeVars
<1>3. ASSUME NEW answer \in Reply, Answer(p, answer)
      PROVE  /\ HoldsMove /\ AnswersMove
             /\ answer # "requires_action"
             /\ answer = "requires_capture" =>
                  /\ reply'[p] = "requires_capture"
                  /\ \/ Held(p)'
                     \/ reply[p] = "requires_capture" /\ UNCHANGED stripeVars
  BY <1>1, <1>2, <1>3 DEF Answer
<1>4. CASE Answer(p, seen)
  BY <1>3, <1>4
<1>5. CASE seen = "error"
  BY <1>3, <1>5, StripeQuiet DEF CreateOffSessionAuthorization
<1> QED
  BY <1>4, <1>5 DEF CreateOffSessionAuthorization

(* A call after the commit.                                                 *)
LEMMA RunCalm ==
  ASSUME Calm, StatusInv, NEW t \in deferred, RunDeferred(t)
  PROVE  CalmStep
<1> USE DEF StatusInv, TypeOK
<1>t. /\ t \in Call /\ t.intent \in Intent /\ t.intent # NoIntent
      /\ deferred' = deferred \ {t}
      /\ ~Lost
  BY NoIntentAssumption DEF Call, RunDeferred, Lost, Calm
<1>1. ReleasesFollow
  BY <1>t DEF ReleasesFollow
<1>2. CASE UNCHANGED stripeVars /\ (t.op = "capture" => ~Held(t.intent))
  BY <1>t, <1>1, <1>2, StripeQuiet DEF CalmStep, CapturesMade
<1>3. CASE /\ t.op = "cancel" /\ UNCHANGED reply
           /\ intent' = [intent EXCEPT ![t.intent] = "canceled"]
  <2>1. HoldsMove
    BY <1>t, <1>3 DEF HoldsMove, Held, Releasing, IntentsTypeOK
  <2> QED
    BY <1>t, <1>1, <1>3, <2>1 DEF CalmStep, AnswersMove, CapturesMade
<1>4. CASE /\ t.op = "capture" /\ UNCHANGED reply
           /\ intent' = [intent EXCEPT ![t.intent] = "succeeded"]
  <2>1. Captured(t.intent)'
    BY <1>t, <1>4 DEF Captured, IntentsTypeOK
  <2>2. HoldsMove
    BY <1>t, <1>4, <2>1 DEF HoldsMove, Held, Capturing, IntentsTypeOK
  <2> QED
    BY <1>t, <1>1, <1>4, <2>1, <2>2 DEF CalmStep, AnswersMove, CapturesMade
<1>5. CASE /\ t.op = "refund" /\ UNCHANGED reply
           /\ intent[t.intent] = "succeeded"
           /\ intent' = [intent EXCEPT ![t.intent] = "refunded"]
  <2>1. HoldsMove
    BY <1>t, <1>5 DEF HoldsMove, Held, IntentsTypeOK
  <2> QED
    BY <1>t, <1>1, <1>5, <2>1 DEF CalmStep, AnswersMove, CapturesMade
<1> QED
  BY <1>t, <1>2, <1>3, <1>4, <1>5
     DEF RunDeferred, CancelPaymentIntent, CaptureAuthorization, Refund

(* A request that is refused, or finds no unit left.                        *)
LEMMA VoidCalm ==
  ASSUME StatusInv, NEW x \in Order, VoidCheckout(x), orders[x].status = "none",
         x \notin admitted', UNCHANGED deferred
  PROVE  CalmStep
<1> USE DEF StatusInv, TypeOK
<1>1. CASE UNCHANGED stripeVars
  BY <1>1, StripeQuiet, DeferredQuiet DEF CalmStep
<1>2. CASE /\ x \notin SetupCheckout
           /\ intent' = [intent EXCEPT ![CheckoutOf(x)] = "canceled"]
           /\ UNCHANGED reply
  <2>1. HoldsMove
    BY <1>2 DEF HoldsMove, Held, Voided, IntentsTypeOK
  <2> QED
    BY <1>2, <2>1, DeferredQuiet DEF CalmStep, AnswersMove
<1> QED
  BY <1>1, <1>2 DEF VoidCheckout, CancelPaymentIntent, Lost

(* A handler that defers a call makes none itself.                          *)
LEMMA DeferCalm ==
  ASSUME NEW o \in Order, NEW op, NEW p, NEW amount, Defer(op, p, amount),
         op = "cancel" => /\ p = orders'[o].intent
                          /\ orders'[o].status \in Terminal
                          /\ orders'[o].payment = "voided"
  PROVE  CapturesMade /\ ReleasesFollow
<1>1. CASE p = NoIntent
  BY <1>1, DeferredQuiet DEF Defer
<1>2. CASE p # NoIntent
  <2> DEFINE t == [op |-> op, intent |-> p, amount |-> amount]
  <2>1. deferred' = deferred \cup {t} /\ t.op = op /\ t.intent = p
    BY <1>2 DEF Defer
  <2> HIDE DEF t
  <2> QED
    BY <1>2, <2>1 DEF CapturesMade, ReleasesFollow
<1> QED
  BY <1>1, <1>2

LEMMA PlacingCalm ==
  ASSUME StatusInv, NEW o \in Order,
         \/ CreateOrder(o)
         \/ o \in SubOrder /\ SubscribeAdmit(o)
         \/ o \in SubOrder /\ SubscribeRefuse(o)
         \/ o \in SubOrder /\ SubscribeCommit(o)
         \/ o \in SubOrder /\ SubscribeRollback(o)
  PROVE  CalmStep
<1>1. CASE SubscribeRefuse(o)
  BY <1>1, VoidCalm DEF SubscribeRefuse, SubscribeVerified, requestVars
<1>2. CASE SubscribeRollback(o) /\ VoidCheckout(o)
  BY <1>2, VoidCalm DEF SubscribeRollback, StatusInv, RequestsCurrent
<1>3. CASE SubscribeRollback(o) /\ UNCHANGED stripeVars
  BY <1>3, StripeQuiet, DeferredQuiet DEF CalmStep, SubscribeRollback
<1>4. CASE CreateOrder(o) \/ SubscribeAdmit(o) \/ SubscribeCommit(o)
  BY <1>4, StripeQuiet, DeferredQuiet
     DEF CalmStep, CreateOrder, SubscribeAdmit, SubscribeCommit
<1> QED
  BY <1>1, <1>2, <1>3, <1>4 DEF SubscribeRollback

LEMMA SellerCalm ==
  ASSUME Calm, StatusInv, MoneyInv, AnswersHeld, NEW o \in Order, SellerStep(o)
  PROVE  CalmStep
<1> USE DEF StatusInv, TypeOK, CalmStep
<1>1. CASE MarkReady(o)
  BY <1>1, StripeQuiet, DeferredQuiet DEF MarkReady
<1>2. CASE CancelOrder(o)
  <2>1. /\ orders'[o].intent = orders[o].intent
        /\ orders'[o].status = "canceled"
        /\ orders'[o].payment = "voided"
    BY <1>2 DEF CancelOrder, Row
  <2> QED
    BY <1>2, <2>1, StripeQuiet, DeferCalm DEF CancelOrder, Terminal
<1>3. ASSUME NEW waive \in BOOLEAN, NoShow(o, waive)
      PROVE  CalmStep
  <2> DEFINE charge == ChargesFee(o, waive)
             paid == IF charge THEN "paid" ELSE "voided"
             amount == IF charge THEN FeeFor(o) ELSE 0
  <2>1. orders' = [orders EXCEPT ![o].status = "no_show",
                                 ![o].payment = paid,
                                 ![o].captured = amount]
    BY <1>3 DEF NoShow
  <2>2. /\ orders'[o].status = "no_show"
        /\ orders'[o].payment = paid
        /\ orders'[o].intent = orders[o].intent
    <3> HIDE DEF paid, amount
    <3> QED
      BY <2>1 DEF Row
  <2>3. CASE charge
    BY <1>3, <2>3, StripeQuiet, DeferCalm DEF NoShow
  <2>4. CASE ~charge
    BY <1>3, <2>2, <2>4, StripeQuiet, DeferCalm DEF NoShow, Terminal
  <2> QED
    BY <2>3, <2>4
<1>4. CASE ConfirmPickup(o)
  <2>1. ASSUME NEW p, HandOver(o, p)
        PROVE  CapturesMade /\ ReleasesFollow
    BY <2>1, DeferCalm DEF HandOver
  <2>2. HoldsMove /\ AnswersMove
    BY <1>4, StripeQuiet, AuthorizationCalm DEF ConfirmPickup, MoneyInv
  <2> QED
    BY <1>4, <2>1, <2>2 DEF ConfirmPickup
<1>5. CASE PickupFails(o)
  <2>1. HoldsMove /\ AnswersMove
    BY <1>5, AuthorizationCalm DEF PickupFails, MoneyInv, Reply
  <2> QED
    BY <1>5, <2>1, DeferredQuiet DEF PickupFails
<1>6. CASE RefundOrder(o)
  BY <1>6, StripeQuiet, DeferCalm DEF RefundOrder
<1> QED
  BY <1>1, <1>2, <1>3, <1>4, <1>5, <1>6 DEF SellerStep

LEMMA SubscriptionCalm ==
  ASSUME StatusInv, NEW o \in SubOrder,
         \/ \E new \in {"active", "paused"} : BuyerSetStatus(o, new)
         \/ BuyerCancel(o)
         \/ o \in Closable /\ SellerCancelStep(o)
  PROVE  CalmStep
<1> USE DEF StatusInv, TypeOK, CalmStep
<1>o. o \in Order
  BY OrdersAssumption
<1>1. CASE BuyerCancel(o) /\ ~UNCHANGED deferred
  <2> DEFINE m == IF orders[o].intent = NoIntent
                  THEN orders[o].payment ELSE "voided"
  <2>1. /\ orders' = [orders EXCEPT ![o].status = "canceled", ![o].payment = m]
        /\ Defer("cancel", orders[o].intent, 0)
        /\ UNCHANGED stripeVars
    BY <1>1, <1>o DEF BuyerCancel, Row
  <2>2. orders[o].intent # NoIntent
    BY <1>1, <2>1 DEF Defer
  <2>3. /\ orders'[o].status = "canceled"
        /\ orders'[o].payment = m
        /\ orders'[o].intent = orders[o].intent
    <3> HIDE DEF m
    <3> QED
      BY <1>o, <2>1 DEF Row
  <2> QED
    BY <1>o, <2>1, <2>2, <2>3, StripeQuiet, DeferCalm DEF Terminal
<1>2. CASE UNCHANGED <<stripeVars, deferred>>
  BY <1>2, StripeQuiet, DeferredQuiet
<1> QED
  BY <1>1, <1>2
     DEF BuyerSetStatus, BuyerCancel, SellerCancelStep, SellerCancelEmpty,
         SellerCancelRead, SellerCancelAbort, SellerCancelApply

LEMMA BillingCalm ==
  ASSUME Calm, StatusInv, MoneyInv, AnswersHeld,
         \/ \E c \in Pass : BillingStep(c)
         \/ \E x \in charged : BillingStore(x) \/ BillingFail(x)
  PROVE  CalmStep
<1> USE DEF StatusInv, TypeOK, CalmStep
<1>1. ASSUME NEW c \in Pass, NEW o \in SubOrder, BillingCharge(c, o)
      PROVE  CalmStep
  <2>1. HoldsMove /\ AnswersMove
    BY <1>1, AuthorizationCalm, OrdersAssumption DEF BillingCharge, MoneyInv
  <2> QED
    BY <1>1, <2>1, DeferredQuiet DEF BillingCharge
<1>2. CASE UNCHANGED <<stripeVars, deferred>>
  BY <1>2, StripeQuiet, DeferredQuiet
<1>3. ASSUME NEW x \in charged, BillingFail(x)
      PROVE  UNCHANGED <<stripeVars, deferred>>
  BY <1>3 DEF BillingFail, AnswersHeld
<1> QED
  BY <1>1, <1>2, <1>3
     DEF BillingStep, BillingScan, BillingCrash, BillingStore

LEMMA StepCalm ==
  ASSUME Calm, StatusInv, MoneyInv, AnswersHeld, [Next]_vars
  PROVE  CalmStep
<1>1. CASE \E o \in Order : CreateOrder(o) \/ SellerStep(o)
  BY <1>1, PlacingCalm, SellerCalm
<1>2. CASE \E o \in SubOrder : SubscriberStep(o)
  BY <1>2, PlacingCalm, SubscriptionCalm, OrdersAssumption DEF SubscriberStep
<1>3. CASE \E o \in Closable : SellerCancelStep(o)
  BY <1>3, SubscriptionCalm, OrdersAssumption
<1>4. CASE \/ \E c \in Pass : BillingStep(c)
           \/ \E x \in charged : BillingStore(x) \/ BillingFail(x)
  BY <1>4, BillingCalm
<1>5. CASE \E t \in deferred : RunDeferred(t)
  BY <1>5, RunCalm
<1>6. CASE UNCHANGED <<stripeVars, deferred>>
  BY <1>6, StripeQuiet, DeferredQuiet DEF CalmStep
<1>7. /\ \A o \in Order, e \in Event :
           Webhook(o, e) => UNCHANGED <<stripeVars, deferred>>
      /\ PassCutoff => UNCHANGED <<stripeVars, deferred>>
      /\ UNCHANGED vars => UNCHANGED <<stripeVars, deferred>>
  BY DEF Webhook, PassCutoff, vars
<1>8. /\ \A t \in deferred : ~LoseDeferred(t)
      /\ \A p \in Intent : ~Expire(p)
  BY DEF Calm, LoseDeferred, Expire, ExpireHold
<1> QED
  BY <1>1, <1>2, <1>3, <1>4, <1>5, <1>6, <1>7, <1>8 DEF Next
-----------------------------------------------------------------------------
(* The invariant is kept, part by part.                                     *)

(* The owner of an intent that a release follows has been given up.         *)
LEMMA ReleaseOf ==
  ASSUME Calm, MoneyInv', ReleasesFollow, NEW o \in Order, NEW p, p \in Own(o),
         ~Releasing(p), Releasing(p)'
  PROVE  orders'[o].status \in Terminal /\ orders'[o].payment = "voided"
<1>1. PICK t \in deferred' \ deferred : t.op = "cancel" /\ t.intent = p
  BY DEF Releasing
<1>2. PICK w \in Order : /\ t.intent = orders'[w].intent
                         /\ t.intent # NoIntent
                         /\ orders'[w].status \in Terminal
                         /\ orders'[w].payment = "voided"
  BY <1>1 DEF ReleasesFollow
<1>3. p \in Own(w)
  BY <1>1, <1>2 DEF MoneyInv, IntentsBound, Own
<1>4. w = o
  BY <1>3, OwnDisjoint
<1> QED
  BY <1>2, <1>4

(* A request voids a hold only if no order has been placed on it.           *)
LEMMA VoidedOf ==
  ASSUME Calm, NEW o \in Order, NEW p, p \in Own(o), Voided(p)
  PROVE  o \notin SetupCheckout /\ orders[o].status = "none" /\ o \notin admitted'
<1>1. PICK x \in Order \ SetupCheckout :
        /\ p = CheckoutOf(x)
        /\ orders[x].status = "none"
        /\ x \notin admitted'
  BY DEF Voided
<1>2. p \in Own(x)
  BY <1>1 DEF Own
<1>3. x = o
  BY <1>1, <1>2, OwnDisjoint
<1> QED
  BY <1>1, <1>3

LEMMA UnsettledBefore ==
  ASSUME StatusInv, BookStep, NEW o \in Order, Unsettled(o)'
  PROVE  Unsettled(o)
BY DEF Unsettled, Open, Terminal, BookStep, Kept, BookChange, Placing, Readying,
       Closing, Collecting, LateClosing, Turned

(* The hold of an order not yet settled survives the step.                  *)
LEMMA HoldSurvives ==
  ASSUME Calm, MoneyInv, CalmStep, NEW o \in Order, Unsettled(o), HoldsSafe(o),
         NEW p \in Own(o), Held(p),
         \/ o \in SetupCheckout
         \/ orders[o].status # "none"
         \/ o \in admitted'
  PROVE  Held(p)'
<1>1. p \in Intent
  BY OwnType
<1>2. ~Releasing(p) /\ Capturing(p) = {}
  BY UnsettledUntouched DEF HoldsSafe, Touched
<1>3. ~Voided(p)
  BY VoidedOf
<1> QED
  BY <1>1, <1>2, <1>3 DEF CalmStep, HoldsMove

LEMMA HoldsSafeStep ==
  ASSUME Calm, StatusInv, MoneyInv, MoneyInv', BookStep, CalmStep,
         NEW o \in Order, HoldsSafe(o)
  PROVE  HoldsSafe(o)'
<1> SUFFICES ASSUME Unsettled(o)', NEW p \in Own(o)
             PROVE  /\ ~Releasing(p)'
                    /\ o \in SetupCheckout /\ reply'[p] = "requires_capture"
                         => Held(p)'
  BY DEF HoldsSafe, Own, CheckoutOf
<1>1. Unsettled(o)
  BY UnsettledBefore
<1>2. ~Releasing(p)'
  <2>1. ~Releasing(p)
    BY <1>1 DEF HoldsSafe
  <2>2. orders'[o].status \notin Terminal
    BY DEF Unsettled, Open, Terminal
  <2> QED
    BY <2>1, <2>2, ReleaseOf DEF CalmStep
<1>3. ASSUME o \in SetupCheckout, reply'[p] = "requires_capture"
      PROVE  Held(p)'
  <2>1. CASE reply[p] = "requires_capture"
    <3>1. Held(p)
      BY <1>1, <1>3, <2>1 DEF HoldsSafe
    <3> QED
      BY <1>1, <1>3, <3>1, HoldSurvives
  <2>2. CASE reply[p] # "requires_capture"
    BY <1>3, <2>2, OwnType DEF CalmStep, AnswersMove
  <2> QED
    BY <2>1, <2>2
<1> QED
  BY <1>2, <1>3

(* A paid order stays covered by a step that leaves its row's money alone.  *)
LEMMA PaidStays ==
  ASSUME Calm, MoneyInv, MoneyInv', MoneyStep, CalmStep, NEW o \in Order,
         PaidHeld(o),
         orders'[o].payment = orders[o].payment,
         orders'[o].intent = orders[o].intent,
         orders'[o].captured = orders[o].captured
  PROVE  PaidHeld(o)'
<1> SUFFICES ASSUME orders[o].payment = "paid" PROVE PaidHeld(o)'
  BY DEF PaidHeld
<1> DEFINE p == orders[o].intent
           t == CaptureOf(o)
<1>p. /\ p # NoIntent /\ p \in Own(o) /\ p \in Intent
      /\ orders[o].status # "none"
      /\ t.op = "capture" /\ t.intent = p /\ CaptureOf(o)' = t
  BY OwnType DEF PaidHeld, MoneyInv, IntentsBound, CaptureOf
<1> HIDE DEF p, t
<1> USE DEF p
<1>1. CASE Captured(p)'
  BY <1>p, <1>1 DEF PaidHeld, Captured
<1>2. CASE ~Captured(p)'
  <2>1. ~Captured(p)
    BY <1>p, <1>2 DEF MoneyStep, StripeMoves, IntentMove, Captured
  <2>2. Held(p) /\ ~Releasing(p) /\ t \in deferred
    BY <2>1 DEF PaidHeld, t
  <2>3. t \in deferred'
    BY <1>p, <1>2, <2>2 DEF CalmStep, CapturesMade
  <2>4. ~Releasing(p)'
    BY <1>p, <2>2, ReleaseOf DEF CalmStep
  <2>5. ~Voided(p)
    BY <1>p, VoidedOf
  <2>6. Held(p)'
    BY <1>p, <1>2, <2>2, <2>5 DEF CalmStep, HoldsMove
  <2> QED
    BY <1>p, <2>3, <2>4, <2>6 DEF PaidHeld, Held, Releasing
<1> QED
  BY <1>1, <1>2

LEMMA RowStays ==
  ASSUME Calm, MoneyInv, MoneyInv', MoneyStep, CalmStep, NEW o \in Order,
         HoldsSafe(o), RowCovered(o), orders'[o] = orders[o]
  PROVE  RowCovered(o)'
<1>1. PaidHeld(o)'
  BY PaidStays DEF RowCovered
<1>2. ASSUME orders[o].status \in Open, orders[o].intent # NoIntent
      PROVE  Held(orders[o].intent)'
  <2>1. orders[o].intent \in Own(o) /\ Held(orders[o].intent)
    BY <1>2 DEF RowCovered, OpenHeld, MoneyInv, IntentsBound
  <2>2. Unsettled(o) /\ orders[o].status # "none"
    BY <1>2 DEF Unsettled, Open
  <2>3. ASSUME NEW p \in Own(o), Held(p) PROVE Held(p)'
    BY <2>2, <2>3, HoldSurvives
  <2>4. ASSUME NEW p \in Own(o), p = orders[o].intent, Held(p)'
        PROVE  Held(orders[o].intent)'
    BY <2>4 DEF Held
  <2> QED
    BY <2>1, <2>3, <2>4
<1>3. OpenHeld(o)'
  BY <1>2 DEF RowCovered, OpenHeld, Held
<1> QED
  BY <1>1, <1>3 DEF RowCovered

(* A row that is no longer open and not paid promises nothing.              *)
LEMMA RowClosed ==
  ASSUME NEW o \in Order, orders'[o].status \notin Open,
         orders'[o].payment # "paid"
  PROVE  RowCovered(o)'
BY DEF RowCovered, OpenHeld, PaidHeld

(* A row whose hold is there.                                               *)
LEMMA RowHeld ==
  ASSUME NEW o \in Order, NEW p, orders'[o].intent = p, Held(p)',
         orders'[o].payment # "paid"
  PROVE  RowCovered(o)'
BY DEF RowCovered, OpenHeld, PaidHeld, Held

(* The settlement of an order asks for the capture of its hold.             *)
LEMMA RowSettled ==
  ASSUME Calm, MoneyInv', CalmStep, NEW o \in Order, NEW p \in Own(o),
         NEW amount, Defer("capture", p, amount),
         Unsettled(o), HoldsSafe(o), Held(p)',
         orders'[o].status \in Terminal, orders'[o].payment = "paid",
         orders'[o].intent = p, orders'[o].captured = amount
  PROVE  RowCovered(o)'
<1>1. ~Releasing(p)'
  BY ReleaseOf DEF HoldsSafe, CalmStep
<1>2. p # NoIntent /\ CaptureOf(o)' \in deferred'
  BY OwnType DEF Defer, CaptureOf
<1> QED
  BY <1>1, <1>2
     DEF RowCovered, OpenHeld, PaidHeld, Held, Releasing, Open, Terminal

(* Which steps write the row of o.                                          *)
LEMMA RowWrittenBy ==
  ASSUME StatusInv, NEW o \in Order, orders'[o] # orders[o], [Next]_vars
  PROVE  \/ CreateOrder(o) \/ MarkReady(o) \/ CancelOrder(o)
         \/ \E waive \in BOOLEAN : NoShow(o, waive)
         \/ ConfirmPickup(o)
         \/ \E e \in Event : Webhook(o, e)
         \/ o \in SubOrder /\ (SubscribeCommit(o) \/ BuyerCancel(o))
         \/ o \in Closable /\ SellerCancelApply(o)
         \/ \E x \in charged : x.order = o /\ (BillingStore(x) \/ BillingFail(x))
<1> USE DEF StatusInv, TypeOK
<1>1. ASSUME NEW x \in Order, CreateOrder(x) \/ SellerStep(x)
      PROVE  x = o /\ ~PickupFails(o) /\ ~RefundOrder(o)
  BY <1>1 DEF CreateOrder, Insert, SellerStep, MarkReady, CancelOrder, NoShow,
        ConfirmPickup, HandOver, PickupFails, RefundOrder
<1>2. ASSUME NEW x \in SubOrder, SubscriberStep(x)
      PROVE  x = o /\ (SubscribeCommit(o) \/ BuyerCancel(o))
  BY <1>2 DEF SubscriberStep, SubscribeAdmit, SubscribeRefuse,
        SubscribeCommit, Insert, SubscribeRollback, BuyerSetStatus, BuyerCancel
<1>3. ASSUME NEW x \in Closable, SellerCancelStep(x)
      PROVE  x = o /\ SellerCancelApply(o)
  BY <1>3 DEF SellerCancelStep, SellerCancelEmpty, SellerCancelRead,
        SellerCancelApply, SellerCancelAbort
<1>4. ASSUME NEW x \in Order, NEW e \in Event, Webhook(x, e)
      PROVE  x = o
  BY <1>4 DEF Webhook
<1>5. ASSUME NEW x \in charged, BillingStore(x) \/ BillingFail(x)
      PROVE  x.order = o
  BY <1>5 DEF BillingStore, BillingFail
<1>6. /\ \A c \in Pass : BillingStep(c) => UNCHANGED orders
      /\ \A t \in deferred : RunDeferred(t) \/ LoseDeferred(t) => UNCHANGED orders
      /\ \A p \in Intent : Expire(p) => UNCHANGED orders
      /\ PassCutoff \/ UNCHANGED vars => UNCHANGED orders
  BY DEF BillingStep, BillingScan, BillingCharge, BillingCrash, RunDeferred,
         LoseDeferred, Expire, PassCutoff, vars
<1> QED
  BY <1>1, <1>2, <1>3, <1>4, <1>5, <1>6 DEF Next, SellerStep

(* What all cases of the next lemma are given.                              *)
CoverContext ==
  /\ Calm /\ StatusInv /\ MoneyInv /\ MoneyInv'
  /\ MoneyStep /\ CalmStep /\ CoverInv

LEMMA PlacedCovered ==
  ASSUME CoverContext, NEW o \in Order,
         CreateOrder(o) \/ (o \in SubOrder /\ SubscribeCommit(o))
  PROVE  RowCovered(o)'
<1> USE DEF CoverContext, StatusInv, TypeOK
<1>1. ASSUME Held(CheckoutOf(o)), Insert(o, "authorized", CheckoutOf(o)),
             UNCHANGED stripeVars
      PROVE  RowCovered(o)'
  <2>1. /\ orders'[o].payment = "authorized"
        /\ orders'[o].intent = CheckoutOf(o)
        /\ Held(CheckoutOf(o))'
    BY <1>1 DEF Insert, Held, stripeVars, CheckoutOf, Checkout
  <2> QED
    BY <2>1, RowHeld
<1>2. CASE CreateOrder(o)
  BY <1>1, <1>2 DEF CreateOrder
<1>3. CASE SubscribeCommit(o) /\ o \notin SetupCheckout
  BY <1>1, <1>3 DEF SubscribeCommit, CoverInv, RequestsHeld
<1>4. CASE SubscribeCommit(o) /\ o \in SetupCheckout
  <2>1. orders'[o].payment = "pending" /\ orders'[o].intent = NoIntent
    BY <1>4 DEF SubscribeCommit, Insert
  <2> QED
    BY <2>1 DEF RowCovered, OpenHeld, PaidHeld
<1> QED
  BY <1>2, <1>3, <1>4

(* An open order that carries an intent holds it.                           *)
LEMMA OpenIntent ==
  ASSUME MoneyInv, CoverInv, NEW o \in Order, orders[o].status \in Open,
         NEW p, p = orders[o].intent, p # NoIntent
  PROVE  p \in Own(o) /\ Held(p) /\ Unsettled(o) /\ HoldsSafe(o)
BY DEF MoneyInv, IntentsBound, CoverInv, RowCovered, OpenHeld, Unsettled

LEMMA NoShowCovered ==
  ASSUME CoverContext, NEW o \in Order, NEW waive \in BOOLEAN, NoShow(o, waive)
  PROVE  RowCovered(o)'
<1> USE DEF CoverContext, StatusInv, TypeOK
<1> DEFINE charge == ChargesFee(o, waive)
           paid == IF charge THEN "paid" ELSE "voided"
           amount == IF charge THEN FeeFor(o) ELSE 0
<1>1. orders' = [orders EXCEPT ![o].status = "no_show",
                               ![o].payment = paid,
                               ![o].captured = amount]
  BY DEF NoShow
<1>2. /\ orders'[o].status = "no_show"
      /\ orders'[o].payment = paid
      /\ orders'[o].captured = amount
      /\ orders'[o].intent = orders[o].intent
  <2> HIDE DEF paid, amount
  <2> QED
    BY <1>1 DEF Row
<1>3. CASE charge
  <2>1. PICK p : p = orders[o].intent
    OBVIOUS
  <2>2. p # NoIntent
    BY <1>3, <2>1 DEF NoShow, ChargesFee, CoverInv, RowCovered, OpenHeld, Open
  <2>3. p \in Own(o) /\ Held(p) /\ Unsettled(o) /\ HoldsSafe(o)
    BY <2>1, <2>2, OpenIntent DEF NoShow, Open
  <2>4. Held(p)'
    BY <2>3 DEF NoShow, Held, stripeVars
  <2>5. Defer("capture", p, FeeFor(o))
    BY <1>3, <2>1 DEF NoShow
  <2>6. /\ orders'[o].status \in Terminal /\ orders'[o].payment = "paid"
        /\ orders'[o].intent = p /\ orders'[o].captured = FeeFor(o)
    BY <1>2, <1>3, <2>1 DEF Terminal
  <2> QED
    BY <2>3, <2>4, <2>5, <2>6, RowSettled
<1>4. CASE ~charge
  BY <1>2, <1>4, RowClosed DEF Open
<1> QED
  BY <1>3, <1>4

LEMMA PickupCovered ==
  ASSUME CoverContext, NEW o \in Order, ConfirmPickup(o)
  PROVE  RowCovered(o)'
<1> USE DEF CoverContext, StatusInv, TypeOK
<1>o. orders[o].status \in Open /\ Unsettled(o) /\ HoldsSafe(o)
  BY DEF ConfirmPickup, Eligible, IsOpen, Unsettled, CoverInv
<1>1. ASSUME NEW p \in Own(o), Held(p)', HandOver(o, p)
      PROVE  RowCovered(o)'
  <2>1. /\ orders'[o].status = "picked_up" /\ orders'[o].payment = "paid"
        /\ orders'[o].intent = p /\ orders'[o].captured = Total[o]
    BY <1>1 DEF HandOver
  <2>2. Defer("capture", p, Total[o])
    BY <1>1 DEF HandOver
  <2> QED
    BY <1>o, <1>1, <2>1, <2>2, RowSettled DEF Terminal
<1>2. CASE /\ orders[o].intent # NoIntent
           /\ UNCHANGED stripeVars
           /\ HandOver(o, orders[o].intent)
  <2>1. PICK p : p = orders[o].intent
    OBVIOUS
  <2>2. p \in Own(o) /\ Held(p)
    BY <1>o, <1>2, <2>1, OpenIntent
  <2>3. Held(p)'
    BY <1>2, <2>2 DEF Held, stripeVars
  <2> QED
    BY <1>1, <1>2, <2>1, <2>2, <2>3
<1>3. CASE /\ orders[o].intent = NoIntent
           /\ o \in SubOrder
           /\ \E seen \in Reply \ {"error"} :
                CreateOffSessionAuthorization(JitAuth(o), seen)
           /\ HandOver(o, JitAuth(o))
  <2>1. o \in SetupCheckout /\ JitAuth(o) \in Own(o)
    BY <1>o, <1>3 DEF MoneyInv, IntentsBound, Own, Open
  <2>2. PICK seen \in Reply \ {"error"} :
          CreateOffSessionAuthorization(JitAuth(o), seen)
    BY <1>3
  <2>3. seen = "requires_capture"
    BY <2>2, AuthorizationCalm DEF Reply, MoneyInv, CoverInv
  <2>4. \/ Held(JitAuth(o))'
        \/ reply[JitAuth(o)] = "requires_capture" /\ UNCHANGED stripeVars
    BY <2>2, <2>3, AuthorizationCalm DEF MoneyInv, CoverInv
  <2>5. ASSUME reply[JitAuth(o)] = "requires_capture", UNCHANGED stripeVars
        PROVE  Held(JitAuth(o))'
    <3>1. Held(JitAuth(o))
      BY <1>o, <2>1, <2>5 DEF HoldsSafe
    <3> QED
      BY <2>5, <3>1 DEF Held, stripeVars, JitAuth
  <2> QED
    BY <1>1, <1>3, <2>1, <2>4, <2>5
<1> QED
  BY <1>2, <1>3 DEF ConfirmPickup

(* An event never turns the row of a hold into a paid one.                  *)
LEMMA WebhookCovered ==
  ASSUME CoverContext, NEW o \in Order, NEW e \in Event, Webhook(o, e)
  PROVE  RowCovered(o)'
<1> USE DEF CoverContext, StatusInv, TypeOK
<1> DEFINE cancel == e \in CancelsOrder /\ orders[o].status = "placed"
           s == IF cancel THEN "canceled" ELSE orders[o].status
           a == SyncedCaptured(o, e)
           m == EventPayment[e]
<1>1. orders' = [orders EXCEPT ![o].payment = m, ![o].captured = a,
                               ![o].status = s]
  BY DEF Webhook, Row
<1>2. /\ orders'[o].status = s
      /\ orders'[o].payment = m
      /\ orders'[o].intent = orders[o].intent
  <2> HIDE DEF s, a, m
  <2> QED
    BY <1>1 DEF Row
<1>3. PICK p : p = orders[o].intent
  OBVIOUS
<1>4. p # NoIntent /\ Sent(p, e) /\ UNCHANGED intent
  BY <1>3 DEF Webhook, stripeVars
<1>5. CASE e = "payment_intent.succeeded"
  <2>1. Captured(p) /\ ~Held(p) /\ Captured(p)'
    BY <1>4, <1>5 DEF Sent, Captured, Held
  <2>2. orders[o].status \notin Open
    BY <1>3, <1>4, <2>1, OpenIntent
  <2>3. orders'[o].status \notin Open
    BY <1>2, <2>2 DEF Open
  <2> QED
    BY <1>2, <1>3, <1>4, <2>1, <2>3 DEF RowCovered, OpenHeld, PaidHeld, Captured
<1>6. CASE e # "payment_intent.succeeded"
  <2>1. orders'[o].payment # "paid"
    BY <1>2, <1>6 DEF EventPayment, Event
  <2>2. CASE orders[o].status \in Open
    <3>1. Held(p)'
      BY <1>3, <1>4, <2>2, OpenIntent DEF Held
    <3> QED
      BY <1>2, <1>3, <2>1, <3>1, RowHeld
  <2>3. CASE orders[o].status \notin Open
    BY <1>2, <2>1, <2>3, RowClosed DEF Open
  <2> QED
    BY <2>2, <2>3
<1> QED
  BY <1>5, <1>6

LEMMA CancelCovered ==
  ASSUME CoverContext, NEW o \in Order, orders'[o] # orders[o],
         \/ MarkReady(o) \/ CancelOrder(o)
         \/ o \in SubOrder /\ BuyerCancel(o)
         \/ o \in Closable /\ SellerCancelApply(o)
  PROVE  RowCovered(o)'
<1> USE DEF CoverContext, StatusInv, TypeOK
<1>c. HoldsSafe(o) /\ RowCovered(o)
  BY DEF CoverInv
<1>1. CASE MarkReady(o)
  <2>1. /\ orders[o].status = "placed"
        /\ orders'[o].payment = orders[o].payment
        /\ orders'[o].intent = orders[o].intent
        /\ UNCHANGED intent
    BY <1>1 DEF MarkReady, Row, stripeVars
  <2>2. orders'[o].payment # "paid"
    BY <1>c, <2>1 DEF RowCovered, OpenHeld, Open
  <2> QED
    BY <1>c, <2>1, <2>2 DEF RowCovered, OpenHeld, PaidHeld, Open, Held
<1>2. CASE CancelOrder(o)
  <2>1. orders'[o].status = "canceled" /\ orders'[o].payment = "voided"
    BY <1>2 DEF CancelOrder, Row
  <2> QED
    BY <2>1, RowClosed DEF Open
<1>3. CASE BuyerCancel(o)
  <2> DEFINE m == IF orders[o].intent = NoIntent
                  THEN orders[o].payment ELSE "voided"
  <2>1. /\ orders' = [orders EXCEPT ![o].status = "canceled", ![o].payment = m]
        /\ orders[o].status \in Open
    BY <1>3 DEF BuyerCancel, Row, IsOpen
  <2>2. orders'[o].status = "canceled" /\ orders'[o].payment = m
    <3> HIDE DEF m
    <3> QED
      BY <2>1 DEF Row
  <2>3. m # "paid"
    BY <1>c, <2>1 DEF RowCovered, OpenHeld
  <2> QED
    BY <2>2, <2>3, RowClosed DEF Open
<1>4. CASE SellerCancelApply(o)
  <2>1. /\ orders'[o].status = "canceled"
        /\ orders'[o].payment = orders[o].payment
        /\ orders'[o].intent = orders[o].intent
        /\ orders'[o].captured = orders[o].captured
    BY <1>4 DEF SellerCancelApply, Row
  <2>2. PaidHeld(o)'
    BY <1>c, <2>1, PaidStays DEF RowCovered
  <2> QED
    BY <2>1, <2>2 DEF RowCovered, OpenHeld, Open
<1> QED
  BY <1>1, <1>2, <1>3, <1>4

LEMMA BillingCovered ==
  ASSUME CoverContext, NEW x \in charged, BillingStore(x) \/ BillingFail(x),
         NEW o \in Order, o = x.order, orders'[o] # orders[o]
  PROVE  RowCovered(o)'
<1> USE DEF CoverContext, StatusInv, TypeOK
<1>1. CASE BillingStore(x)
  <2>1. /\ orders'[o].status = orders[o].status
        /\ orders'[o].payment = "authorized"
        /\ orders'[o].intent = BillingAuth(o)
        /\ UNCHANGED intent
    BY <1>1 DEF BillingStore, Row, stripeVars
  <2>2. CASE orders[o].status \in Open
    <3>1. o \in SetupCheckout /\ BillingAuth(o) \in Own(o)
      BY DEF MoneyInv, JobsBound, Billed, Own
    <3>2. reply[BillingAuth(o)] = "requires_capture"
      BY <1>1 DEF BillingStore, CoverInv, AnswersHeld
    <3>3. Held(BillingAuth(o))
      BY <2>2, <3>1, <3>2 DEF CoverInv, HoldsSafe, Unsettled
    <3>4. Held(BillingAuth(o))'
      BY <2>1, <3>3 DEF Held, BillingAuth
    <3> QED
      BY <2>1, <3>4, RowHeld
  <2>3. CASE orders[o].status \notin Open
    BY <2>1, <2>3, RowClosed
  <2> QED
    BY <2>2, <2>3
<1>2. CASE BillingFail(x)
  <2>1. orders' = [orders EXCEPT ![o].status = "canceled",
                                 ![o].payment = x.outcome]
    BY <1>2 DEF BillingFail
  <2>2. orders'[o].status = "canceled" /\ orders'[o].payment = x.outcome
    BY <2>1 DEF Row
  <2>3. x.outcome # "paid"
    BY DEF Charge, Outcome
  <2> QED
    BY <2>2, <2>3, RowClosed DEF Open
<1> QED
  BY <1>1, <1>2

LEMMA RowCoveredStep ==
  ASSUME CoverContext, [Next]_vars, NEW o \in Order
  PROVE  RowCovered(o)'
<1>1. CASE orders'[o] = orders[o]
  BY <1>1, RowStays DEF CoverContext, CoverInv
<1>2. CASE orders'[o] # orders[o]
  <2>1. StatusInv
    BY DEF CoverContext
  <2> QED
    BY <1>2, <2>1, RowWrittenBy, PlacedCovered, NoShowCovered, PickupCovered,
       WebhookCovered, CancelCovered, BillingCovered
<1> QED
  BY <1>1, <1>2

(* A request that was admitted on a hold still finds it.                    *)
LEMMA RequestsHeldStep ==
  ASSUME CoverContext, [Next]_vars, StatusInv'
  PROVE  RequestsHeld'
<1> USE DEF CoverContext
<1> SUFFICES ASSUME NEW o \in admitted' \ SetupCheckout
             PROVE  Held(CheckoutOf(o))'
  BY DEF RequestsHeld
<1>1. /\ o \in Order /\ Unsettled(o)' /\ CheckoutOf(o) \in Own(o)
      /\ CheckoutOf(o) # NoIntent
  BY OwnType, OrdersAssumption
     DEF StatusInv, TypeOK, RequestsCurrent, Unsettled, Own
<1>2. Unsettled(o) /\ HoldsSafe(o)
  BY <1>1, StepBook, UnsettledBefore DEF CoverInv
<1>3. Held(CheckoutOf(o))
  <2>1. CASE o \in admitted
    BY <2>1 DEF CoverInv, RequestsHeld
  <2>2. CASE o \notin admitted
    <3>1. SubscribeVerified(o)
      BY <2>2 DEF Next, vars, requestVars, CreateOrder, SellerStep, MarkReady,
             CancelOrder, NoShow, ConfirmPickup, PickupFails, RefundOrder,
             SubscriberStep, SubscribeAdmit, SubscribeRefuse, SubscribeCommit,
             SubscribeRollback, BuyerSetStatus, BuyerCancel, SellerCancelStep,
             SellerCancelEmpty, SellerCancelRead, SellerCancelApply,
             SellerCancelAbort, Webhook, BillingStep, BillingScan,
             BillingCharge, BillingCrash, BillingStore, BillingFail,
             RunDeferred, LoseDeferred, PassCutoff, Expire
    <3> QED
      BY <3>1 DEF SubscribeVerified
  <2> QED
    BY <2>1, <2>2
<1>4. ASSUME NEW p \in Own(o), Held(p) PROVE Held(p)'
  BY <1>1, <1>2, <1>4, HoldSurvives
<1> QED
  BY <1>1, <1>3, <1>4 DEF Held, CheckoutOf, Checkout

(* What a billing pass will store is what Stripe has answered.              *)
LEMMA AnswersHeldStep ==
  ASSUME CoverContext, [Next]_vars
  PROVE  AnswersHeld'
<1> USE DEF CoverContext, StatusInv, TypeOK
<1>1. \A p \in Intent : reply'[p] # "requires_action"
  BY DEF CalmStep, AnswersMove, CoverInv, AnswersHeld
<1>2. ASSUME NEW x \in charged
      PROVE  /\ x.outcome # "requires_action"
             /\ x.outcome = "store" =>
                  reply'[BillingAuth(x.order)] = "requires_capture"
  <2>1. BillingAuth(x.order) \in Intent
    BY KeysInIntent DEF Charge
  <2> QED
    BY <2>1 DEF CalmStep, AnswersMove, CoverInv, AnswersHeld
<1>3. ASSUME NEW c \in Pass, NEW o \in SubOrder, BillingCharge(c, o)
      PROVE  \A x \in charged' \ charged :
               /\ x.outcome # "requires_action"
               /\ x.outcome = "store" =>
                    reply'[BillingAuth(x.order)] = "requires_capture"
  <2>1. PICK seen \in Reply :
          /\ CreateOffSessionAuthorization(BillingAuth(o), seen)
          /\ charged' = charged \cup
                {[pass |-> c, order |-> o, outcome |-> OutcomeOf(seen)]}
    BY <1>3 DEF BillingCharge
  <2>2. /\ seen # "requires_action"
        /\ seen = "requires_capture" =>
             reply'[BillingAuth(o)] = "requires_capture"
    BY <2>1, AuthorizationCalm, OrdersAssumption DEF MoneyInv, CoverInv
  <2>3. /\ OutcomeOf(seen) # "requires_action"
        /\ OutcomeOf(seen) = "store" => seen = "requires_capture"
    BY <2>2 DEF OutcomeOf, Reply
  <2> QED
    BY <2>1, <2>2, <2>3
<1>4. CASE charged' \subseteq charged
  BY <1>1, <1>2, <1>4 DEF AnswersHeld, BillingAuth
<1>5. CASE \E c \in Pass, o \in SubOrder : BillingCharge(c, o)
  <2>1. \A x \in charged' :
          /\ x.outcome # "requires_action"
          /\ x.outcome = "store" =>
               reply'[BillingAuth(x.order)] = "requires_capture"
    BY <1>2, <1>3, <1>5
  <2> QED
    BY <1>1, <2>1 DEF AnswersHeld, BillingAuth
<1>6. charged' \subseteq charged \/ \E c \in Pass, o \in SubOrder : BillingCharge(c, o)
  BY DEF Next, vars, requestVars, jobVars, CreateOrder, SellerStep, MarkReady,
         CancelOrder, NoShow, ConfirmPickup, PickupFails, RefundOrder,
         SubscriberStep, SubscribeAdmit, SubscribeRefuse, SubscribeCommit,
         SubscribeRollback, BuyerSetStatus, BuyerCancel, SellerCancelStep,
         SellerCancelEmpty, SellerCancelRead, SellerCancelApply,
         SellerCancelAbort, Webhook, BillingStep, BillingScan, BillingCrash,
         BillingStore, BillingFail, RunDeferred, LoseDeferred, PassCutoff,
         Expire
<1> QED
  BY <1>4, <1>5, <1>6

LEMMA CoverInit ==
  ASSUME Init
  PROVE  CoverInv
<1>1. AnswersHeld /\ RequestsHeld
  BY DEF Init, IntentsInit, AnswersHeld, RequestsHeld
<1>2. ASSUME NEW o \in Order PROVE HoldsSafe(o) /\ RowCovered(o)
  <2>1. orders[o].status = "none" /\ orders[o].payment = "none"
    BY DEF Init, NoRow
  <2>2. \A p \in Own(o) : ~Releasing(p) /\ reply[p] # "requires_capture"
    BY OwnType DEF Init, IntentsInit, Releasing
  <2> QED
    BY <2>1, <2>2 DEF HoldsSafe, RowCovered, OpenHeld, PaidHeld, Open
<1> QED
  BY <1>1, <1>2 DEF CoverInv

LEMMA CoverStep ==
  ASSUME Calm, StatusInv, MoneyInv, CoverInv, [Next]_vars, StatusInv', MoneyInv'
  PROVE  CoverInv'
<1>1. CoverContext
  BY StepMoney, StepCalm DEF CoverContext, CoverInv
<1>2. ASSUME NEW o \in Order PROVE HoldsSafe(o)' /\ RowCovered(o)'
  BY <1>1, StepBook, HoldsSafeStep, RowCoveredStep DEF CoverContext, CoverInv
<1> QED
  BY <1>1, <1>2, RequestsHeldStep, AnswersHeldStep DEF CoverInv

(* PaidCovered: where calls to Stripe arrive, handlers run to their end,    *)
(* holds do not lapse, cards do not ask for the buyer and no checkout is    *)
(* submitted twice, an order shown as paid has been paid for, or its        *)
(* capture is under way for the amount shown and finds the hold: whatever   *)
(* sellers, buyers, overlapping billing passes, declined cards, lost        *)
(* answers and late or repeated webhooks do in between.                     *)
THEOREM PaidCovered ==
  ASSUME Calm
  PROVE  Spec => []PaidIsCovered
<1>1. Init => CoverInv
  BY CoverInit
<1>2. StatusInv /\ MoneyInv /\ CoverInv /\ [Next]_vars /\ (StatusInv /\ MoneyInv)'
        => CoverInv'
  BY CoverStep
<1>3. CoverInv => PaidIsCovered
  BY DEF CoverInv, RowCovered, PaidHeld, CaptureOf, PaidIsCovered
<1> QED
  BY <1>1, <1>2, <1>3, MoneyInvariant, PTL DEF Spec
-----------------------------------------------------------------------------
(* The subscriber limit.  Subscribe counts the active subscribers without a *)
(* lock and commits later, and a buyer who resumes is not counted at all.   *)
(* So the limit holds only up to the requests that are between the check    *)
(* and the commit at one time, and only as long as nobody resumes.          *)
ActiveSubs == {o \in SubOrder : subscription[o] = "active"}

NobodyResumes ==
  \A o \in SubOrder :
    subscription[o] \in {"paused", "canceled"} => subscription'[o] # "active"

AtMostPending(k) == Cardinality(admitted) <= k

LimitInv(k) ==
  /\ IsFiniteSet(ActiveSubs) /\ IsFiniteSet(admitted)
  /\ Cardinality(ActiveSubs) + Cardinality(admitted) <= Limit + k - 1

(* What a step may do to the two sets.                                      *)
LimitMove ==
  \/ ActiveSubs' \subseteq ActiveSubs /\ admitted' \subseteq admitted
  \/ /\ ActiveSubs' = ActiveSubs
     /\ ActiveCount < Limit
     /\ \E o \in SubOrder : admitted' = admitted \cup {o}
  \/ \E o \in admitted :
       /\ ActiveSubs' \subseteq ActiveSubs \cup {o}
       /\ admitted' = admitted \ {o}

LEMMA LimitMoves ==
  ASSUME StatusInv, [Next]_vars, [NobodyResumes]_vars
  PROVE  LimitMove
<1> USE DEF StatusInv, TypeOK
<1>1. CASE \E o \in SubOrder : SubscribeAdmit(o)
  BY <1>1 DEF SubscribeAdmit, LimitMove, ActiveSubs
<1>2. CASE \E o \in SubOrder : SubscribeCommit(o)
  BY <1>2 DEF SubscribeCommit, LimitMove, ActiveSubs
<1>3. CASE UNCHANGED subscription /\ admitted' \subseteq admitted
  BY <1>3 DEF LimitMove, ActiveSubs
<1>4. ASSUME NEW o \in SubOrder, UNCHANGED admitted,
             subscription' = [subscription EXCEPT ![o] = "canceled"]
      PROVE  LimitMove
  BY <1>4 DEF LimitMove, ActiveSubs
<1>5. ASSUME NEW o \in SubOrder, NEW new \in {"active", "paused"},
             BuyerSetStatus(o, new)
      PROVE  LimitMove
  <2>1. /\ UNCHANGED admitted
        /\ subscription' = [subscription EXCEPT ![o] = new]
        /\ subscription[o] \in SubscriptionStatus
    BY <1>5 DEF BuyerSetStatus
  <2>2. new = "active" => subscription[o] = "active"
    BY <2>1 DEF NobodyResumes, SubscriptionStatus, vars, requestVars
  <2> QED
    BY <2>1, <2>2 DEF LimitMove, ActiveSubs
<1> QED
  BY <1>1, <1>2, <1>3, <1>4, <1>5, OrdersAssumption
     DEF Next, vars, requestVars, CreateOrder, SellerStep, MarkReady,
         CancelOrder, NoShow, ConfirmPickup, PickupFails, RefundOrder,
         SubscriberStep, SubscribeRefuse, SubscribeRollback, BuyerCancel,
         SellerCancelStep, SellerCancelEmpty, SellerCancelRead,
         SellerCancelApply, SellerCancelAbort, Webhook, BillingStep,
         BillingScan, BillingCharge, BillingCrash, BillingStore, BillingFail,
         RunDeferred, LoseDeferred, PassCutoff, Expire

LEMMA LimitKept ==
  ASSUME NEW k \in Nat \ {0}, LimitInv(k), LimitMove, AtMostPending(k)'
  PROVE  LimitInv(k)'
<1>l. Limit \in Nat
  BY OrdersAssumption
<1>f. /\ IsFiniteSet(ActiveSubs) /\ IsFiniteSet(admitted)
      /\ Cardinality(ActiveSubs) \in Nat /\ Cardinality(admitted) \in Nat
      /\ Cardinality(ActiveSubs) + Cardinality(admitted) <= Limit + k - 1
  BY FS_CardinalityType DEF LimitInv
<1>1. CASE ActiveSubs' \subseteq ActiveSubs /\ admitted' \subseteq admitted
  <2>1. /\ IsFiniteSet(ActiveSubs') /\ IsFiniteSet(admitted')
        /\ Cardinality(ActiveSubs') <= Cardinality(ActiveSubs)
        /\ Cardinality(admitted') <= Cardinality(admitted)
        /\ Cardinality(ActiveSubs') \in Nat /\ Cardinality(admitted') \in Nat
    BY <1>1, <1>f, FS_Subset, FS_CardinalityType
  <2> QED
    BY <1>l, <1>f, <2>1 DEF LimitInv
<1>2. CASE /\ ActiveSubs' = ActiveSubs
           /\ ActiveCount < Limit
           /\ \E o \in SubOrder : admitted' = admitted \cup {o}
  <2>1. IsFiniteSet(admitted')
    BY <1>2, <1>f, FS_AddElement
  <2>2. Cardinality(admitted') \in Nat /\ Cardinality(admitted') <= k
    BY <2>1, FS_CardinalityType DEF AtMostPending
  <2>3. Cardinality(ActiveSubs) < Limit
    BY <1>2 DEF ActiveCount, ActiveSubs
  <2>4. Cardinality(ActiveSubs') = Cardinality(ActiveSubs)
    BY <1>2
  <2> QED
    BY <1>2, <1>l, <1>f, <2>1, <2>2, <2>3, <2>4 DEF LimitInv
<1>3. ASSUME NEW o \in admitted, ActiveSubs' \subseteq ActiveSubs \cup {o},
             admitted' = admitted \ {o}
      PROVE  LimitInv(k)'
  <2>1. /\ IsFiniteSet(ActiveSubs \cup {o})
        /\ Cardinality(ActiveSubs \cup {o}) <= Cardinality(ActiveSubs) + 1
        /\ Cardinality(ActiveSubs \cup {o}) \in Nat
    <3>1. /\ IsFiniteSet(ActiveSubs \cup {o})
          /\ Cardinality(ActiveSubs \cup {o}) =
               IF o \in ActiveSubs THEN Cardinality(ActiveSubs)
               ELSE Cardinality(ActiveSubs) + 1
      BY <1>f, FS_AddElement, Zenon
    <3>2. Cardinality(ActiveSubs \cup {o}) \in Nat
      BY <3>1, FS_CardinalityType
    <3> QED
      BY <1>f, <3>1, <3>2
  <2>2. /\ IsFiniteSet(ActiveSubs')
        /\ Cardinality(ActiveSubs') <= Cardinality(ActiveSubs \cup {o})
        /\ Cardinality(ActiveSubs') \in Nat
    BY <1>3, <2>1, FS_Subset, FS_CardinalityType
  <2>3. /\ IsFiniteSet(admitted')
        /\ Cardinality(admitted') = Cardinality(admitted) - 1
    BY <1>3, <1>f, FS_RemoveElement
  <2> QED
    BY <1>l, <1>f, <2>1, <2>2, <2>3 DEF LimitInv
<1> QED
  BY <1>1, <1>2, <1>3 DEF LimitMove

(* SubscribersBounded: if at most k Subscribe requests are between their    *)
(* check and their commit at one time, and no buyer resumes, a plan has     *)
(* never more than k - 1 active subscribers above its limit; in particular  *)
(* requests one at a time respect it.                                       *)
THEOREM SubscribersBounded ==
  ASSUME NEW k \in Nat \ {0}
  PROVE  Spec /\ []AtMostPending(k) /\ [][NobodyResumes]_vars
           => [](ActiveCount <= Limit + k - 1)
<1>1. Init => LimitInv(k)
  <2> SUFFICES ASSUME Init PROVE LimitInv(k)
    OBVIOUS
  <2>1. ActiveSubs = {} /\ admitted = {}
    BY DEF Init, ActiveSubs
  <2>2. IsFiniteSet({}) /\ Cardinality({}) = 0
    BY FS_EmptySet
  <2>3. Limit \in Nat /\ 0 + 0 <= Limit + k - 1
    BY OrdersAssumption
  <2> QED
    BY <2>1, <2>2, <2>3, Zenon DEF LimitInv
<1>2. /\ StatusInv /\ LimitInv(k) /\ [Next]_vars /\ [NobodyResumes]_vars
      /\ AtMostPending(k)'
      => LimitInv(k)'
  BY LimitMoves, LimitKept
<1>3. LimitInv(k) => ActiveCount <= Limit + k - 1
  <2> SUFFICES ASSUME LimitInv(k) PROVE ActiveCount <= Limit + k - 1
    OBVIOUS
  <2>1. /\ Cardinality(ActiveSubs) \in Nat /\ Cardinality(admitted) \in Nat
        /\ Cardinality(ActiveSubs) + Cardinality(admitted) <= Limit + k - 1
    BY FS_CardinalityType DEF LimitInv
  <2>2. ActiveCount = Cardinality(ActiveSubs) /\ Limit \in Nat
    BY OrdersAssumption DEF ActiveCount, ActiveSubs
  <2> QED
    BY <2>1, <2>2
<1> QED
  BY <1>1, <1>2, <1>3, StatusInvariant, PTL DEF Spec
-----------------------------------------------------------------------------
(* What the two properties that fail elsewhere need.                        *)

(* OnlyLateDeclines: a decline of an earlier card that arrives late is the  *)
(* only event that cancels an order whose hold is intact; where there is    *)
(* none, no event does, in whatever order and however often events come.    *)
THEOREM OnlyLateDeclines ==
  ASSUME "late_decline" \notin Faults
  PROVE  Spec => WebhookKeepsLiveOrder
<1>1. ASSUME StatusInv, NEW o \in Order, NEW e \in Event, Webhook(o, e),
             Held(orders[o].intent)
      PROVE  orders'[o].status = orders[o].status
  <2>1. e \notin CancelsOrder
    BY <1>1 DEF Webhook, Held, Sent, CancelsOrder
  <2>2. orders' = [orders EXCEPT ![o].payment = EventPayment[e],
                                 ![o].captured = SyncedCaptured(o, e)]
    BY <1>1, <2>1 DEF Webhook, StatusInv, TypeOK, Row
  <2> QED
    BY <1>1, <2>2 DEF StatusInv, TypeOK, Row
<1>2. StatusInv =>
        [\A o \in Order, e \in Event :
           Webhook(o, e) /\ Held(orders[o].intent) =>
             orders'[o].status = orders[o].status]_vars
  BY <1>1
<1> QED
  BY <1>2, StatusInvariant, PTL DEF WebhookKeepsLiveOrder

(* Without a pass of the billing job no card is authorized by one.          *)
NeverBilled == \A o \in Order : reply[BillingAuth(o)] = "none"

LEMMA NeverBilledStep ==
  ASSUME Pass = {}, StatusInv, MoneyInv, NeverBilled, [Next]_vars
  PROVE  NeverBilled'
<1> USE DEF StatusInv, TypeOK
<1>1. CASE UNCHANGED reply
  BY <1>1 DEF NeverBilled, BillingAuth
<1>2. ASSUME NEW p, CancelPaymentIntent(p) PROVE UNCHANGED reply
  BY <1>2 DEF CancelPaymentIntent, Lost, stripeVars
<1>3. ASSUME NEW o \in Order, NEW seen \in Reply,
             CreateOffSessionAuthorization(JitAuth(o), seen)
      PROVE  NeverBilled'
  <2>1. ASSUME NEW answer, Answer(JitAuth(o), answer)
        PROVE  UNCHANGED reply \/ reply' = [reply EXCEPT ![JitAuth(o)] = answer]
    BY <2>1 DEF Answer, Execute, Replay, stripeVars
  <2>2. \/ UNCHANGED reply
        \/ \E answer : reply' = [reply EXCEPT ![JitAuth(o)] = answer]
    BY <1>3, <2>1 DEF CreateOffSessionAuthorization, stripeVars
  <2>3. \A a \in Order : BillingAuth(a) # JitAuth(o)
    BY DEF BillingAuth, JitAuth
  <2>4. \A a \in Order : BillingAuth(a) \in Intent
    BY KeysInIntent
  <2> QED
    BY <1>1, <2>2, <2>3, <2>4 DEF NeverBilled, IntentsTypeOK, BillingAuth
<1>4. charged = {}
  BY DEF Charge
<1>5. ASSUME NEW o \in Order, CreateOrder(o) \/ SellerStep(o)
      PROVE  NeverBilled'
  <2>1. CASE ConfirmPickup(o) \/ PickupFails(o)
    BY <1>1, <1>3, <2>1
       DEF ConfirmPickup, PickupFails, Reply, stripeVars
  <2> QED
    BY <1>1, <1>5, <2>1 DEF CreateOrder, SellerStep, MarkReady, CancelOrder,
          NoShow, RefundOrder, stripeVars
<1>6. ASSUME NEW o \in SubOrder, SubscriberStep(o)
      PROVE  UNCHANGED reply
  BY <1>2, <1>6 DEF SubscriberStep, SubscribeAdmit, SubscribeRefuse,
        SubscribeCommit, SubscribeRollback, BuyerSetStatus, BuyerCancel,
        VoidCheckout, stripeVars
<1>7. ASSUME NEW o \in Closable, SellerCancelStep(o)
      PROVE  UNCHANGED reply
  BY <1>7 DEF SellerCancelStep, SellerCancelEmpty, SellerCancelRead,
        SellerCancelApply, SellerCancelAbort, stripeVars
<1>8. ASSUME NEW t \in deferred, RunDeferred(t) \/ LoseDeferred(t)
      PROVE  UNCHANGED reply
  BY <1>2, <1>8 DEF RunDeferred, LoseDeferred, CaptureAuthorization, Refund, Lost,
        stripeVars
<1>9. /\ \A o \in Order, e \in Event : Webhook(o, e) => UNCHANGED reply
      /\ \A p \in Intent : Expire(p) => UNCHANGED reply
      /\ PassCutoff \/ UNCHANGED vars => UNCHANGED reply
  BY DEF Webhook, Expire, ExpireHold, PassCutoff, vars, stripeVars
<1> QED
  BY <1>1, <1>4, <1>5, <1>6, <1>7, <1>8, <1>9 DEF Next

(* OneHoldUnlessBilled: the second hold for one order takes a pass of the   *)
(* billing job and a saved card.  Where no pass runs, or every checkout     *)
(* holds its amount at once, the pickup and its retries, lost answers and   *)
(* double submits never hold the card twice.                                *)
THEOREM OneHoldUnlessBilled ==
  ASSUME Pass = {} \/ SetupCheckout = {}
  PROVE  Spec => []OneHoldPerOrder
<1>1. ASSUME MoneyInv, SetupCheckout = {} \/ NeverBilled
      PROVE  OneHoldPerOrder
  <2> SUFFICES ASSUME NEW o \in Order
               PROVE  Cardinality({p \in IntentsOf(o) : Held(p)}) <= 1
    BY DEF OneHoldPerOrder
  <2> DEFINE held == {p \in IntentsOf(o) : Held(p)}
  <2>1. ASSUME NEW p \in held
        PROVE  p = IF o \in SetupCheckout THEN JitAuth(o) ELSE CheckoutOf(o)
    <3>1. p \in Intent /\ intent[p] = "requires_capture"
      BY KeysInIntent DEF IntentsOf, Held
    <3>2. PICK w \in Order : p \in Own(w)
      BY <1>1, <3>1 DEF MoneyInv, StripeBound, Live
    <3>3. CASE p = CheckoutOf(o)
      <4>1. w \notin SetupCheckout /\ SameCheckout[w] = SameCheckout[o]
        BY <3>2, <3>3 DEF Own, CheckoutOf, Checkout, BillingAuth, JitAuth
      <4>2. o \notin SetupCheckout
        BY <4>1, OrdersAssumption
      <4> QED
        BY <3>3, <4>2
    <3>4. CASE p \in {BillingAuth(o), JitAuth(o)}
      <4>1. o \in SetupCheckout
        BY <3>2, <3>4, OwnSetup
      <4>2. p # BillingAuth(o)
        BY <1>1, <3>1, <4>1 DEF NeverBilled, MoneyInv, StripeBound
      <4> QED
        BY <3>4, <4>1, <4>2
    <3> QED
      BY <3>3, <3>4 DEF IntentsOf
  <2>2. CASE held = {}
    BY <2>2, FS_EmptySet
  <2>3. ASSUME NEW p \in held
        PROVE  Cardinality(held) <= 1
    <3>1. held = {p}
      BY <2>1, <2>3
    <3>2. Cardinality({p}) = 1
      BY FS_Singleton
    <3> QED
      BY <3>1, <3>2
  <2> QED
    BY <2>2, <2>3
<1>2. CASE SetupCheckout = {}
  <2>1. MoneyInv => OneHoldPerOrder
    BY <1>1, <1>2
  <2> QED
    BY <2>1, MoneyInvariant, PTL
<1>3. CASE Pass = {}
  <2>1. Init => NeverBilled
    BY KeysInIntent DEF Init, IntentsInit, NeverBilled
  <2>2. StatusInv /\ MoneyInv /\ NeverBilled /\ [Next]_vars => NeverBilled'
    BY <1>3, NeverBilledStep
  <2>3. MoneyInv /\ NeverBilled => OneHoldPerOrder
    BY <1>1
  <2> QED
    BY <2>1, <2>2, <2>3, MoneyInvariant, PTL DEF Spec
<1> QED
  BY <1>2, <1>3
=============================================================================
