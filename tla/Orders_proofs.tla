---------------------------- MODULE Orders_proofs ----------------------------
(***************************************************************************)
(* Theorems about the orders of a window, for any set of orders, offerings, *)
(* quantities, billing passes and faults.                                   *)
(***************************************************************************)
EXTENDS OrderProperties, Inventory_proofs, PaymentIntents_proofs

(* Facts about the constants used throughout.                               *)
LEMMA QtyType ==
  ASSUME NEW o \in Order
  PROVE  Qty[o] \in Items
BY OrdersAssumption

LEMMA KeysInIntent ==
  ASSUME NEW o \in Order
  PROVE  /\ CheckoutOf(o) \in Intent
         /\ BillingAuth(o) \in Intent
         /\ JitAuth(o) \in Intent
BY OrdersAssumption DEF CheckoutOf, Checkout, BillingAuth, JitAuth, Intent, Key

(* The no-show fee is an amount of cents that the authorization covers.     *)
LEMMA FeeWithinTotal ==
  ASSUME NEW o \in Order
  PROVE  FeeFor(o) \in Nat /\ FeeFor(o) <= Total[o]
<1>1. Deposit[o] \in Nat /\ NoShowFeeCents \in Int /\ Total[o] \in Nat
  BY OrdersAssumption
<1> QED
  BY <1>1 DEF FeeFor, NoShowFee, ConfiguredNoShowFee

(* A deferred call is a call, whatever the intent.                          *)
LEMMA DeferType ==
  ASSUME NEW op \in {"cancel", "capture", "refund"}, NEW p \in Intent \cup {NoIntent},
         NEW amount \in Nat, deferred \in SUBSET Call, Defer(op, p, amount)
  PROVE  deferred' \in SUBSET Call
<1>1. CASE p = NoIntent
  BY <1>1 DEF Defer
<1>2. CASE p # NoIntent
  BY <1>2 DEF Defer, Call
<1> QED
  BY <1>1, <1>2

(* The rows the handlers write are rows of the table.                       *)
LEMMA StatusUpdate ==
  ASSUME NEW o \in Order, NEW s \in OrderStatus, orders \in [Order -> Row]
  PROVE  [orders EXCEPT ![o].status = s] \in [Order -> Row]
BY DEF Row

LEMMA StatusPaymentUpdate ==
  ASSUME NEW o \in Order, NEW s \in OrderStatus, NEW m \in PaymentStatus,
         orders \in [Order -> Row]
  PROVE  [orders EXCEPT ![o].status = s, ![o].payment = m] \in [Order -> Row]
BY DEF Row

LEMMA SettlementUpdate ==
  ASSUME NEW o \in Order, NEW s \in OrderStatus, NEW m \in PaymentStatus,
         NEW a \in Nat, orders \in [Order -> Row]
  PROVE  [orders EXCEPT ![o].status = s, ![o].payment = m,
                        ![o].captured = a] \in [Order -> Row]
BY DEF Row

LEMMA RowsTyped ==
  ASSUME orders \in [Order -> Row], NEW o \in Order
  PROVE  /\ orders[o].status \in OrderStatus
         /\ orders[o].payment \in PaymentStatus
         /\ orders[o].captured \in Nat
         /\ orders[o].intent \in Intent \cup {NoIntent}
         /\ orders[o].pickedUp \in BOOLEAN
BY DEF Row
-----------------------------------------------------------------------------
(* Type correctness: one lemma per family of handlers.                      *)

(* What no step of a handler touches keeps its type.                        *)
LEMMA UnchangedInventoryType ==
  ASSUME InventoryTypeOK, UNCHANGED inventoryVars
  PROVE  InventoryTypeOK'
BY DEF InventoryTypeOK, inventoryVars

(* Inserting an order's row.                                                *)
LEMMA InsertType ==
  ASSUME NEW o \in Order, NEW m \in PaymentStatus,
         NEW p \in Intent \cup {NoIntent},
         orders \in [Order -> Row], Insert(o, m, p)
  PROVE  orders' \in [Order -> Row]
BY DEF Insert, Row, OrderStatus, Open

(* A checkout releases its hold when it is refused.                         *)
LEMMA VoidCheckoutType ==
  ASSUME NEW o, IntentsTypeOK, VoidCheckout(o)
  PROVE  IntentsTypeOK'
BY CancelType, UnchangedIntentsType DEF VoidCheckout

(* Checkout and Subscribe.                                                  *)
LEMMA PlacingType ==
  ASSUME TypeOK, NEW o \in Order,
         \/ CreateOrder(o)
         \/ SubscribeAdmit(o)
         \/ SubscribeRefuse(o)
         \/ SubscribeCommit(o)
         \/ SubscribeRollback(o)
  PROVE  TypeOK'
<1> USE DEF TypeOK, requestVars, jobVars
<1>q. Qty[o] \in Items /\ CheckoutOf(o) \in Intent
  BY QtyType, KeysInIntent
<1>p. "authorized" \in PaymentStatus /\ "pending" \in PaymentStatus
  BY DEF PaymentStatus
<1>1. CASE CreateOrder(o)
  <2>1. orders' \in [Order -> Row]
    BY <1>1, <1>q, <1>p, InsertType DEF CreateOrder
  <2>2. InventoryTypeOK' /\ IntentsTypeOK'
    BY <1>1, <1>q, ReserveType, UnchangedIntentsType DEF CreateOrder
  <2> QED
    BY <1>1, <2>1, <2>2 DEF CreateOrder
<1>2. CASE SubscribeAdmit(o)
  <2>1. InventoryTypeOK' /\ IntentsTypeOK'
    BY <1>2, UnchangedInventoryType, UnchangedIntentsType DEF SubscribeAdmit
  <2> QED
    BY <1>2, <2>1 DEF SubscribeAdmit, SubscribeVerified
<1>3. CASE SubscribeRefuse(o)
  <2>1. InventoryTypeOK' /\ IntentsTypeOK'
    BY <1>3, UnchangedInventoryType, VoidCheckoutType DEF SubscribeRefuse
  <2> QED
    BY <1>3, <2>1 DEF SubscribeRefuse
<1>4. CASE SubscribeCommit(o)
  <2>1. orders' \in [Order -> Row]
    BY <1>4, <1>q, <1>p, InsertType DEF SubscribeCommit
  <2>2. InventoryTypeOK' /\ IntentsTypeOK'
    BY <1>4, <1>q, ReserveType, UnchangedIntentsType DEF SubscribeCommit
  <2>3. subscription' \in [SubOrder -> SubscriptionStatus \cup {"none"}]
    BY <1>4 DEF SubscribeCommit, SubscriptionStatus
  <2> QED
    BY <1>4, <2>1, <2>2, <2>3 DEF SubscribeCommit
<1>5. CASE SubscribeRollback(o)
  <2>1. InventoryTypeOK' /\ IntentsTypeOK'
    BY <1>5, UnchangedInventoryType, UnchangedIntentsType, VoidCheckoutType
       DEF SubscribeRollback
  <2> QED
    BY <1>5, <2>1 DEF SubscribeRollback
<1> QED
  BY <1>1, <1>2, <1>3, <1>4, <1>5

(* The seller's status updates.                                             *)
LEMMA StatusUpdateType ==
  ASSUME TypeOK, NEW o \in Order,
         \/ MarkReady(o)
         \/ CancelOrder(o)
         \/ \E waive \in BOOLEAN : NoShow(o, waive)
  PROVE  TypeOK'
<1> USE DEF TypeOK, requestVars, jobVars
<1>q. Qty[o] \in Items /\ orders[o].intent \in Intent \cup {NoIntent}
  BY QtyType, RowsTyped
<1>s. {"ready", "canceled", "no_show"} \subseteq OrderStatus
  BY DEF OrderStatus, Open, Terminal
<1>p. {"paid", "voided"} \subseteq PaymentStatus
  BY DEF PaymentStatus
<1>1. CASE MarkReady(o)
  <2>1. orders' \in [Order -> Row]
    BY <1>1, <1>s, StatusUpdate DEF MarkReady
  <2>2. InventoryTypeOK' /\ IntentsTypeOK'
    BY <1>1, UnchangedInventoryType, UnchangedIntentsType DEF MarkReady
  <2> QED
    BY <1>1, <2>1, <2>2 DEF MarkReady
<1>2. CASE CancelOrder(o)
  <2>1. orders' \in [Order -> Row]
    BY <1>2, <1>s, <1>p, StatusPaymentUpdate DEF CancelOrder
  <2>2. InventoryTypeOK' /\ IntentsTypeOK'
    BY <1>2, <1>q, ReleaseType, UnchangedIntentsType DEF CancelOrder
  <2>3. deferred' \in SUBSET Call
    BY <1>2, <1>q, DeferType DEF CancelOrder
  <2> QED
    BY <1>2, <2>1, <2>2, <2>3 DEF CancelOrder
<1>3. ASSUME NEW waive \in BOOLEAN, NoShow(o, waive)
      PROVE  TypeOK'
  <2> DEFINE charge == ChargesFee(o, waive)
             paid == IF charge THEN "paid" ELSE "voided"
             amount == IF charge THEN FeeFor(o) ELSE 0
  <2>1. orders' = [orders EXCEPT ![o].status = "no_show",
                                 ![o].payment = paid,
                                 ![o].captured = amount]
    BY <1>3 DEF NoShow
  <2>2. paid \in PaymentStatus /\ amount \in Nat
    BY <1>p, FeeWithinTotal
  <2>3. orders' \in [Order -> Row]
    <3> HIDE DEF paid, amount
    <3> QED
      BY <2>1, <2>2, <1>s, SettlementUpdate
  <2>4. InventoryTypeOK' /\ IntentsTypeOK'
    BY <1>3, <1>q, ReleaseType, UnchangedIntentsType DEF NoShow
  <2>5. deferred' \in SUBSET Call
    BY <1>3, <1>q, FeeWithinTotal, DeferType DEF NoShow
  <2> QED
    BY <1>3, <2>3, <2>4, <2>5 DEF NoShow
<1> QED
  BY <1>1, <1>2, <1>3

(* Pickup and refund.                                                       *)
LEMMA PickupType ==
  ASSUME TypeOK, NEW o \in Order,
         ConfirmPickup(o) \/ PickupFails(o) \/ RefundOrder(o)
  PROVE  TypeOK'
<1> USE DEF TypeOK, requestVars, jobVars
<1>q. /\ Qty[o] \in Items /\ JitAuth(o) \in Intent
      /\ orders[o].intent \in Intent \cup {NoIntent}
  BY QtyType, RowsTyped, KeysInIntent
<1>t. Total[o] \in Nat
  BY OrdersAssumption
<1>h. ASSUME NEW p \in Intent \cup {NoIntent}, HandOver(o, p)
      PROVE  /\ InventoryTypeOK'
             /\ orders' \in [Order -> Row]
             /\ deferred' \in SUBSET Call
  <2>1. InventoryTypeOK'
    BY <1>h, <1>q, FinalizeType DEF HandOver
  <2>2. orders' \in [Order -> Row]
    BY <1>h, <1>t DEF HandOver, Row, OrderStatus, Terminal, PaymentStatus
  <2>3. deferred' \in SUBSET Call
    BY <1>h, <1>t, DeferType DEF HandOver
  <2> QED
    BY <2>1, <2>2, <2>3
<1>1. CASE ConfirmPickup(o)
  <2>1. /\ InventoryTypeOK'
        /\ orders' \in [Order -> Row]
        /\ deferred' \in SUBSET Call
    BY <1>1, <1>h, <1>q DEF ConfirmPickup
  <2>2. IntentsTypeOK'
    BY <1>1, <1>q, AuthorizationType, UnchangedIntentsType DEF ConfirmPickup
  <2> QED
    BY <1>1, <2>1, <2>2 DEF ConfirmPickup
<1>2. CASE PickupFails(o)
  <2>1. InventoryTypeOK' /\ IntentsTypeOK'
    BY <1>2, <1>q, AuthorizationType, UnchangedInventoryType
       DEF PickupFails, Reply
  <2> QED
    BY <1>2, <2>1 DEF PickupFails
<1>3. CASE RefundOrder(o)
  <2>1. InventoryTypeOK' /\ IntentsTypeOK'
    BY <1>3, UnchangedIntentsType, UnchangedInventoryType DEF RefundOrder
  <2>2. deferred' \in SUBSET Call
    BY <1>3, <1>q, DeferType DEF RefundOrder
  <2> QED
    BY <1>3, <2>1, <2>2 DEF RefundOrder
<1> QED
  BY <1>1, <1>2, <1>3

(* The Stripe calls made after commit.                                      *)
LEMMA DeferredType ==
  ASSUME TypeOK, NEW t \in deferred, RunDeferred(t) \/ LoseDeferred(t)
  PROVE  TypeOK'
<1> USE DEF TypeOK, requestVars, jobVars
<1>1. CASE RunDeferred(t)
  <2>1. t.amount \in Nat
    BY DEF Call
  <2>2. InventoryTypeOK' /\ IntentsTypeOK'
    BY <1>1, <2>1, CancelType, CaptureType, RefundType,
       UnchangedInventoryType
       DEF RunDeferred
  <2> QED
    BY <1>1, <2>2 DEF RunDeferred
<1>2. CASE LoseDeferred(t)
  <2>1. InventoryTypeOK' /\ IntentsTypeOK'
    BY <1>2, UnchangedInventoryType, UnchangedIntentsType DEF LoseDeferred
  <2> QED
    BY <1>2, <2>1 DEF LoseDeferred
<1> QED
  BY <1>1, <1>2

(* A webhook and the capture it synchronises.                               *)
LEMMA WebhookType ==
  ASSUME TypeOK, NEW o \in Order, NEW e \in Event, Webhook(o, e)
  PROVE  TypeOK'
<1> USE DEF TypeOK, requestVars, jobVars
<1> DEFINE cancel == e \in CancelsOrder /\ orders[o].status = "placed"
           s == IF cancel THEN "canceled" ELSE orders[o].status
           a == SyncedCaptured(o, e)
           m == EventPayment[e]
<1>1. orders' = [orders EXCEPT ![o].status = s, ![o].payment = m,
                               ![o].captured = a]
  BY DEF Webhook, Row
<1>2. s \in OrderStatus /\ m \in PaymentStatus
  BY RowsTyped DEF OrderStatus, Terminal, EventPayment, Event, PaymentStatus
<1>3. a \in Nat
  <2>1. orders[o].captured \in Nat /\ received[orders[o].intent] \in Nat
    BY RowsTyped DEF Webhook, IntentsTypeOK
  <2> QED
    BY <2>1 DEF SyncedCaptured
<1>4. orders' \in [Order -> Row]
  <2> HIDE DEF s, a, m
  <2> QED
    BY <1>1, <1>2, <1>3, SettlementUpdate
<1>5. InventoryTypeOK' /\ IntentsTypeOK'
  BY QtyType, ReleaseType, UnchangedInventoryType, UnchangedIntentsType
     DEF Webhook
<1> QED
  BY <1>4, <1>5 DEF Webhook

(* The subscription handlers of buyer and seller.                           *)
LEMMA SubscriptionType ==
  ASSUME TypeOK, NEW o \in SubOrder,
         \/ \E new \in {"active", "paused"} : BuyerSetStatus(o, new)
         \/ BuyerCancel(o)
         \/ o \in Closable /\ SellerCancelStep(o)
  PROVE  TypeOK'
<1> USE DEF TypeOK, requestVars, jobVars
<1>q. /\ o \in Order /\ Qty[o] \in Items
      /\ orders[o].intent \in Intent \cup {NoIntent}
      /\ orders[o].payment \in PaymentStatus
  BY OrdersAssumption, QtyType, RowsTyped
<1>s. "canceled" \in OrderStatus /\ "voided" \in PaymentStatus
  BY DEF OrderStatus, Terminal, PaymentStatus
<1>1. ASSUME NEW new \in {"active", "paused"}, BuyerSetStatus(o, new)
      PROVE  TypeOK'
  <2>1. InventoryTypeOK' /\ IntentsTypeOK'
    BY <1>1, UnchangedInventoryType, UnchangedIntentsType DEF BuyerSetStatus
  <2> QED
    BY <1>1, <2>1 DEF BuyerSetStatus, SubscriptionStatus
<1>2. CASE BuyerCancel(o)
  <2> DEFINE m == IF orders[o].intent = NoIntent
                  THEN orders[o].payment ELSE "voided"
  <2>1. \/ orders' = orders
        \/ orders' = [orders EXCEPT ![o].status = "canceled",
                                    ![o].payment = m]
    BY <1>2, <1>q DEF BuyerCancel, Row
  <2>2. m \in PaymentStatus
    BY <1>q, <1>s
  <2>3. orders' \in [Order -> Row]
    <3> HIDE DEF m
    <3>1. [orders EXCEPT ![o].status = "canceled", ![o].payment = m]
            \in [Order -> Row]
      BY <1>q, <1>s, <2>2, StatusPaymentUpdate
    <3> QED
      BY <2>1, <3>1
  <2>4. InventoryTypeOK' /\ IntentsTypeOK'
    BY <1>2, <1>q, ReleaseType, UnchangedInventoryType, UnchangedIntentsType
       DEF BuyerCancel
  <2>5. deferred' \in SUBSET Call
    BY <1>2, <1>q, DeferType DEF BuyerCancel
  <2> QED
    BY <1>2, <2>3, <2>4, <2>5 DEF BuyerCancel, SubscriptionStatus
<1>3. CASE o \in Closable /\ SellerCancelEmpty(o)
  <2>1. InventoryTypeOK' /\ IntentsTypeOK'
    BY <1>3, UnchangedInventoryType, UnchangedIntentsType
       DEF SellerCancelEmpty
  <2> QED
    BY <1>3, <2>1 DEF SellerCancelEmpty, SubscriptionStatus
<1>4. CASE o \in Closable /\ SellerCancelRead(o)
  <2>1. InventoryTypeOK' /\ IntentsTypeOK'
    BY <1>4, UnchangedInventoryType, UnchangedIntentsType DEF SellerCancelRead
  <2> QED
    BY <1>4, <2>1 DEF SellerCancelRead
<1>5. CASE o \in Closable /\ SellerCancelApply(o)
  <2>1. orders' \in [Order -> Row]
    BY <1>5, <1>q, <1>s, StatusUpdate DEF SellerCancelApply
  <2>2. InventoryTypeOK' /\ IntentsTypeOK'
    BY <1>5, <1>q, ReleaseType, UnchangedIntentsType DEF SellerCancelApply
  <2> QED
    BY <1>5, <2>1, <2>2 DEF SellerCancelApply, SubscriptionStatus
<1>6. CASE o \in Closable /\ SellerCancelAbort(o)
  <2>1. InventoryTypeOK' /\ IntentsTypeOK'
    BY <1>6, UnchangedInventoryType, UnchangedIntentsType
       DEF SellerCancelAbort
  <2> QED
    BY <1>6, <2>1 DEF SellerCancelAbort
<1> QED
  BY <1>1, <1>2, <1>3, <1>4, <1>5, <1>6 DEF SellerCancelStep

(* A billing pass.                                                          *)
LEMMA BillingPassType ==
  ASSUME TypeOK, NEW c \in Pass, BillingStep(c)
  PROVE  TypeOK'
<1> USE DEF TypeOK, requestVars, jobVars
<1>1. CASE BillingScan(c)
  <2>1. InventoryTypeOK' /\ IntentsTypeOK'
    BY <1>1, UnchangedInventoryType, UnchangedIntentsType DEF BillingScan
  <2>2. scan' \in [Pass -> SUBSET SubOrder]
    BY <1>1 DEF BillingScan, Candidates
  <2> QED
    BY <1>1, <2>1, <2>2 DEF BillingScan
<1>2. ASSUME NEW o \in SubOrder, BillingCharge(c, o)
      PROVE  TypeOK'
  <2>1. PICK seen \in Reply :
          /\ CreateOffSessionAuthorization(BillingAuth(o), seen)
          /\ charged' = charged \cup
                {[pass |-> c, order |-> o, outcome |-> OutcomeOf(seen)]}
    BY <1>2 DEF BillingCharge
  <2>2. o \in Order /\ BillingAuth(o) \in Intent
    BY OrdersAssumption, KeysInIntent
  <2>3. OutcomeOf(seen) \in Outcome
    BY DEF Reply, OutcomeOf, Outcome
  <2>4. InventoryTypeOK' /\ IntentsTypeOK'
    BY <1>2, <2>1, <2>2, AuthorizationType, UnchangedInventoryType
       DEF BillingCharge
  <2>5. charged' \in SUBSET Charge
    BY <2>1, <2>2, <2>3 DEF Charge
  <2>6. scan' \in [Pass -> SUBSET SubOrder]
    BY <1>2 DEF BillingCharge
  <2> QED
    BY <1>2, <2>4, <2>5, <2>6 DEF BillingCharge
<1>3. CASE BillingCrash(c)
  <2>1. InventoryTypeOK' /\ IntentsTypeOK'
    BY <1>3, UnchangedInventoryType, UnchangedIntentsType DEF BillingCrash
  <2> QED
    BY <1>3, <2>1 DEF BillingCrash
<1> QED
  BY <1>1, <1>2, <1>3 DEF BillingStep

(* A billing pass writing an answer back.                                   *)
LEMMA BillingWriteType ==
  ASSUME TypeOK, NEW x \in charged, BillingStore(x) \/ BillingFail(x)
  PROVE  TypeOK'
<1> USE DEF TypeOK, requestVars, jobVars
<1>q. /\ x.order \in Order /\ Qty[x.order] \in Items
      /\ BillingAuth(x.order) \in Intent /\ x.outcome \in Outcome
  BY QtyType, KeysInIntent DEF Charge
<1>1. CASE BillingStore(x)
  <2>1. orders' \in [Order -> Row]
    BY <1>1, <1>q DEF BillingStore, Row, PaymentStatus
  <2>2. InventoryTypeOK' /\ IntentsTypeOK'
    BY <1>1, UnchangedInventoryType, UnchangedIntentsType DEF BillingStore
  <2> QED
    BY <1>1, <2>1, <2>2 DEF BillingStore
<1>2. CASE BillingFail(x)
  <2>1. x.outcome \in PaymentStatus /\ "canceled" \in OrderStatus
    BY <1>2, <1>q DEF BillingFail, Outcome, PaymentStatus, OrderStatus, Terminal
  <2>2. orders' \in [Order -> Row]
    <3>1. [orders EXCEPT ![x.order].status = "canceled",
                         ![x.order].payment = x.outcome] \in [Order -> Row]
      BY <1>q, <2>1, StatusPaymentUpdate
    <3> QED
      BY <1>2, <3>1 DEF BillingFail
  <2>3. InventoryTypeOK' /\ IntentsTypeOK'
    BY <1>2, <1>q, ReleaseType, CancelType, UnchangedInventoryType,
       UnchangedIntentsType DEF BillingFail
  <2> QED
    BY <1>2, <2>2, <2>3 DEF BillingFail
<1> QED
  BY <1>1, <1>2

(* Time passing: the cutoff of the window, the life of a hold.              *)
LEMMA ClockType ==
  ASSUME TypeOK, PassCutoff \/ \E p \in Intent : Expire(p)
  PROVE  TypeOK'
<1> USE DEF TypeOK, requestVars, jobVars
<1>1. CASE PassCutoff
  BY <1>1, UnchangedInventoryType, UnchangedIntentsType DEF PassCutoff
<1>2. ASSUME NEW p \in Intent, Expire(p)
      PROVE  TypeOK'
  <2>1. InventoryTypeOK' /\ IntentsTypeOK'
    BY <1>2, ExpireType, UnchangedInventoryType DEF Expire
  <2> QED
    BY <1>2, <2>1 DEF Expire
<1> QED
  BY <1>1, <1>2

LEMMA TypeInit == Init => TypeOK
<1> SUFFICES ASSUME Init PROVE TypeOK
  OBVIOUS
<1>1. InventoryTypeOK
  BY StockAssumption DEF Init, InventoryInit, InventoryTypeOK
<1>2. IntentsTypeOK
  BY DEF Init, IntentsInit, IntentsTypeOK, IntentStatus
<1>3. orders \in [Order -> Row]
  BY DEF Init, NoRow, Row, OrderStatus, PaymentStatus
<1> QED
  BY <1>1, <1>2, <1>3 DEF Init, TypeOK

LEMMA TypeStep == TypeOK /\ [Next]_vars => TypeOK'
<1> SUFFICES ASSUME TypeOK, [Next]_vars PROVE TypeOK'
  OBVIOUS
<1>1. CASE \E o \in Order : CreateOrder(o)
  BY <1>1, PlacingType
<1>2. CASE \E o \in Order : SellerStep(o)
  BY <1>2, StatusUpdateType, PickupType DEF SellerStep
<1>3. CASE \E o \in SubOrder : SubscriberStep(o)
  BY <1>3, PlacingType, SubscriptionType, OrdersAssumption DEF SubscriberStep
<1>4. CASE \E o \in Closable : SellerCancelStep(o)
  BY <1>4, SubscriptionType, OrdersAssumption
<1>5. CASE \E o \in Order, e \in Event : Webhook(o, e)
  BY <1>5, WebhookType
<1>6. CASE \E c \in Pass : BillingStep(c)
  BY <1>6, BillingPassType
<1>7. CASE \E x \in charged : BillingStore(x) \/ BillingFail(x)
  BY <1>7, BillingWriteType
<1>8. CASE \E t \in deferred : RunDeferred(t) \/ LoseDeferred(t)
  BY <1>8, DeferredType
<1>9. CASE PassCutoff \/ \E p \in Intent : Expire(p)
  BY <1>9, ClockType
<1>10. CASE UNCHANGED vars
  BY <1>10, UnchangedInventoryType, UnchangedIntentsType
     DEF vars, TypeOK, requestVars, jobVars
<1> QED
  BY <1>1, <1>2, <1>3, <1>4, <1>5, <1>6, <1>7, <1>8, <1>9, <1>10 DEF Next

(* TypeCorrect: every reachable state of every instance is well typed: in   *)
(* particular greatest(0, ...) keeps both counters natural numbers, and no  *)
(* handler writes a status outside the CHECK constraints of the table.      *)
THEOREM TypeCorrect == Spec => []TypeOK
BY TypeInit, TypeStep, PTL DEF Spec
-----------------------------------------------------------------------------
(* The counters.                                                            *)

(* InventoryStep: every step leaves the counters alone or makes one of the  *)
(* three updates with the items of one order, a reservation only after the  *)
(* check under the row locks.                                               *)
LEMMA InventoryStep ==
  ASSUME TypeOK, [Next]_vars
  PROVE  \/ UNCHANGED inventoryVars
         \/ \E o \in Order : \/ Remains(Qty[o]) /\ Reserve(Qty[o])
                             \/ Release(Qty[o])
                             \/ Finalize(Qty[o])
<1> DEFINE Updates(o) == \/ UNCHANGED inventoryVars
                         \/ Remains(Qty[o]) /\ Reserve(Qty[o])
                         \/ Release(Qty[o])
                         \/ Finalize(Qty[o])
<1>s. SubOrder \subseteq Order /\ Closable \subseteq Order
  BY OrdersAssumption
<1>1. ASSUME NEW o \in Order, CreateOrder(o) PROVE Updates(o)
  BY <1>1 DEF CreateOrder
<1>2. ASSUME NEW o \in Order, SellerStep(o) PROVE Updates(o)
  BY <1>2 DEF SellerStep, MarkReady, CancelOrder, NoShow, ConfirmPickup,
              PickupFails, RefundOrder, HandOver
<1>3. ASSUME NEW o \in SubOrder, SubscriberStep(o) PROVE Updates(o)
  BY <1>3 DEF SubscriberStep, SubscribeAdmit, SubscribeRefuse,
              SubscribeCommit, SubscribeRollback, BuyerSetStatus, BuyerCancel
<1>4. ASSUME NEW o \in Closable, SellerCancelStep(o) PROVE Updates(o)
  BY <1>4 DEF SellerCancelStep, SellerCancelEmpty, SellerCancelRead,
              SellerCancelApply, SellerCancelAbort
<1>5. ASSUME NEW o \in Order, NEW e \in Event, Webhook(o, e) PROVE Updates(o)
  BY <1>5 DEF Webhook
<1>6. ASSUME NEW c \in Pass, BillingStep(c) PROVE UNCHANGED inventoryVars
  BY <1>6 DEF BillingStep, BillingScan, BillingCharge, BillingCrash
<1>7. ASSUME NEW x \in charged, BillingStore(x) \/ BillingFail(x)
      PROVE  x.order \in Order /\ Updates(x.order)
  BY <1>7 DEF BillingStore, BillingFail, TypeOK, Charge
<1>8. ASSUME NEW t \in deferred, RunDeferred(t) \/ LoseDeferred(t)
      PROVE  UNCHANGED inventoryVars
  BY <1>8 DEF RunDeferred, LoseDeferred
<1>9. ASSUME PassCutoff \/ \E p \in Intent : Expire(p)
      PROVE  UNCHANGED inventoryVars
  BY <1>9 DEF PassCutoff, Expire
<1>10. ASSUME UNCHANGED vars PROVE UNCHANGED inventoryVars
  BY <1>10 DEF vars
<1> QED
  BY <1>s, <1>1, <1>2, <1>3, <1>4, <1>5, <1>6, <1>7, <1>8, <1>9, <1>10
     DEF Next

LEMMA StockStep ==
  TypeOK /\ ReservedWithinStock /\ [Next]_vars => ReservedWithinStock'
<1> SUFFICES ASSUME TypeOK, ReservedWithinStock, [Next]_vars
             PROVE  ReservedWithinStock'
  OBVIOUS
<1>1. CASE UNCHANGED inventoryVars
  BY <1>1 DEF inventoryVars, ReservedWithinStock
<1>2. ASSUME NEW o \in Order,
             \/ Remains(Qty[o]) /\ Reserve(Qty[o])
             \/ Release(Qty[o])
             \/ Finalize(Qty[o])
      PROVE  ReservedWithinStock'
  BY <1>2, QtyType, ReserveWithin, ReleaseWithin, FinalizeWithin DEF TypeOK
<1> QED
  BY <1>1, <1>2, InventoryStep

(* StockBound: the units promised to buyers never exceed the units left, nor *)
(* these what the seller offered, in spite of releases that run twice.       *)
THEOREM StockBound == Spec => []ReservedWithinStock
<1>1. Init => ReservedWithinStock
  <2> SUFFICES ASSUME Init, NEW f \in Offering
               PROVE  reserved[f] <= available[f] /\ available[f] <= Stock[f]
    BY DEF ReservedWithinStock
  <2>1. Stock[f] \in Nat
    BY StockAssumption
  <2>2. reserved[f] = 0 /\ available[f] = Stock[f]
    BY DEF Init, InventoryInit
  <2> QED
    BY <2>1, <2>2
<1> QED
  BY <1>1, StockStep, TypeCorrect, PTL DEF Spec
-----------------------------------------------------------------------------
(* The statuses.                                                            *)

(* The requests in progress agree with the table: a Subscribe that passed   *)
(* its limit check has no order yet, and a CancelSubscription lists orders  *)
(* that exist.  Both halves of these handlers read the table only once, so  *)
(* the second half relies on it.                                            *)
RequestsCurrent ==
  /\ \A o \in admitted : orders[o].status = "none"
  /\ \A o \in closing : orders[o].status # "none"

StatusInv == TypeOK /\ RequestsCurrent

(* Moved(o): what a step may do to the status of order o: leave it, place   *)
(* it, move it on while it is open, or cancel it late.                      *)
Moved(o) ==
  \/ orders'[o].status = orders[o].status
  \/ /\ orders[o].status = "none"
     /\ orders'[o].status = "placed"
     /\ o \in SubOrder => o \notin admitted'
  \/ orders[o].status \in Open /\ orders'[o].status \in Open \cup Terminal
  \/ o \in closing /\ orders'[o].status = "canceled"

(* Listed(o): what a step may add to the requests in progress.              *)
Listed(o) ==
  /\ o \in admitted' \ admitted => orders'[o].status = "none"
  /\ o \in closing' \ closing => orders'[o].status # "none"

Tidy == \A o \in Order : Moved(o) /\ Listed(o)

(* The common case: a handler writes the row of one order and starts no     *)
(* request.                                                                 *)
LEMMA OneRow ==
  ASSUME NEW o \in Order, Moved(o),
         admitted' \subseteq admitted, closing' \subseteq closing,
         \A x \in Order : x # o => orders'[x] = orders[x]
  PROVE  Tidy
BY DEF Moved, Listed, Tidy

(* The other common case: it writes no row.                                 *)
LEMMA NoRowWritten ==
  ASSUME UNCHANGED orders, admitted' \subseteq admitted,
         closing' \subseteq closing
  PROVE  Tidy
BY DEF Moved, Listed, Tidy

LEMMA HandlerTidy ==
  ASSUME StatusInv, NEW o \in Order,
         CreateOrder(o) \/ SellerStep(o) \/ \E e \in Event : Webhook(o, e)
  PROVE  Tidy
<1> USE DEF StatusInv, TypeOK, requestVars
<1>1. CASE CreateOrder(o)
  <2>1. Moved(o) /\ \A x \in Order : x # o => orders'[x] = orders[x]
    BY <1>1 DEF CreateOrder, Insert, Moved
  <2> QED
    BY <1>1, <2>1, OneRow DEF CreateOrder
<1>2. CASE MarkReady(o)
  <2>1. Moved(o) /\ \A x \in Order : x # o => orders'[x] = orders[x]
    BY <1>2 DEF MarkReady, Moved, Open, Row
  <2> QED
    BY <1>2, <2>1, OneRow DEF MarkReady
<1>3. CASE CancelOrder(o)
  <2>1. Moved(o) /\ \A x \in Order : x # o => orders'[x] = orders[x]
    BY <1>3 DEF CancelOrder, Moved, Open, Terminal, Row
  <2> QED
    BY <1>3, <2>1, OneRow DEF CancelOrder
<1>4. ASSUME NEW waive \in BOOLEAN, NoShow(o, waive)
      PROVE  Tidy
  <2>1. orders[o].status = "ready" /\ orders'[o].status = "no_show"
    BY <1>4 DEF NoShow, Row
  <2>2. \A x \in Order : x # o => orders'[x] = orders[x]
    BY <1>4 DEF NoShow
  <2>3. Moved(o)
    BY <2>1 DEF Moved, Open, Terminal
  <2> QED
    BY <1>4, <2>2, <2>3, OneRow DEF NoShow
<1>5. CASE ConfirmPickup(o)
  <2>1. Moved(o) /\ \A x \in Order : x # o => orders'[x] = orders[x]
    BY <1>5 DEF ConfirmPickup, HandOver, Eligible, IsOpen, Moved, Terminal
  <2> QED
    BY <1>5, <2>1, OneRow DEF ConfirmPickup
<1>6. CASE PickupFails(o) \/ RefundOrder(o)
  BY <1>6, NoRowWritten DEF PickupFails, RefundOrder
<1>7. ASSUME NEW e \in Event, Webhook(o, e)
      PROVE  Tidy
  <2>1. \A x \in Order : x # o => orders'[x] = orders[x]
    BY <1>7 DEF Webhook
  <2>2. \/ orders'[o].status = orders[o].status
        \/ orders[o].status = "placed" /\ orders'[o].status = "canceled"
    <3> DEFINE s == IF e \in CancelsOrder /\ orders[o].status = "placed"
                    THEN "canceled" ELSE orders[o].status
    <3>1. orders' = [orders EXCEPT ![o].payment = EventPayment[e],
                                   ![o].captured = SyncedCaptured(o, e),
                                   ![o].status = s]
      BY <1>7 DEF Webhook, Row
    <3>2. orders'[o].status = s
      <4> HIDE DEF s
      <4> QED
        BY <3>1 DEF Row
    <3> QED
      BY <3>2
  <2>3. Moved(o)
    BY <2>2 DEF Moved, Open, Terminal
  <2> QED
    BY <1>7, <2>1, <2>3, OneRow DEF Webhook
<1> QED
  BY <1>1, <1>2, <1>3, <1>4, <1>5, <1>6, <1>7 DEF SellerStep

LEMMA SubscriptionTidy ==
  ASSUME StatusInv, NEW o \in SubOrder,
         SubscriberStep(o) \/ (o \in Closable /\ SellerCancelStep(o))
  PROVE  Tidy
<1> USE DEF StatusInv, TypeOK, requestVars
<1>o. o \in Order
  BY OrdersAssumption
<1>1. CASE SubscribeAdmit(o)
  BY <1>1 DEF SubscribeAdmit, SubscribeVerified, Tidy, Moved, Listed
<1>2. CASE SubscribeRefuse(o) \/ SubscribeRollback(o)
  BY <1>2, NoRowWritten DEF SubscribeRefuse, SubscribeRollback
<1>3. CASE SubscribeCommit(o)
  <2>1. orders[o].status = "none"
    BY <1>3 DEF RequestsCurrent, SubscribeCommit
  <2>2. /\ orders'[o].status = "placed"
        /\ \A x \in Order : x # o => orders'[x] = orders[x]
    BY <1>3, <1>o DEF SubscribeCommit, Insert
  <2>3. o \notin admitted' /\ admitted' \subseteq admitted
        /\ closing' \subseteq closing
    BY <1>3 DEF SubscribeCommit
  <2>4. Moved(o)
    BY <2>1, <2>2, <2>3 DEF Moved
  <2> QED
    BY <1>o, <2>2, <2>3, <2>4, OneRow
<1>4. CASE \E new \in {"active", "paused"} : BuyerSetStatus(o, new)
  BY <1>4, NoRowWritten DEF BuyerSetStatus
<1>5. CASE BuyerCancel(o)
  <2>1. CASE UNCHANGED orders
    BY <1>5, <2>1, NoRowWritten DEF BuyerCancel
  <2>2. CASE IsOpen(o) /\ ~cutoffPassed
    <3>1. \A x \in Order : x # o => orders'[x] = orders[x]
      BY <1>5, <2>2 DEF BuyerCancel
    <3>2. orders'[o].status = "canceled"
      BY <1>5, <2>2, <1>o DEF BuyerCancel, Row
    <3>3. Moved(o)
      BY <2>2, <3>2 DEF IsOpen, Moved, Terminal
    <3> QED
      BY <1>5, <1>o, <3>1, <3>3, OneRow DEF BuyerCancel
  <2> QED
    BY <1>5, <2>1, <2>2 DEF BuyerCancel
<1>6. CASE o \in Closable /\ SellerCancelStep(o)
  <2>1. CASE SellerCancelEmpty(o) \/ SellerCancelAbort(o)
    BY <2>1, NoRowWritten DEF SellerCancelEmpty, SellerCancelAbort
  <2>2. CASE SellerCancelRead(o)
    BY <2>2 DEF SellerCancelRead, IsOpen, Open, Tidy, Moved, Listed
  <2>3. CASE SellerCancelApply(o)
    <3>1. orders'[o].status = "canceled" /\ o \in closing
      BY <2>3, <1>o DEF SellerCancelApply, Row
    <3>2. \A x \in Order : x # o => orders'[x] = orders[x]
      BY <2>3 DEF SellerCancelApply
    <3>3. Moved(o)
      BY <3>1 DEF Moved
    <3> QED
      BY <2>3, <1>o, <3>2, <3>3, OneRow DEF SellerCancelApply
  <2> QED
    BY <1>6, <2>1, <2>2, <2>3 DEF SellerCancelStep
<1> QED
  BY <1>1, <1>2, <1>3, <1>4, <1>5, <1>6 DEF SubscriberStep

LEMMA BillingTidy ==
  ASSUME StatusInv, NEW x \in charged, BillingStore(x) \/ BillingFail(x)
  PROVE  Tidy
<1> USE DEF StatusInv, TypeOK, requestVars
<1>o. x.order \in Order
  BY DEF Charge
<1>1. CASE BillingStore(x)
  <2>1. orders'[x.order].status = orders[x.order].status
    BY <1>1, <1>o DEF BillingStore, Row
  <2>2. \A y \in Order : y # x.order => orders'[y] = orders[y]
    BY <1>1, <1>o DEF BillingStore
  <2>3. Moved(x.order)
    BY <2>1 DEF Moved
  <2> QED
    BY <1>1, <1>o, <2>2, <2>3, OneRow DEF BillingStore
<1>2. CASE BillingFail(x)
  <2>1. CASE UNCHANGED orders
    BY <1>2, <2>1, NoRowWritten DEF BillingFail
  <2>2. CASE StillPlaced(x.order)
    <3>1. \A y \in Order : y # x.order => orders'[y] = orders[y]
      BY <1>2, <2>2 DEF BillingFail
    <3>2. orders'[x.order].status = "canceled"
      BY <1>2, <2>2, <1>o DEF BillingFail, Row
    <3>3. Moved(x.order)
      BY <2>2, <3>2 DEF StillPlaced, Moved, Open, Terminal
    <3> QED
      BY <1>2, <1>o, <3>1, <3>3, OneRow DEF BillingFail
  <2> QED
    BY <1>2, <2>1, <2>2 DEF BillingFail
<1> QED
  BY <1>1, <1>2

(* StepTidy: every step moves statuses and starts requests as it may.       *)
LEMMA StepTidy ==
  ASSUME StatusInv, [Next]_vars
  PROVE  Tidy
<1> USE DEF requestVars
<1>1. CASE \E o \in Order : CreateOrder(o) \/ SellerStep(o)
  BY <1>1, HandlerTidy
<1>2. CASE \E o \in SubOrder : SubscriberStep(o)
  BY <1>2, SubscriptionTidy
<1>3. CASE \E o \in Closable : SellerCancelStep(o)
  BY <1>3, SubscriptionTidy, OrdersAssumption
<1>4. CASE \E o \in Order, e \in Event : Webhook(o, e)
  BY <1>4, HandlerTidy
<1>5. CASE \E c \in Pass : BillingStep(c)
  BY <1>5, NoRowWritten
     DEF BillingStep, BillingScan, BillingCharge, BillingCrash
<1>6. CASE \E x \in charged : BillingStore(x) \/ BillingFail(x)
  BY <1>6, BillingTidy
<1>7. CASE \E t \in deferred : RunDeferred(t) \/ LoseDeferred(t)
  BY <1>7, NoRowWritten DEF RunDeferred, LoseDeferred
<1>8. CASE PassCutoff \/ \E p \in Intent : Expire(p)
  BY <1>8, NoRowWritten DEF PassCutoff, Expire
<1>9. CASE UNCHANGED vars
  BY <1>9, NoRowWritten DEF vars
<1> QED
  BY <1>1, <1>2, <1>3, <1>4, <1>5, <1>6, <1>7, <1>8, <1>9 DEF Next

LEMMA StatusInvariant == Spec => []StatusInv
<1>1. Init => RequestsCurrent
  BY DEF Init, RequestsCurrent
<1>2. ASSUME StatusInv, [Next]_vars PROVE RequestsCurrent'
  <2>1. Tidy /\ TypeOK'
    BY <1>2, StepTidy, TypeStep DEF StatusInv
  <2>2. admitted' \subseteq SubOrder /\ closing' \subseteq Order
        /\ SubOrder \subseteq Order
    BY <2>1, OrdersAssumption DEF TypeOK
  <2>3. ASSUME NEW o \in admitted' PROVE orders'[o].status = "none"
    BY <1>2, <2>1, <2>2
       DEF Tidy, Moved, Listed, StatusInv, RequestsCurrent, Open
  <2>4. ASSUME NEW o \in closing' PROVE orders'[o].status # "none"
    BY <1>2, <2>1, <2>2
       DEF Tidy, Moved, Listed, StatusInv, RequestsCurrent, Open, Terminal
  <2> QED
    BY <2>3, <2>4 DEF RequestsCurrent
<1>3. StatusInv /\ [Next]_vars => StatusInv'
  BY <1>2, TypeStep DEF StatusInv
<1>4. Init => StatusInv
  BY <1>1, TypeInit DEF StatusInv
<1> QED
  BY <1>3, <1>4, PTL DEF Spec

(* LateCancelOnly: whatever webhooks, billing passes, buyers and sellers do *)
(* at the same time, only a seller's CancelSubscription that listed an      *)
(* order takes it out of a terminal status, and then it is canceled.        *)
THEOREM LateCancelOnly == Spec => OnlyLateCancelOverwrites
<1>1. StatusInv /\ [Next]_vars =>
        [\A o \in Order :
           /\ orders[o].status \in Terminal
           /\ orders'[o].status # orders[o].status
           => o \in closing /\ orders'[o].status = "canceled"]_vars
  BY StepTidy DEF Tidy, Moved, Open, Terminal
<1> QED
  BY <1>1, StatusInvariant, PTL DEF Spec, OnlyLateCancelOverwrites
=============================================================================
