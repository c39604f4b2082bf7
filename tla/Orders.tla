------------------------------- MODULE Orders -------------------------------
(***************************************************************************)
(* The life of the orders of one pickup window: placed by a one-off        *)
(* checkout or by a subscription, marked ready, picked up, reported as     *)
(* no-show or canceled by seller, buyer, billing job or Stripe.  A handler *)
(* that works inside one transaction under the order's row lock is one     *)
(* action.  What it does outside is a step of its own: the Stripe calls    *)
(* after commit, the two halves of Subscribe, the list of orders that the  *)
(* seller's CancelSubscription reads without locking them, and the billing *)
(* job, which works from a snapshot.                                       *)
(*                                                                         *)
(* A subscription is named by its first order, the only one it gets inside *)
(* one window (orders_subscription_pickup_window_uniq).                    *)
(***************************************************************************)
EXTENDS Inventory, PaymentIntents, Fees, FiniteSets

CONSTANTS
  SubOrder,         \* orders that open a subscription (the others are one-off)
  SetupCheckout,    \* subscriptions opened with a saved card and no hold yet
  Closable,         \* subscriptions that the seller may cancel
  SameCheckout,     \* the order for whose checkout session a request is sent:
                    \* two requests of one session are a double submit; a
                    \* session saves a card or holds an amount, never both
  Qty,              \* the items of each order
  Total,            \* orders.total_cents
  Deposit,          \* orders.deposit_cents
  NoShowFeeCents,   \* configured NO_SHOW_FEE_CENTS
  Limit,            \* subscription_plans.subscriber_limit
  Pass              \* runs of the billing job that can overlap

ASSUME OrdersAssumption ==
  /\ SubOrder \subseteq Order
  /\ SetupCheckout \subseteq SubOrder
  /\ Closable \subseteq SubOrder
  /\ SameCheckout \in [Order -> Order]
  /\ \A o \in Order : SameCheckout[o] \in SetupCheckout <=> o \in SetupCheckout
  /\ Qty \in [Order -> Items]
  /\ Total \in [Order -> Nat \ {0}]
  /\ Deposit \in [Order -> Nat]
  /\ NoShowFeeCents \in Int
  /\ Limit \in Nat

VARIABLES
  orders,         \* the orders table
  subscription,   \* subscriptions.status
  admitted,       \* Subscribe requests that passed the limit check
  closing,        \* CancelSubscription requests that listed their open order
  deferred,       \* Stripe calls that handlers make after their commit
  scan,           \* candidates each billing pass still has to charge
  charged,        \* answers that billing passes have not written back yet
  cutoffPassed,   \* whether the window's cutoff_at is over
  stale           \* history: orders canceled by CancelSubscription after
                  \* another handler had already closed them

requestVars == <<subscription, admitted, closing, stale>>
jobVars == <<scan, charged>>
vars == <<inventoryVars, stripeVars, orders, requestVars, deferred, jobVars,
          cutoffPassed>>

Open == {"placed", "ready"}
Terminal == {"picked_up", "no_show", "canceled"}
OrderStatus == Open \cup Terminal \cup {"none"}
PaymentStatus ==
  {"none", "pending", "authorized", "paid", "voided", "failed",
   "requires_action", "refunded"}

Row == [status: OrderStatus, payment: PaymentStatus, captured: Nat,
        intent: Intent \cup {NoIntent}, pickedUp: BOOLEAN]
NoRow == [status |-> "none", payment |-> "none", captured |-> 0,
          intent |-> NoIntent, pickedUp |-> FALSE]

SubscriptionStatus == {"active", "paused", "canceled"}
Call == [op: {"cancel", "capture", "refund"}, intent: Intent, amount: Nat]
Outcome == {"store", "failed", "requires_action"}
Charge == [pass: Pass, order: Order, outcome: Outcome]

TypeOK ==
  /\ InventoryTypeOK
  /\ IntentsTypeOK
  /\ orders \in [Order -> Row]
  /\ subscription \in [SubOrder -> SubscriptionStatus \cup {"none"}]
  /\ admitted \in SUBSET SubOrder
  /\ closing \in SUBSET Closable
  /\ deferred \in SUBSET Call
  /\ scan \in [Pass -> SUBSET SubOrder]
  /\ charged \in SUBSET Charge
  /\ cutoffPassed \in BOOLEAN
  /\ stale \in SUBSET Closable

CheckoutOf(o) == Checkout(SameCheckout[o])

Init ==
  /\ InventoryInit
  /\ IntentsInit({CheckoutOf(o) : o \in Order \ SetupCheckout})
  /\ orders = [o \in Order |-> NoRow]
  /\ subscription = [o \in SubOrder |-> "none"]
  /\ admitted = {}
  /\ closing = {}
  /\ deferred = {}
  /\ scan = [c \in Pass |-> {}]
  /\ charged = {}
  /\ cutoffPassed = FALSE
  /\ stale = {}

IsOpen(o) == orders[o].status \in Open

(* Mutant of Defer: the call that should follow the commit is never made.   *)
DeferNothing(op, p, amount) == UNCHANGED deferred

(* A Stripe call with an empty intent id fails and its error is ignored.    *)
Defer(op, p, amount) ==
  deferred' = IF p = NoIntent THEN deferred
              ELSE deferred \cup {[op |-> op, intent |-> p, amount |-> amount]}
-----------------------------------------------------------------------------
(* Placing orders.                                                         *)

Insert(o, payment, p) ==
  orders' = [orders EXCEPT ![o] =
               [status |-> "placed", payment |-> payment, captured |-> 0,
                intent |-> p, pickedUp |-> FALSE]]

(* orders_stripe_payment_intent_uniq: an insert with a used intent fails.   *)
NotBound(p) == \A x \in Order : orders[x].intent # p

CreateOrder(o) ==
  /\ o \notin SubOrder
  /\ orders[o].status = "none"
  /\ ~cutoffPassed
  /\ Remains(Qty[o])
  /\ Held(CheckoutOf(o))
  /\ NotBound(CheckoutOf(o))
  /\ Reserve(Qty[o])
  /\ Insert(o, "authorized", CheckoutOf(o))
  /\ UNCHANGED <<stripeVars, requestVars, deferred, jobVars, cutoffPassed>>

(* Subscribe verifies the intent and counts the active subscribers without  *)
(* a lock; the rest of its transaction comes later.                         *)
ActiveCount == Cardinality({o \in SubOrder : subscription[o] = "active"})

SubscribeVerified(o) ==
  /\ o \in SubOrder \ admitted
  /\ orders[o].status = "none"
  /\ ~cutoffPassed
  /\ o \in SetupCheckout \/ Held(CheckoutOf(o))

VoidCheckout(o) ==
  IF o \in SetupCheckout THEN UNCHANGED stripeVars
  ELSE CancelPaymentIntent(CheckoutOf(o))

SubscribeAdmit(o) ==
  /\ SubscribeVerified(o)
  /\ ActiveCount < Limit
  /\ admitted' = admitted \cup {o}
  /\ UNCHANGED <<inventoryVars, stripeVars, orders, subscription, closing,
                 stale, deferred, jobVars, cutoffPassed>>

SubscribeRefuse(o) ==
  /\ SubscribeVerified(o)
  /\ ActiveCount >= Limit
  /\ VoidCheckout(o)
  /\ UNCHANGED <<inventoryVars, orders, requestVars, deferred, jobVars,
                 cutoffPassed>>

SubscribeCommit(o) ==
  /\ o \in admitted
  /\ ~cutoffPassed
  /\ Remains(Qty[o])
  /\ o \in SetupCheckout \/ NotBound(CheckoutOf(o))
  /\ Reserve(Qty[o])
  /\ IF o \in SetupCheckout THEN Insert(o, "pending", NoIntent)
     ELSE Insert(o, "authorized", CheckoutOf(o))
  /\ subscription' = [subscription EXCEPT ![o] = "active"]
  /\ admitted' = admitted \ {o}
  /\ UNCHANGED <<stripeVars, closing, stale, deferred, jobVars, cutoffPassed>>

(* The request ends without a subscription: the offering has no unit left   *)
(* (the intent is canceled), the intent already belongs to an order (the    *)
(* insert fails), the request stops, or the cutoff passed meanwhile and it  *)
(* is served from the next cycle, which is another window.                  *)
SubscribeRollback(o) ==
  /\ o \in admitted
  /\ \/ ~Remains(Qty[o]) /\ VoidCheckout(o)
     \/ /\ \/ o \notin SetupCheckout /\ ~NotBound(CheckoutOf(o))
           \/ cutoffPassed
           \/ "crash" \in Faults
        /\ UNCHANGED stripeVars
  /\ admitted' = admitted \ {o}
  /\ UNCHANGED <<inventoryVars, orders, subscription, closing, stale, deferred,
                 jobVars, cutoffPassed>>
-----------------------------------------------------------------------------
(* The seller's status updates.                                            *)

MarkReady(o) ==
  /\ orders[o].status = "placed"
  /\ orders' = [orders EXCEPT ![o].status = "ready"]
  /\ UNCHANGED <<inventoryVars, stripeVars, requestVars, deferred, jobVars,
                 cutoffPassed>>

(* Mutant of CancelOrder: an order that is ready can be canceled, too.       *)
CancelOrderLate(o) ==
  /\ orders[o].status \in {"placed", "ready"}
  /\ Release(Qty[o])
  /\ orders' = [orders EXCEPT ![o].status = "canceled",
                              ![o].payment = "voided"]
  /\ Defer("cancel", orders[o].intent, 0)
  /\ UNCHANGED <<stripeVars, requestVars, jobVars, cutoffPassed>>

CancelOrder(o) ==
  /\ orders[o].status = "placed"
  /\ Release(Qty[o])
  /\ orders' = [orders EXCEPT ![o].status = "canceled",
                              ![o].payment = "voided"]
  /\ Defer("cancel", orders[o].intent, 0)
  /\ UNCHANGED <<stripeVars, requestVars, jobVars, cutoffPassed>>

FeeFor(o) == NoShowFee(Deposit[o], NoShowFeeCents, Total[o])

(* Mutant of ChargesFee: does not ask whether the order was authorized.     *)
ChargesFeeUnchecked(o, waive) == ~waive /\ FeeFor(o) > 0

ChargesFee(o, waive) ==
  ~waive /\ orders[o].payment = "authorized" /\ FeeFor(o) > 0

NoShow(o, waive) ==
  LET charge == ChargesFee(o, waive)
  IN
  /\ orders[o].status = "ready"
  /\ Release(Qty[o])
  /\ orders' = [orders EXCEPT
                  ![o].status = "no_show",
                  ![o].payment = IF charge THEN "paid" ELSE "voided",
                  ![o].captured = IF charge THEN FeeFor(o) ELSE 0]
  /\ IF charge THEN Defer("capture", orders[o].intent, FeeFor(o))
     ELSE Defer("cancel", orders[o].intent, 0)
  /\ UNCHANGED <<stripeVars, requestVars, jobVars, cutoffPassed>>
-----------------------------------------------------------------------------
(* Pickup.  The handler never looks at payment_status; without an intent it *)
(* authorizes the saved card on the spot, inside the transaction, and takes *)
(* the new intent whatever its status.                                     *)

(* Mutant of Eligible: any order of the store can be collected, again.      *)
EligibleUnchecked(o) == orders[o].status # "none"

Eligible(o) == IsOpen(o)

HandOver(o, p) ==
  /\ Finalize(Qty[o])
  /\ orders' = [orders EXCEPT ![o] =
                  [status |-> "picked_up", payment |-> "paid",
                   captured |-> Total[o], intent |-> p, pickedUp |-> TRUE]]
  /\ Defer("capture", p, Total[o])

ConfirmPickup(o) ==
  /\ Eligible(o)
  /\ \/ /\ orders[o].intent # NoIntent
        /\ UNCHANGED stripeVars
        /\ HandOver(o, orders[o].intent)
     \/ /\ orders[o].intent = NoIntent
        /\ o \in SubOrder
        /\ \E seen \in Reply \ {"error"} :
             CreateOffSessionAuthorization(JitAuth(o), seen)
        /\ HandOver(o, JitAuth(o))
  /\ UNCHANGED <<requestVars, jobVars, cutoffPassed>>

(* The charge fails, or the transaction does after it: the row is as before *)
(* and an intent may have been left at Stripe.                              *)
PickupFails(o) ==
  /\ Eligible(o)
  /\ orders[o].intent = NoIntent
  /\ o \in SubOrder
  /\ \/ CreateOffSessionAuthorization(JitAuth(o), "error")
     \/ /\ "crash" \in Faults
        /\ \E seen \in Reply : CreateOffSessionAuthorization(JitAuth(o), seen)
  /\ UNCHANGED <<inventoryVars, orders, requestVars, deferred, jobVars,
                 cutoffPassed>>

(* The row is checked under its lock, which is given up before the call to  *)
(* Stripe; payment_status follows the webhook.                              *)
RefundOrder(o) ==
  /\ orders[o].payment = "paid"
  /\ orders[o].status \in {"picked_up", "ready"}
  /\ Defer("refund", orders[o].intent, 0)
  /\ UNCHANGED <<inventoryVars, stripeVars, orders, requestVars, jobVars,
                 cutoffPassed>>
-----------------------------------------------------------------------------
(* Stripe calls made after the transaction has ended.                      *)

(* Mutant of RunDeferred: the cancel and capture branches are swapped.      *)
RunDeferredSwapped(t) ==
  /\ t \in deferred
  /\ deferred' = deferred \ {t}
  /\ \/ t.op = "capture" /\ CancelPaymentIntent(t.intent)
     \/ t.op = "cancel" /\ CaptureAuthorization(t.intent, t.amount)
     \/ t.op = "refund" /\ Refund(t.intent)
  /\ UNCHANGED <<inventoryVars, orders, requestVars, jobVars, cutoffPassed>>

RunDeferred(t) ==
  /\ t \in deferred
  /\ deferred' = deferred \ {t}
  /\ \/ t.op = "cancel" /\ CancelPaymentIntent(t.intent)
     \/ t.op = "capture" /\ CaptureAuthorization(t.intent, t.amount)
     \/ t.op = "refund" /\ Refund(t.intent)
  /\ UNCHANGED <<inventoryVars, orders, requestVars, jobVars, cutoffPassed>>

LoseDeferred(t) ==
  /\ "crash" \in Faults
  /\ t \in deferred
  /\ deferred' = deferred \ {t}
  /\ UNCHANGED <<inventoryVars, stripeVars, orders, requestVars, jobVars,
                 cutoffPassed>>
-----------------------------------------------------------------------------
(* Stripe webhooks.  An event whose intent no order carries is dropped.     *)

ValidPaymentTransition ==
  {<<"pending", "authorized">>, <<"pending", "paid">>, <<"pending", "failed">>,
   <<"authorized", "paid">>, <<"authorized", "voided">>,
   <<"authorized", "failed">>,
   <<"requires_action", "authorized">>, <<"requires_action", "paid">>,
   <<"requires_action", "failed">>, <<"requires_action", "voided">>,
   <<"failed", "authorized">>, <<"failed", "paid">>,
   <<"paid", "refunded">>}

Event == {"payment_intent.requires_capture", "payment_intent.succeeded",
          "payment_intent.canceled", "payment_intent.payment_failed",
          "charge.refunded"}
EventPayment ==
  [e \in Event |->
     CASE e = "payment_intent.requires_capture" -> "authorized"
       [] e = "payment_intent.succeeded" -> "paid"
       [] e = "payment_intent.canceled" -> "voided"
       [] e = "payment_intent.payment_failed" -> "failed"
       [] e = "charge.refunded" -> "refunded"]

(* Mutant of CancelsOrder: a lapsed or canceled hold leaves the order open. *)
CancelsOrderOnDecline == {"payment_intent.payment_failed"}

CancelsOrder == {"payment_intent.canceled", "payment_intent.payment_failed"}

(* Mutant of SyncedCaptured: a refund resets captured_cents.                *)
SyncedCapturedReset(o, e) ==
  IF e = "payment_intent.succeeded" THEN received[orders[o].intent] ELSE 0

SyncedCaptured(o, e) ==
  CASE e = "charge.refunded" -> orders[o].captured
    [] e = "payment_intent.succeeded" -> received[orders[o].intent]
    [] OTHER -> 0

Webhook(o, e) ==
  LET cancel == e \in CancelsOrder /\ orders[o].status = "placed"
  IN
  /\ orders[o].intent # NoIntent
  /\ Sent(orders[o].intent, e)
  /\ <<orders[o].payment, EventPayment[e]>> \in ValidPaymentTransition
  /\ orders' = [orders EXCEPT
                  ![o].payment = EventPayment[e],
                  ![o].captured = SyncedCaptured(o, e),
                  ![o].status = IF cancel THEN "canceled" ELSE @]
  /\ IF cancel THEN Release(Qty[o]) ELSE UNCHANGED inventoryVars
  /\ UNCHANGED <<stripeVars, requestVars, deferred, jobVars, cutoffPassed>>
-----------------------------------------------------------------------------
(* Subscriptions.  Every handler locks the subscription row, so none runs   *)
(* between the two steps of CancelSubscription.                            *)

BuyerSetStatus(o, new) ==
  /\ subscription[o] # "none"
  /\ o \notin closing
  /\ subscription' = [subscription EXCEPT ![o] = new]
  /\ UNCHANGED <<inventoryVars, stripeVars, orders, admitted, closing, stale,
                 deferred, jobVars, cutoffPassed>>

BuyerCancel(o) ==
  /\ subscription[o] # "none"
  /\ o \notin closing
  /\ subscription' = [subscription EXCEPT ![o] = "canceled"]
  /\ IF IsOpen(o) /\ ~cutoffPassed
     THEN /\ Release(Qty[o])
          /\ orders' = [orders EXCEPT
                          ![o].status = "canceled",
                          ![o].payment =
                             IF orders[o].intent = NoIntent THEN @ ELSE "voided"]
          /\ IF orders[o].payment = "authorized"
             THEN Defer("cancel", orders[o].intent, 0)
             ELSE UNCHANGED deferred
     ELSE UNCHANGED <<inventoryVars, orders, deferred>>
  /\ UNCHANGED <<stripeVars, admitted, closing, stale, jobVars, cutoffPassed>>

SellerCancelable(o) ==
  /\ o \in Closable \ closing
  /\ subscription[o] \in {"active", "paused"}

(* No order to cancel: the whole transaction is the status update.          *)
SellerCancelEmpty(o) ==
  /\ SellerCancelable(o)
  /\ ~IsOpen(o)
  /\ subscription' = [subscription EXCEPT ![o] = "canceled"]
  /\ UNCHANGED <<inventoryVars, stripeVars, orders, admitted, closing, stale,
                 deferred, jobVars, cutoffPassed>>

SellerCancelRead(o) ==
  /\ SellerCancelable(o)
  /\ IsOpen(o)
  /\ closing' = closing \cup {o}
  /\ UNCHANGED <<inventoryVars, stripeVars, orders, subscription, admitted,
                 stale, deferred, jobVars, cutoffPassed>>

(* The listed order is released and canceled whatever its status is now;    *)
(* its payment is left as it is.                                            *)
SellerCancelApply(o) ==
  /\ o \in closing
  /\ Release(Qty[o])
  /\ orders' = [orders EXCEPT ![o].status = "canceled"]
  /\ subscription' = [subscription EXCEPT ![o] = "canceled"]
  /\ closing' = closing \ {o}
  /\ stale' = IF IsOpen(o) THEN stale ELSE stale \cup {o}
  /\ UNCHANGED <<stripeVars, admitted, deferred, jobVars, cutoffPassed>>

SellerCancelAbort(o) ==
  /\ "crash" \in Faults
  /\ o \in closing
  /\ closing' = closing \ {o}
  /\ UNCHANGED <<inventoryVars, stripeVars, orders, subscription, admitted,
                 stale, deferred, jobVars, cutoffPassed>>
-----------------------------------------------------------------------------
(* The billing job.  A pass lists its candidates once, charges them one     *)
(* after the other, and writes each answer back in a statement of its own.  *)

(* Mutant of Candidates: the pass looks for orders already marked ready.    *)
CandidatesReady ==
  {o \in SubOrder : /\ orders[o].status = "ready"
                    /\ orders[o].payment = "pending"
                    /\ orders[o].intent = NoIntent}

Candidates ==
  {o \in SubOrder : /\ orders[o].status = "placed"
                    /\ orders[o].payment = "pending"
                    /\ orders[o].intent = NoIntent}

Writing(c) == {x \in charged : x.pass = c}

BillingScan(c) ==
  /\ scan[c] = {} /\ Writing(c) = {}
  /\ Candidates # {}
  /\ scan' = [scan EXCEPT ![c] = Candidates]
  /\ UNCHANGED <<inventoryVars, stripeVars, orders, requestVars, deferred,
                 charged, cutoffPassed>>

OutcomeOf(seen) ==
  CASE seen = "requires_capture" -> "store"
    [] seen = "requires_action" -> "requires_action"
    [] seen = "error" -> "failed"

BillingCharge(c, o) ==
  /\ Writing(c) = {}
  /\ o \in scan[c]
  /\ scan' = [scan EXCEPT ![c] = @ \ {o}]
  /\ \E seen \in Reply :
       /\ CreateOffSessionAuthorization(BillingAuth(o), seen)
       /\ charged' = charged \cup
                       {[pass |-> c, order |-> o, outcome |-> OutcomeOf(seen)]}
  /\ UNCHANGED <<inventoryVars, orders, requestVars, deferred, cutoffPassed>>

(* The update names the order only: it does not ask whether the order is    *)
(* still placed, pending and without an intent.                             *)
BillingStore(x) ==
  /\ x \in charged
  /\ x.outcome = "store"
  /\ charged' = charged \ {x}
  /\ orders' = [orders EXCEPT ![x.order].intent = BillingAuth(x.order),
                              ![x.order].payment = "authorized"]
  /\ UNCHANGED <<inventoryVars, stripeVars, requestVars, deferred, scan,
                 cutoffPassed>>

(* Mutant of StillPlaced: cancels on the word of the snapshot.              *)
StillPlacedAssumed(o) == TRUE

StillPlaced(o) == orders[o].status = "placed"

(* failAndCancel, after a best-effort cancel of an intent that needs the    *)
(* buyer: nobody else knows that intent, so one step stands for both.       *)
BillingFail(x) ==
  /\ x \in charged
  /\ x.outcome # "store"
  /\ charged' = charged \ {x}
  /\ IF x.outcome = "requires_action"
     THEN CancelPaymentIntent(BillingAuth(x.order))
     ELSE UNCHANGED stripeVars
  /\ IF StillPlaced(x.order)
     THEN /\ Release(Qty[x.order])
          /\ orders' = [orders EXCEPT ![x.order].status = "canceled",
                                      ![x.order].payment = x.outcome]
     ELSE UNCHANGED <<inventoryVars, orders>>
  /\ UNCHANGED <<requestVars, deferred, scan, cutoffPassed>>

BillingCrash(c) ==
  /\ "crash" \in Faults
  /\ scan' = [scan EXCEPT ![c] = {}]
  /\ charged' = charged \ Writing(c)
  /\ UNCHANGED <<inventoryVars, stripeVars, orders, requestVars, deferred,
                 cutoffPassed>>
-----------------------------------------------------------------------------
PassCutoff ==
  /\ ~cutoffPassed
  /\ cutoffPassed' = TRUE
  /\ UNCHANGED <<inventoryVars, stripeVars, orders, requestVars, deferred,
                 jobVars>>

Expire(p) ==
  /\ ExpireHold(p)
  /\ UNCHANGED <<inventoryVars, orders, requestVars, deferred, jobVars,
                 cutoffPassed>>

SellerStep(o) ==
  \/ MarkReady(o)
  \/ CancelOrder(o)
  \/ \E waive \in BOOLEAN : NoShow(o, waive)
  \/ ConfirmPickup(o)
  \/ PickupFails(o)
  \/ RefundOrder(o)

SubscriberStep(o) ==
  \/ SubscribeAdmit(o)
  \/ SubscribeRefuse(o)
  \/ SubscribeCommit(o)
  \/ SubscribeRollback(o)
  \/ \E new \in {"active", "paused"} : BuyerSetStatus(o, new)
  \/ BuyerCancel(o)

SellerCancelStep(o) ==
  \/ SellerCancelEmpty(o)
  \/ SellerCancelRead(o)
  \/ SellerCancelApply(o)
  \/ SellerCancelAbort(o)

BillingStep(c) ==
  \/ BillingScan(c)
  \/ \E o \in SubOrder : BillingCharge(c, o)
  \/ BillingCrash(c)

Next ==
  \/ \E o \in Order : CreateOrder(o) \/ SellerStep(o)
  \/ \E o \in SubOrder : SubscriberStep(o)
  \/ \E o \in Closable : SellerCancelStep(o)
  \/ \E o \in Order, e \in Event : Webhook(o, e)
  \/ \E c \in Pass : BillingStep(c)
  \/ \E x \in charged : BillingStore(x) \/ BillingFail(x)
  \/ \E t \in deferred : RunDeferred(t) \/ LoseDeferred(t)
  \/ \E p \in Intent : Expire(p)
  \/ PassCutoff

Spec == Init /\ [][Next]_vars
=============================================================================
