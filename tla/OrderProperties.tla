-------------------------- MODULE OrderProperties ---------------------------
(***************************************************************************)
(* What should be true of the orders of a window.  The properties relate   *)
(* the three records of one sale that no transaction updates together: the *)
(* row of the order, the counters of its offerings, and the card at Stripe. *)
(***************************************************************************)
EXTENDS Orders

(* The order book reads off the rows.                                       *)
Promise == INSTANCE OrderBook WITH status <- [o \in Order |-> orders[o].status]

(* The units of offering f that the orders of S hold.                      *)
Units(S, f) == Promise!Units(S, f)

OpenOrders == {o \in Order : IsOpen(o)}
PickedUp == {o \in Order : orders[o].pickedUp}

Captured(p) == intent[p] \in {"succeeded", "refunded"}
IntentsOf(o) == {CheckoutOf(o), BillingAuth(o), JitAuth(o)}
-----------------------------------------------------------------------------
(* Inventory.                                                              *)

(* CountersExact: whatever the interleaving of sellers, buyers, webhooks    *)
(* and billing passes, quantity_reserved is the sum over the open orders    *)
(* and quantity_available is what was offered less what was collected, for  *)
(* every offering that no late CancelSubscription has released twice.       *)
CountersExact ==
  \A f \in Offering :
    (\A o \in stale : Qty[o][f] = 0) =>
      /\ reserved[f] = Cardinality(Units(OpenOrders, f))
      /\ available[f] + Cardinality(Units(PickedUp, f)) = Stock[f]

(* NoOversell: the units of open orders and of collected ones never exceed  *)
(* what the seller offered (docs/domain.md:39).                             *)
NoOversell ==
  \A f \in Offering :
    Cardinality(Units(OpenOrders \cup PickedUp, f)) <= Stock[f]
-----------------------------------------------------------------------------
(* Order status.                                                           *)

(* OnlyLateCancelOverwrites: the one way out of a terminal status is a      *)
(* CancelSubscription that listed the order while it was open, and such an  *)
(* order ends up canceled.                                                  *)
OnlyLateCancelOverwrites ==
  [][\A o \in Order :
       /\ orders[o].status \in Terminal
       /\ orders'[o].status # orders[o].status
       => o \in closing /\ orders'[o].status = "canceled"]_vars

(* A subscription that ends takes along an order that is ready already: the  *)
(* one move the code makes and the order book excludes ("ready -> canceled   *)
(* (can only cancel from placed)", order_lifecycle_test.go:16).              *)
SubscriptionEnds ==
  \E o \in SubOrder :
    /\ Promise!Move(o, {"ready"}, "canceled")
    /\ subscription'[o] = "canceled"

(* KeepsPromise: the handlers implement the order book, and go beyond it     *)
(* only where a subscription ends.                                           *)
KeepsPromise ==
  /\ Promise!Init
  /\ [][Promise!Next \/ SubscriptionEnds]_[o \in Order |-> orders[o].status]
-----------------------------------------------------------------------------
(* Payments.                                                               *)

(* ChargedAtMostOnce: of the up to three intents that exist for an order    *)
(* (checkout, billing job, pickup) at most one is ever captured, in spite   *)
(* of the double holds that races and lost answers leave behind.            *)
ChargedAtMostOnce ==
  \A o \in Order : Cardinality({p \in IntentsOf(o) : Captured(p)}) <= 1

(* ChargedOnlyIfFulfilled: money is taken only for an order that was        *)
(* collected or not shown for (or that a late CancelSubscription turned     *)
(* into a canceled one afterwards).                                         *)
ChargedOnlyIfFulfilled ==
  \A p \in Intent : Captured(p) =>
    \E o \in Order : /\ p \in IntentsOf(o)
                     /\ \/ orders[o].status \in {"picked_up", "no_show"}
                        \/ o \in stale

(* CapturedAgrees: captured_cents, written before the capture is tried, is  *)
(* the amount Stripe took once the order's intent is captured.              *)
CapturedAgrees ==
  \A o \in Order :
    LET p == orders[o].intent
    IN  p # NoIntent /\ Captured(p) => received[p] = orders[o].captured

(* PaidIsCovered: the money of an order that the store sees as paid has been *)
(* taken, or a capture of the amount the row shows is on its way and finds   *)
(* the card still held.  (Where calls arrive, buyers need not come back,     *)
(* holds do not lapse and no checkout is submitted twice: with the other     *)
(* faults the code shows orders as paid that never will be.)                 *)
PaidIsCovered ==
  \A o \in Order : orders[o].payment = "paid" =>
    LET p == orders[o].intent
    IN  \/ p # NoIntent /\ Captured(p)
        \/ /\ Held(p)
           /\ [op |-> "capture", intent |-> p, amount |-> orders[o].captured]
                \in deferred

(* OneHoldPerOrder: the card is never held twice for one order; the         *)
(* idempotency key is "Used to avoid double-auth when retrying"             *)
(* (stripepay.go:160).                                                      *)
OneHoldPerOrder ==
  \A o \in Order : Cardinality({p \in IntentsOf(o) : Held(p)}) <= 1

(* CanceledHoldsNothing: the card of a canceled order is not held, unless   *)
(* the call that releases it is still to be made.                           *)
CanceledHoldsNothing ==
  \A o \in Order :
    orders[o].status = "canceled" /\ Held(orders[o].intent) =>
      \E t \in deferred : t.op = "cancel" /\ t.intent = orders[o].intent

(* WebhookKeepsLiveOrder: an event never cancels an order whose hold is     *)
(* intact (stripe_webhook.go:157: out-of-order webhooks cannot corrupt      *)
(* state).                                                                  *)
WebhookKeepsLiveOrder ==
  [][\A o \in Order, e \in Event :
       Webhook(o, e) /\ Held(orders[o].intent) =>
         orders'[o].status = orders[o].status]_vars
-----------------------------------------------------------------------------
(* Liveness.  Sellers, buyers and cards do as they like.  What runs by      *)
(* itself is fair: the rest of a handler after its commit, the billing job, *)
(* which a ticker starts again and again, and webhooks, which Stripe sends  *)
(* again until they are answered.                                           *)

Fairness ==
  /\ \A p \in Intent, op \in {"cancel", "capture", "refund"} :
       WF_vars(\E t \in deferred :
                 t.op = op /\ t.intent = p /\ RunDeferred(t))
  /\ \A o \in Order, e \in Event : WF_vars(Webhook(o, e))
  /\ \A c \in Pass :
       /\ WF_vars(BillingScan(c))
       /\ \A o \in SubOrder :
            /\ WF_vars(BillingCharge(c, o))
            /\ WF_vars(\E x \in Writing(c) :
                         x.order = o /\ (BillingStore(x) \/ BillingFail(x)))

FairSpec == Spec /\ Fairness

(* DeadHoldReconciled: a placed order whose hold is gone (lapsed, or        *)
(* canceled by a second request of the same checkout) is canceled in the    *)
(* end, so its units go back on sale.                                       *)
DeadHoldReconciled ==
  \A o \in Order :
    (/\ orders[o].status = "placed"
     /\ orders[o].intent # NoIntent
     /\ intent[orders[o].intent] = "canceled")
      ~> orders[o].status # "placed"

(* PendingGetsCharged: the billing job settles every placed order that has  *)
(* no hold: it is authorized, or no longer placed.                          *)
PendingGetsCharged ==
  \A o \in SubOrder :
    (orders[o].status = "placed" /\ orders[o].payment = "pending")
      ~> (orders[o].status # "placed" \/ orders[o].payment # "pending")

(* PaidGetsCaptured: the money of an order that the store sees as paid is   *)
(* taken in the end, or the order stops being shown as paid ("webhook will  *)
(* reconcile", pickup_execute.go:174).                                      *)
PaidGetsCaptured ==
  \A o \in Order :
    (orders[o].payment = "paid")
      ~> (orders[o].payment # "paid" \/ Captured(orders[o].intent))
=============================================================================
