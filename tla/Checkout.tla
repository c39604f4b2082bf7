------------------------------ MODULE Checkout ------------------------------
(***************************************************************************)
(* The two forms by which a buyer pays: the checkout of a pickup window     *)
(* ("order") and of a subscription box ("plan").  A form first asks the     *)
(* server for an intent at Stripe, then has Stripe authorize the card for   *)
(* it, then has the server create the order or subscription for the         *)
(* authorized intent.  The three calls can fail or be lost one by one, the  *)
(* fields stay open during the first, and the page may be left at any time. *)
(***************************************************************************)
EXTENDS Naturals, FiniteSets

CONSTANTS
  Stock,     \* units the offering has left when the page is made
  Intents,   \* bound: intents the server asks of Stripe
  Mishaps    \* what may go wrong: subset of Mishap

Mishap == {"lost", "refused", "declined", "full", "reload"}

ASSUME CheckoutAssumption ==
  /\ Stock \in Nat \ {0}
  /\ Intents \in Nat \ {0}
  /\ Mishaps \subseteq Mishap

VARIABLES
  kind,     \* which of the two forms the page holds
  form,     \* state of the form component
  call,     \* the call the form waits for
  intents,  \* the intents at Stripe, in the order of their creation
  orders,   \* orders or subscriptions created for each intent
  mine,     \* history: intents made for the form shown
  left      \* history: intents of forms that were left

checkoutVars == <<kind, form, call, intents, orders, mine, left>>
atServer == <<intents, orders>>
history == <<mine, left>>

Intent == 1 .. Intents
None == 0
Quantity == 0 .. Stock

Made == {i \in Intent : intents[i].status # "none"}

Form == [qty : Quantity, checkout : 0 .. Intents, items : Quantity,
         submitting : BOOLEAN, done : BOOLEAN]

Op == {"none", "checkout", "confirm", "place"}

(* "sent" and not served yet, or answered.                                  *)
Call == [op : Op, stage : {"sent", "granted", "failed"}, items : Quantity,
         intent : 0 .. Intents]

Held == [mode : {"payment", "setup"}, items : Quantity,
         status : {"none", "open", "authorized", "canceled"}]

CheckoutTypeOK ==
  /\ kind \in {"order", "plan"}
  /\ form \in Form
  /\ call \in Call
  /\ intents \in [Intent -> Held]
  /\ orders \in [Intent -> Nat]
  /\ mine \subseteq Intent
  /\ left \subseteq Intent

(* The quantities of an order start at none (defaultItemQty); a box is one. *)
NewForm == [qty |-> IF kind = "order" THEN 0 ELSE 1, checkout |-> None, items |-> 0,
            submitting |-> FALSE, done |-> FALSE]
NoCall == [op |-> "none", stage |-> "sent", items |-> 0, intent |-> None]

CheckoutInit ==
  /\ kind \in {"order", "plan"}
  /\ form = NewForm
  /\ call = NoCall
  /\ intents = [i \in Intent |-> [mode |-> "payment", items |-> 0, status |-> "none"]]
  /\ orders = [i \in Intent |-> 0]
  /\ mine = {}
  /\ left = {}
-----------------------------------------------------------------------------
(* The form.                                                                *)

(* Mutant of Stepped: the stepper does not stop at its bounds.              *)
SteppedFreely(n) == {n + 1}

(* What the stepper makes of n, between none and what the offering has.     *)
Stepped(n) == {m \in {n - 1, n + 1} : m \in Quantity}

(* The fields are locked by the checkout, and not yet while it is asked for. *)
Locked == form.checkout # None

ChangeQuantity ==
  /\ kind = "order"
  /\ ~form.done
  /\ ~Locked
  /\ \E n \in Stepped(form.qty) : form' = [form EXCEPT !.qty = n]
  /\ UNCHANGED <<kind, call, atServer, history>>

(* Mutant of MayStart: a form in trouble can be sent again.                 *)
MayStartAgain == ~form.submitting /\ form.qty > 0

(* The submit button, with an email filled in.                              *)
MayStart == ~form.submitting /\ form.qty > 0 /\ form.checkout = None

(* The items of the moment go with the request.                             *)
StartCheckout ==
  /\ ~form.done
  /\ MayStart
  /\ call.op = "none"
  /\ form' = [form EXCEPT !.submitting = TRUE]
  /\ call' = [NoCall EXCEPT !.op = "checkout", !.items = form.qty]
  /\ UNCHANGED <<kind, atServer, history>>

(* Mutant of Authorizing: the items are those the form shows.               *)
AuthorizingShown(intent) ==
  form' = [form EXCEPT !.checkout = intent, !.items = form.qty, !.submitting = FALSE]

(* The intent and the items it was made for are kept.                       *)
Authorizing(intent) ==
  form' = [form EXCEPT !.checkout = intent, !.items = call.items, !.submitting = FALSE]

CheckoutStarted ==
  /\ call.op = "checkout" /\ call.stage = "granted"
  /\ Authorizing(call.intent)
  /\ mine' = mine \cup {call.intent}
  /\ call' = NoCall
  /\ UNCHANGED <<kind, atServer, left>>

(* The card element and its button, once there is an intent.                *)
Confirm ==
  /\ form.checkout # None
  /\ ~form.submitting
  /\ ~form.done
  /\ form' = [form EXCEPT !.submitting = TRUE]
  /\ call' = [NoCall EXCEPT !.op = "confirm", !.intent = form.checkout]
  /\ UNCHANGED <<kind, atServer, history>>

(* The order is placed for the kept items and intent.                       *)
Confirmed ==
  /\ call.op = "confirm" /\ call.stage = "granted"
  /\ call' = [NoCall EXCEPT !.op = "place", !.items = form.items, !.intent = form.checkout]
  /\ UNCHANGED <<kind, form, atServer, history>>

(* The token of the order, and that of the subscription, are stored and the *)
(* pickup code shown.                                                       *)
Placed ==
  /\ call.op = "place" /\ call.stage = "granted"
  /\ form' = [form EXCEPT !.done = TRUE, !.submitting = FALSE,
                          !.checkout = IF kind = "plan" THEN None ELSE form.checkout]
  /\ call' = NoCall
  /\ UNCHANGED <<kind, atServer, history>>

(* Mutant of Failed: a failed authorization leaves the form waiting.        *)
FailedWaiting ==
  form' = [form EXCEPT !.submitting = call.op = "confirm"]

(* Mutant of Failed: a failed order forgets the intent.                     *)
FailedForgetting ==
  form' = [form EXCEPT !.submitting = FALSE, !.checkout = None]

(* Whatever failed, the form can be used again, and what was authorized is  *)
(* kept for another try.                                                    *)
Failed == form' = [form EXCEPT !.submitting = FALSE]

CallFailed ==
  /\ call.op # "none" /\ call.stage = "failed"
  /\ Failed
  /\ call' = NoCall
  /\ UNCHANGED <<kind, atServer, history>>

(* The page is loaded anew, or left and opened again: all the form knew is  *)
(* gone, whether its call has been served by then or not.                   *)
Reload ==
  /\ "reload" \in Mishaps
  /\ form' = NewForm
  /\ call' = NoCall
  /\ left' = left \cup mine \cup
       (IF call.op = "checkout" /\ call.stage = "granted" THEN {call.intent} ELSE {})
  /\ mine' = {}
  /\ UNCHANGED <<kind, atServer>>
-----------------------------------------------------------------------------
(* The server and Stripe.                                                   *)

Served(op, stage) ==
  /\ call.op = op /\ call.stage = "sent"
  /\ call' = [call EXCEPT !.stage = stage]

(* An intent for the items; a box whose pickup is more than a week away     *)
(* gets one that only saves the card.  The answer may be lost.              *)
MakesIntent ==
  \E i \in Intent, mode \in {"payment", "setup"} :
    /\ i = Cardinality(Made) + 1
    /\ mode = "setup" => kind = "plan"
    /\ call.op = "checkout" /\ call.stage = "sent"
    /\ intents' = [intents EXCEPT
         ![i] = [mode |-> mode, items |-> call.items, status |-> "open"]]
    /\ \/ call' = [call EXCEPT !.stage = "granted", !.intent = i] /\ UNCHANGED left
       \/ /\ "lost" \in Mishaps
          /\ call' = [call EXCEPT !.stage = "failed"]
          /\ left' = left \cup {i}
    /\ UNCHANGED <<kind, form, orders, mine>>

(* A call that is refused, or lost before it is served.                     *)
Refuses(op) ==
  /\ IF op = "confirm" THEN "declined" \in Mishaps ELSE "refused" \in Mishaps
  /\ Served(op, "failed")
  /\ UNCHANGED <<kind, form, atServer, history>>

(* Stripe confirms an intent that is open, and no other.                    *)
StripeConfirms ==
  /\ intents[call.intent].status = "open"
  /\ intents' = [intents EXCEPT ![call.intent].status = "authorized"]
  /\ \/ Served("confirm", "granted")
     \/ "lost" \in Mishaps /\ Served("confirm", "failed")
  /\ UNCHANGED <<kind, form, orders, history>>

StripeRefuses ==
  /\ intents[call.intent].status # "open"
  /\ Served("confirm", "failed")
  /\ UNCHANGED <<kind, form, atServer, history>>

(* Is the intent authorized, for the amount of these items, and not already *)
(* the payment of an order (orders_stripe_payment_intent_uniq)?             *)
Placeable ==
  /\ intents[call.intent].status = "authorized"
  /\ intents[call.intent].items = call.items
  /\ intents[call.intent].mode = "payment" => orders[call.intent] = 0

Places ==
  /\ Placeable
  /\ orders' = [orders EXCEPT ![call.intent] = @ + 1]
  /\ \/ Served("place", "granted")
     \/ "lost" \in Mishaps /\ Served("place", "failed")
  /\ UNCHANGED <<kind, form, intents, history>>

NotPlaceable ==
  /\ ~Placeable
  /\ Served("place", "failed")
  /\ UNCHANGED <<kind, form, atServer, history>>

(* A full box voids the authorization it was sent.                          *)
BoxFull ==
  /\ "full" \in Mishaps
  /\ kind = "plan"
  /\ Placeable
  /\ Served("place", "failed")
  /\ intents' = [intents EXCEPT ![call.intent].status =
       IF intents[call.intent].mode = "payment" THEN "canceled" ELSE @]
  /\ UNCHANGED <<kind, form, orders, history>>

Answers ==
  \/ MakesIntent
  \/ call.op = "confirm" /\ (StripeConfirms \/ StripeRefuses)
  \/ call.op = "place" /\ (Places \/ NotPlaceable \/ BoxFull)
  \/ \E op \in Op : op # "none" /\ Refuses(op)

Continues == CheckoutStarted \/ Confirmed \/ Placed \/ CallFailed

CheckoutNext ==
  ChangeQuantity \/ StartCheckout \/ Confirm \/ Reload \/ Answers \/ Continues

CheckoutSpec == CheckoutInit /\ [][CheckoutNext]_checkoutVars
-----------------------------------------------------------------------------
(* PlacesWhatIsHeld: an order is asked for the items its card was           *)
(* authorized for, whatever the buyer did to the quantities in the          *)
(* meantime (checkout-form.tsx:44).                                         *)
PlacesWhatIsHeld ==
  call.op = "place" => call.items = intents[call.intent].items

(* OneOrder: one form makes one order or subscription, however often calls  *)
(* fail after the server has carried them out and buttons are pressed again. *)
OneOrder ==
  /\ \A i \in mine : orders[i] <= 1
  /\ \A i, j \in mine : orders[i] > 0 /\ orders[j] > 0 => i = j

(* HoldsRemembered: an authorized card without an order is one that the     *)
(* form still has in hand, unless the page was left.                        *)
HoldsRemembered ==
  \A i \in Made \ left :
    /\ intents[i].status = "authorized"
    /\ orders[i] = 0
    => form.checkout = i
=============================================================================
