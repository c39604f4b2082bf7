--------------------------- MODULE Checkout_proofs ---------------------------
(***************************************************************************)
(* For any stock, any number of intents and any mishaps: a form places what *)
(* its card is held for, makes one order, and does not lose sight of a card *)
(* it had authorized.                                                       *)
(***************************************************************************)
EXTENDS Checkout, FiniteSetTheorems, TLAPS

Waits(op, stage) == call.op = op /\ call.stage = stage

(* Intents are made one after the other.                                    *)
MadeInOrder == \E n \in 0 .. Intents : Made = 1 .. n

(* A call is made for the intent the form has, and one for an intent only   *)
(* as long as the form has none.                                            *)
CallInv ==
  /\ call.op = "checkout" => form.checkout = None /\ ~form.done
  /\ call.op \in {"confirm", "place"} =>
       form.checkout # None /\ call.intent = form.checkout
  /\ Waits("checkout", "granted") =>
       /\ call.intent \in Made \ mine
       /\ intents[call.intent].status = "open"

(* The items kept with an intent, and sent with a call, are those it is for. *)
ItemsInv ==
  /\ form.checkout # None => form.checkout \in Made /\ intents[form.checkout].items = form.items
  /\ Waits("checkout", "granted") => intents[call.intent].items = call.items
  /\ call.op = "place" => intents[call.intent].items = call.items

(* A form has had one intent in hand, and has it still or is done.          *)
MineInv ==
  /\ mine \subseteq Made
  /\ \A i, j \in mine : i = j
  /\ form.checkout # None => form.checkout \in mine
  /\ form.checkout = None /\ ~form.done => mine = {}

(* An intent makes an order once it is authorized, and it is sent once.     *)
OrdersInv ==
  /\ \A i \in Intent : orders[i] <= 1
  /\ \A i \in Intent : intents[i].status \in {"none", "open"} => orders[i] = 0
  /\ Waits("confirm", "granted") \/ Waits("place", "sent") => orders[call.intent] = 0
  /\ Waits("place", "granted") => orders[call.intent] = 1

(* What was made is in hand, on its way to the form, ordered or left.       *)
HandInv ==
  \A i \in Made \ left :
    \/ form.checkout = i
    \/ Waits("checkout", "granted") /\ call.intent = i
    \/ orders[i] > 0

HeldInv == CallInv /\ ItemsInv /\ MineInv /\ OrdersInv /\ HandInv

FormInv == CheckoutTypeOK /\ MadeInOrder /\ HeldInv
-----------------------------------------------------------------------------
(* Types.                                                                   *)

LEMMA Fields ==
  ASSUME CheckoutTypeOK
  PROVE  /\ form.qty \in Quantity /\ form.checkout \in 0 .. Intents
         /\ form.items \in Quantity
         /\ form.submitting \in BOOLEAN /\ form.done \in BOOLEAN
         /\ call.op \in Op /\ call.stage \in {"sent", "granted", "failed"}
         /\ call.items \in Quantity /\ call.intent \in 0 .. Intents
BY DEF CheckoutTypeOK, Form, Call

LEMMA NewTypes == NewForm \in Form /\ NoCall \in Call
BY CheckoutAssumption DEF NoCall, Call, Op, Quantity, None, NewForm, Form

(* The intent of a call for one has been made.                              *)
LEMMA AtIntent ==
  ASSUME CheckoutTypeOK, HeldInv,
         call.op \in {"confirm", "place"} \/ Waits("checkout", "granted")
  PROVE  call.intent \in Made /\ call.intent \in Intent /\ call.intent # None
BY CheckoutAssumption DEF CheckoutTypeOK, HeldInv, CallInv, ItemsInv, Made, Intent, None, Waits

-----------------------------------------------------------------------------
(* The steps of the form's buyer.                                           *)

LEMMA ChangeQuantityKeeps ==
  ASSUME FormInv, ChangeQuantity
  PROVE  FormInv'
<1> USE DEF FormInv
<1>1. CheckoutTypeOK'
  BY Fields DEF ChangeQuantity, Stepped, Form, CheckoutTypeOK, atServer, history
<1>2. Made' = Made
  BY DEF ChangeQuantity, Made, atServer
<1>3. MadeInOrder'
  BY <1>2 DEF MadeInOrder
<1>4. CallInv'
  BY DEF HeldInv, CallInv, Made, Waits, atServer, history, ChangeQuantity
<1>5. ItemsInv'
  BY DEF HeldInv, ItemsInv, Waits, atServer, ChangeQuantity, Locked
<1>6. MineInv'
  BY DEF HeldInv, MineInv, history, ChangeQuantity, Locked
<1>7. OrdersInv'
  BY DEF HeldInv, OrdersInv, Waits, atServer, ChangeQuantity
<1>8. HandInv'
  BY DEF HeldInv, HandInv, Made, Waits, atServer, history, ChangeQuantity
<1> QED
  BY <1>1, <1>3, <1>4, <1>5, <1>6, <1>7, <1>8 DEF HeldInv

LEMMA StartCheckoutKeeps ==
  ASSUME FormInv, StartCheckout
  PROVE  FormInv'
<1> USE DEF FormInv
<1>1. CheckoutTypeOK'
  <2>1. form' \in Form
    BY Fields DEF StartCheckout, Form, CheckoutTypeOK
  <2>2. call' \in Call
    BY Fields, NewTypes DEF StartCheckout, Call, Op
  <2> QED
    BY <2>1, <2>2 DEF StartCheckout, CheckoutTypeOK, atServer, history
<1>2. Made' = Made
  BY DEF StartCheckout, Made, atServer
<1>3. MadeInOrder'
  BY <1>2 DEF MadeInOrder
<1>4. CallInv'
  BY DEF HeldInv, CallInv, Waits, NoCall, StartCheckout, MayStart
<1>5. ItemsInv'
  BY DEF HeldInv, ItemsInv, Waits, NoCall, StartCheckout, MayStart
<1>6. MineInv'
  BY DEF HeldInv, MineInv, history, StartCheckout, MayStart
<1>7. OrdersInv'
  BY DEF HeldInv, OrdersInv, Waits, atServer, StartCheckout
<1>8. HandInv'
  BY DEF HeldInv, HandInv, Made, Waits, atServer, history, StartCheckout
<1> QED
  BY <1>1, <1>3, <1>4, <1>5, <1>6, <1>7, <1>8 DEF HeldInv

LEMMA ConfirmKeeps ==
  ASSUME FormInv, Confirm
  PROVE  FormInv'
<1> USE DEF FormInv
<1>1. CheckoutTypeOK'
  <2>1. form' \in Form
    BY Fields DEF Confirm, Form, CheckoutTypeOK
  <2>2. call' \in Call
    BY Fields, NewTypes DEF Confirm, Call, Op
  <2> QED
    BY <2>1, <2>2 DEF Confirm, CheckoutTypeOK, atServer, history
<1>2. Made' = Made
  BY DEF Confirm, Made, atServer
<1>3. MadeInOrder'
  BY <1>2 DEF MadeInOrder
<1>4. CallInv'
  BY DEF HeldInv, CallInv, Waits, Confirm
<1>5. ItemsInv'
  BY DEF HeldInv, ItemsInv, Made, Waits, atServer, Confirm
<1>6. MineInv'
  BY DEF HeldInv, MineInv, Made, atServer, history, Confirm
<1>7. OrdersInv'
  BY DEF HeldInv, OrdersInv, Waits, atServer, NoCall, Confirm
<1>8. HandInv'
  BY DEF HeldInv, CallInv, HandInv, Made, Waits, atServer, history, Confirm
<1> QED
  BY <1>1, <1>3, <1>4, <1>5, <1>6, <1>7, <1>8 DEF HeldInv

LEMMA ReloadKeeps ==
  ASSUME FormInv, Reload
  PROVE  FormInv'
<1> USE DEF FormInv
<1>1. CheckoutTypeOK'
  <2>1. form' \in Form
    BY NewTypes DEF Reload
  <2>2. call' \in Call
    BY NewTypes DEF Reload
  <2>3. left' \subseteq Intent
    BY AtIntent DEF Reload, CheckoutTypeOK, Waits
  <2> QED
    BY <2>1, <2>2, <2>3 DEF Reload, CheckoutTypeOK, atServer
<1>2. Made' = Made
  BY DEF Reload, Made, atServer
<1>3. MadeInOrder'
  BY <1>2 DEF MadeInOrder
<1>4. CallInv'
  BY DEF HeldInv, CallInv, Waits, NoCall, Reload
<1>5. ItemsInv'
  BY DEF HeldInv, ItemsInv, Waits, NoCall, Reload, NewForm
<1>6. MineInv'
  BY DEF HeldInv, MineInv, Reload, NewForm
<1>7. OrdersInv'
  BY DEF HeldInv, OrdersInv, Waits, atServer, NoCall, Reload
<1>8. HandInv'
  BY DEF HeldInv, MineInv, HandInv, Made, Waits, atServer, Reload, NewForm
<1> QED
  BY <1>1, <1>3, <1>4, <1>5, <1>6, <1>7, <1>8 DEF HeldInv

-----------------------------------------------------------------------------
(* The steps of the server and of Stripe.                                   *)

LEMMA StripeConfirmsKeeps ==
  ASSUME FormInv, call.op = "confirm", StripeConfirms
  PROVE  FormInv'
<1> USE DEF FormInv
<1>1. CheckoutTypeOK'
  <2>1. call' \in Call
    BY Fields DEF StripeConfirms, Served, Call, CheckoutTypeOK
  <2>2. intents' \in [Intent -> Held]
    BY AtIntent DEF StripeConfirms, Held, CheckoutTypeOK
  <2> QED
    BY <2>1, <2>2 DEF StripeConfirms, CheckoutTypeOK, history
<1>2. Made' = Made /\ \A i \in Intent : intents'[i].items = intents[i].items
  BY AtIntent DEF StripeConfirms, Made, CheckoutTypeOK, Held, Intent
<1>3. MadeInOrder'
  BY <1>2 DEF MadeInOrder
<1>4. CallInv'
  BY DEF HeldInv, CallInv, Waits, CheckoutTypeOK, Call, StripeConfirms, Served
<1>5. ItemsInv'
  BY DEF HeldInv, ItemsInv, Made, Waits, CheckoutTypeOK, Call, StripeConfirms, Served
<1>6. MineInv'
  BY DEF HeldInv, MineInv, Made, history, StripeConfirms
<1>7. OrdersInv'
  BY DEF HeldInv, CallInv, MineInv, OrdersInv, Waits, CheckoutTypeOK, Call, StripeConfirms, Served
<1>8. HandInv'
  BY DEF HeldInv, CallInv, HandInv, Made, history, StripeConfirms
<1> QED
  BY <1>1, <1>3, <1>4, <1>5, <1>6, <1>7, <1>8 DEF HeldInv

LEMMA StripeRefusesKeeps ==
  ASSUME FormInv, call.op = "confirm", StripeRefuses
  PROVE  FormInv'
<1> USE DEF FormInv
<1>1. CheckoutTypeOK'
  <2>1. call' \in Call
    BY Fields DEF StripeRefuses, Served, Call, CheckoutTypeOK
  <2> QED
    BY <2>1 DEF StripeRefuses, CheckoutTypeOK, history, atServer
<1>2. Made' = Made
  BY DEF StripeRefuses, Made, atServer
<1>3. MadeInOrder'
  BY <1>2 DEF MadeInOrder
<1>4. CallInv'
  BY DEF HeldInv, CallInv, Waits, StripeRefuses, Served
<1>5. ItemsInv'
  BY DEF HeldInv, ItemsInv, Made, Waits, atServer, StripeRefuses, Served
<1>6. MineInv'
  BY DEF HeldInv, MineInv, Made, atServer, history, StripeRefuses
<1>7. OrdersInv'
  BY DEF HeldInv, OrdersInv, Waits, atServer, StripeRefuses, Served
<1>8. HandInv'
  BY DEF HeldInv, CallInv, HandInv, Made, atServer, history, StripeRefuses
<1> QED
  BY <1>1, <1>3, <1>4, <1>5, <1>6, <1>7, <1>8 DEF HeldInv

LEMMA PlacesKeeps ==
  ASSUME FormInv, call.op = "place", Places
  PROVE  FormInv'
<1> USE DEF FormInv
<1>1. CheckoutTypeOK'
  <2>1. call' \in Call
    BY Fields DEF Places, Served, Call, CheckoutTypeOK
  <2>2. orders' \in [Intent -> Nat]
    BY AtIntent DEF Places, CheckoutTypeOK
  <2> QED
    BY <2>1, <2>2 DEF Places, CheckoutTypeOK, history
<1>2. Made' = Made
  BY DEF Places, Made, atServer
<1>3. MadeInOrder'
  BY <1>2 DEF MadeInOrder
<1>4. CallInv'
  BY DEF HeldInv, CallInv, Waits, CheckoutTypeOK, Call, Places, Served
<1>5. ItemsInv'
  BY DEF HeldInv, ItemsInv, Made, CheckoutTypeOK, Call, Places, Served
<1>6. MineInv'
  BY DEF HeldInv, MineInv, Made, history, Places
<1>7. OrdersInv'
  BY AtIntent DEF HeldInv, OrdersInv, Waits, CheckoutTypeOK, Call, Places, Served, Placeable
<1>8. HandInv'
  BY DEF HeldInv, CallInv, HandInv, Made, history, Places
<1> QED
  BY <1>1, <1>3, <1>4, <1>5, <1>6, <1>7, <1>8 DEF HeldInv

LEMMA NotPlaceableKeeps ==
  ASSUME FormInv, call.op = "place", NotPlaceable
  PROVE  FormInv'
<1> USE DEF FormInv
<1>1. CheckoutTypeOK'
  <2>1. call' \in Call
    BY Fields DEF NotPlaceable, Served, Call, CheckoutTypeOK
  <2> QED
    BY <2>1 DEF NotPlaceable, CheckoutTypeOK, history, atServer
<1>2. Made' = Made
  BY DEF NotPlaceable, Made, atServer
<1>3. MadeInOrder'
  BY <1>2 DEF MadeInOrder
<1>4. CallInv'
  BY DEF HeldInv, CallInv, Waits, NotPlaceable, Served
<1>5. ItemsInv'
  BY DEF HeldInv, ItemsInv, Made, atServer, NotPlaceable, Served
<1>6. MineInv'
  BY DEF HeldInv, MineInv, Made, atServer, history, NotPlaceable
<1>7. OrdersInv'
  BY DEF HeldInv, OrdersInv, Waits, atServer, NotPlaceable, Served
<1>8. HandInv'
  BY DEF HeldInv, CallInv, HandInv, Made, atServer, history, NotPlaceable
<1> QED
  BY <1>1, <1>3, <1>4, <1>5, <1>6, <1>7, <1>8 DEF HeldInv

LEMMA BoxFullKeeps ==
  ASSUME FormInv, call.op = "place", BoxFull
  PROVE  FormInv'
<1> USE DEF FormInv
<1>1. CheckoutTypeOK'
  <2>1. call' \in Call
    BY Fields DEF BoxFull, Served, Call, CheckoutTypeOK
  <2>2. intents' \in [Intent -> Held]
    BY AtIntent DEF BoxFull, Held, CheckoutTypeOK
  <2> QED
    BY <2>1, <2>2 DEF BoxFull, CheckoutTypeOK, history
<1>2. Made' = Made /\ \A i \in Intent : intents'[i].items = intents[i].items
  BY AtIntent DEF BoxFull, Placeable, Made, CheckoutTypeOK, Held, Intent
<1>3. MadeInOrder'
  BY <1>2 DEF MadeInOrder
<1>4. CallInv'
  BY DEF HeldInv, CallInv, Waits, BoxFull, Served
<1>5. ItemsInv'
  BY DEF HeldInv, ItemsInv, Made, BoxFull, Served
<1>6. MineInv'
  BY DEF HeldInv, MineInv, Made, history, BoxFull
<1>7. OrdersInv'
  BY DEF HeldInv, OrdersInv, Waits, BoxFull, Served
<1>8. HandInv'
  BY DEF HeldInv, CallInv, HandInv, Made, history, BoxFull
<1> QED
  BY <1>1, <1>3, <1>4, <1>5, <1>6, <1>7, <1>8 DEF HeldInv

-----------------------------------------------------------------------------
(* The steps with which the form takes an answer.                           *)

LEMMA CheckoutStartedKeeps ==
  ASSUME FormInv, CheckoutStarted
  PROVE  FormInv'
<1> USE DEF FormInv
<1>1. CheckoutTypeOK'
  <2>1. form' \in Form
    BY Fields DEF CheckoutStarted, Authorizing, Form, CheckoutTypeOK
  <2>2. call' \in Call
    BY NewTypes DEF CheckoutStarted
  <2>3. mine' \subseteq Intent
    BY AtIntent DEF CheckoutStarted, CheckoutTypeOK, Waits
  <2> QED
    BY <2>1, <2>2, <2>3 DEF CheckoutStarted, CheckoutTypeOK, atServer
<1>2. Made' = Made
  BY DEF CheckoutStarted, Made, atServer
<1>3. MadeInOrder'
  BY <1>2 DEF MadeInOrder
<1>4. CallInv'
  BY DEF HeldInv, CallInv, Waits, NoCall, CheckoutStarted, Authorizing
<1>5. ItemsInv'
  BY DEF HeldInv, CallInv, ItemsInv, Made, Waits, atServer, NoCall, CheckoutStarted, Authorizing
<1>6. MineInv'
  BY DEF HeldInv, CallInv, MineInv, Made, Waits, None, atServer, Intent, CheckoutStarted, Authorizing
<1>7. OrdersInv'
  BY DEF HeldInv, OrdersInv, Waits, atServer, NoCall, CheckoutStarted, Authorizing
<1>8. HandInv'
  BY DEF HeldInv, CallInv, HandInv, Made, None, atServer, Intent, CheckoutStarted, Authorizing
<1> QED
  BY <1>1, <1>3, <1>4, <1>5, <1>6, <1>7, <1>8 DEF HeldInv

LEMMA ConfirmedKeeps ==
  ASSUME FormInv, Confirmed
  PROVE  FormInv'
<1> USE DEF FormInv
<1>1. CheckoutTypeOK'
  <2>1. call' \in Call
    BY Fields, NewTypes DEF Confirmed, Call, Op
  <2> QED
    BY <2>1 DEF Confirmed, CheckoutTypeOK, history, atServer
<1>2. Made' = Made
  BY DEF Confirmed, Made, atServer
<1>3. MadeInOrder'
  BY <1>2 DEF MadeInOrder
<1>4. CallInv'
  BY DEF HeldInv, CallInv, Waits, Confirmed
<1>5. ItemsInv'
  BY DEF HeldInv, CallInv, ItemsInv, Made, atServer, Confirmed
<1>6. MineInv'
  BY DEF HeldInv, MineInv, Made, atServer, history, Confirmed
<1>7. OrdersInv'
  BY DEF HeldInv, CallInv, OrdersInv, Waits, atServer, NoCall, Confirmed
<1>8. HandInv'
  BY DEF HeldInv, CallInv, HandInv, Made, atServer, history, Confirmed
<1> QED
  BY <1>1, <1>3, <1>4, <1>5, <1>6, <1>7, <1>8 DEF HeldInv

LEMMA PlacedKeeps ==
  ASSUME FormInv, Placed
  PROVE  FormInv'
<1> USE DEF FormInv
<1>1. CheckoutTypeOK'
  <2>1. form' \in Form
    <3>1. (IF kind = "plan" THEN None ELSE form.checkout) \in 0 .. Intents
      BY CheckoutAssumption, Fields DEF None
    <3> QED
      BY <3>1, Fields DEF Placed, Form, CheckoutTypeOK
  <2>2. call' \in Call
    BY NewTypes DEF Placed
  <2> QED
    BY <2>1, <2>2 DEF Placed, CheckoutTypeOK, atServer, history
<1>2. Made' = Made
  BY DEF Placed, Made, atServer
<1>3. MadeInOrder'
  BY <1>2 DEF MadeInOrder
<1>4. CallInv'
  BY DEF HeldInv, CallInv, Waits, NoCall, Placed
<1>5. ItemsInv'
  BY DEF HeldInv, ItemsInv, Made, Waits, atServer, NoCall, Placed
<1>6. MineInv'
  BY DEF HeldInv, MineInv, Made, atServer, history, Placed
<1>7. OrdersInv'
  BY DEF HeldInv, OrdersInv, Waits, atServer, NoCall, Placed
<1>8. HandInv'
  BY DEF HeldInv, CallInv, OrdersInv, HandInv, Made, Waits, atServer, history, Placed
<1> QED
  BY <1>1, <1>3, <1>4, <1>5, <1>6, <1>7, <1>8 DEF HeldInv

LEMMA CallFailedKeeps ==
  ASSUME FormInv, CallFailed
  PROVE  FormInv'
<1> USE DEF FormInv
<1>1. CheckoutTypeOK'
  <2>1. form' \in Form
    BY Fields DEF CallFailed, Failed, Form, CheckoutTypeOK
  <2>2. call' \in Call
    BY NewTypes DEF CallFailed
  <2> QED
    BY <2>1, <2>2 DEF CallFailed, CheckoutTypeOK, atServer, history
<1>2. Made' = Made
  BY DEF CallFailed, Made, atServer
<1>3. MadeInOrder'
  BY <1>2 DEF MadeInOrder
<1>4. CallInv'
  BY DEF HeldInv, CallInv, Waits, NoCall, CallFailed, Failed
<1>5. ItemsInv'
  BY DEF HeldInv, ItemsInv, Made, Waits, atServer, NoCall, CallFailed, Failed
<1>6. MineInv'
  BY DEF HeldInv, MineInv, Made, atServer, history, CallFailed, Failed
<1>7. OrdersInv'
  BY DEF HeldInv, OrdersInv, Waits, atServer, NoCall, CallFailed, Failed
<1>8. HandInv'
  BY DEF HeldInv, HandInv, Made, Waits, atServer, history, CallFailed, Failed
<1> QED
  BY <1>1, <1>3, <1>4, <1>5, <1>6, <1>7, <1>8 DEF HeldInv

-----------------------------------------------------------------------------
(* A refusal, and a new intent.                                             *)

LEMMA RefusesKeeps ==
  ASSUME FormInv, NEW op \in Op, op # "none", Refuses(op)
  PROVE  FormInv'
<1> USE DEF FormInv
<1>1. CheckoutTypeOK'
  <2>1. call' \in Call
    BY Fields DEF Refuses, Served, Call, CheckoutTypeOK
  <2> QED
    BY <2>1 DEF Refuses, CheckoutTypeOK, history, atServer
<1>2. UNCHANGED <<form, intents, orders, mine, left>> /\ Made' = Made
  BY DEF Refuses, atServer, history, Made
<1>3. call'.op = call.op /\ call'.items = call.items /\ call'.intent = call.intent
      /\ call'.stage = "failed" /\ call.stage = "sent"
  BY Fields DEF Refuses, Served, Call, CheckoutTypeOK
<1>4. MadeInOrder'
  BY <1>2 DEF MadeInOrder
<1>5. HeldInv'
  BY <1>2, <1>3 DEF HeldInv, CallInv, ItemsInv, MineInv, OrdersInv, HandInv, Waits
<1> QED
  BY <1>1, <1>4, <1>5

(* The next intent is a new one.                                            *)
LEMMA NextIntent ==
  ASSUME CheckoutTypeOK, NEW n \in 0 .. Intents, Made = 1 .. n
  PROVE  Cardinality(Made) = n
<1>1. 1 \in Int /\ n \in Int
  BY CheckoutAssumption
<1> QED
  BY <1>1, FS_Interval, CheckoutAssumption

LEMMA MakesIntentKeeps ==
  ASSUME FormInv, MakesIntent
  PROVE  FormInv'
<1> USE DEF FormInv
<1>1. PICK i \in Intent, mode \in {"payment", "setup"} :
        /\ i = Cardinality(Made) + 1
        /\ call.op = "checkout" /\ call.stage = "sent"
        /\ intents' = [intents EXCEPT
             ![i] = [mode |-> mode, items |-> call.items, status |-> "open"]]
        /\ \/ call' = [call EXCEPT !.stage = "granted", !.intent = i] /\ UNCHANGED left
           \/ call' = [call EXCEPT !.stage = "failed"] /\ left' = left \cup {i}
        /\ UNCHANGED <<kind, form, orders, mine>>
  BY DEF MakesIntent
<1>2. PICK n \in 0 .. Intents : Made = 1 .. n
  BY DEF MadeInOrder
<1>3. i = n + 1 /\ i \notin Made
  BY <1>1, <1>2, NextIntent, CheckoutAssumption
<1>4. /\ intents'[i] = [mode |-> mode, items |-> call.items, status |-> "open"]
      /\ \A j \in Intent \ {i} : intents'[j] = intents[j]
  BY <1>1 DEF CheckoutTypeOK
<1>5. Made' = Made \cup {i}
  <2>1. intents'[i].status = "open"
    BY <1>4
  <2>2. \A j \in Intent \ {i} : j \in Made' <=> j \in Made
    BY <1>4 DEF Made
  <2>3. i \in Made'
    BY <2>1 DEF Made
  <2> QED
    BY <2>2, <2>3 DEF Made
<1>6. CheckoutTypeOK'
  <2>1. [mode |-> mode, items |-> call.items, status |-> "open"] \in Held
    BY Fields DEF Held
  <2>2. intents' \in [Intent -> Held]
    BY <1>1, <2>1 DEF CheckoutTypeOK
  <2>3. call' \in Call
    <3>1. i \in 0 .. Intents
      BY CheckoutAssumption DEF Intent
    <3>2. [call EXCEPT !.stage = "granted", !.intent = i] \in Call
      BY <3>1 DEF Call, CheckoutTypeOK
    <3>3. [call EXCEPT !.stage = "failed"] \in Call
      BY DEF Call, CheckoutTypeOK
    <3> QED
      BY <1>1, <3>2, <3>3
  <2> QED
    BY <1>1, <2>2, <2>3 DEF CheckoutTypeOK
<1>7. MadeInOrder'
  <2>1. n + 1 \in 0 .. Intents /\ Made' = 1 .. (n + 1)
    BY <1>1, <1>2, <1>3, <1>5, CheckoutAssumption DEF Intent
  <2> QED
    BY <2>1 DEF MadeInOrder
<1>8. CallInv'
  BY <1>1, <1>3, <1>4, <1>5, Fields DEF HeldInv, CallInv, MineInv, Waits, CheckoutTypeOK, Call
<1>9. ItemsInv'
  BY <1>1, <1>3, <1>4, <1>5, Fields DEF HeldInv, CallInv, ItemsInv, Waits, CheckoutTypeOK, Call
<1>10. MineInv'
  BY <1>1, <1>5 DEF HeldInv, MineInv
<1>11. OrdersInv'
  BY <1>1, <1>3, <1>4, Fields DEF HeldInv, OrdersInv, Waits, CheckoutTypeOK, Call, Held, Made
<1>12. HandInv'
  BY <1>1, <1>3, <1>5, Fields DEF HeldInv, HandInv, Waits, CheckoutTypeOK, Call
<1> QED
  BY <1>6, <1>7, <1>8, <1>9, <1>10, <1>11, <1>12 DEF HeldInv
-----------------------------------------------------------------------------
LEMMA FormInvInitial == CheckoutInit => FormInv
<1> SUFFICES ASSUME CheckoutInit
             PROVE  FormInv
  OBVIOUS
<1>1. CheckoutTypeOK
  BY CheckoutAssumption, NewTypes
     DEF CheckoutInit, CheckoutTypeOK, Held, Quantity
<1>2. Made = {}
  BY DEF CheckoutInit, Made
<1>3. MadeInOrder
  BY <1>2, CheckoutAssumption DEF MadeInOrder
<1>4. HeldInv
  BY <1>2 DEF CheckoutInit, HeldInv, CallInv, ItemsInv, MineInv, OrdersInv, HandInv,
              Waits, NewForm, NoCall, None
<1> QED
  BY <1>1, <1>3, <1>4 DEF FormInv

LEMMA FormInvStep ==
  ASSUME FormInv, [CheckoutNext]_checkoutVars
  PROVE  FormInv'
<1>1. CASE UNCHANGED checkoutVars
  BY <1>1 DEF checkoutVars, FormInv, CheckoutTypeOK, MadeInOrder, Made, HeldInv, CallInv,
              ItemsInv, MineInv, OrdersInv, HandInv, Waits
<1>2. CASE ChangeQuantity \/ StartCheckout \/ Confirm \/ Reload
  BY <1>2, ChangeQuantityKeeps, StartCheckoutKeeps, ConfirmKeeps, ReloadKeeps
<1>3. CASE Answers
  BY <1>3, MakesIntentKeeps, StripeConfirmsKeeps, StripeRefusesKeeps, PlacesKeeps,
     NotPlaceableKeeps, BoxFullKeeps, RefusesKeeps DEF Answers
<1>4. CASE Continues
  BY <1>4, CheckoutStartedKeeps, ConfirmedKeeps, PlacedKeeps, CallFailedKeeps
     DEF Continues
<1> QED
  BY <1>1, <1>2, <1>3, <1>4 DEF CheckoutNext

LEMMA FormInvAlways == CheckoutSpec => []FormInv
BY FormInvInitial, FormInvStep, PTL DEF CheckoutSpec

(* Type correctness of the form, its calls and what is at Stripe.           *)
THEOREM CheckoutTypes == CheckoutSpec => []CheckoutTypeOK
<1>1. FormInv => CheckoutTypeOK
  BY DEF FormInv
<1> QED
  BY <1>1, FormInvAlways, PTL

(* An order is asked for what its card was authorized for.                  *)
THEOREM PlacedAsHeld == CheckoutSpec => []PlacesWhatIsHeld
<1>1. FormInv => PlacesWhatIsHeld
  BY DEF FormInv, HeldInv, ItemsInv, PlacesWhatIsHeld
<1> QED
  BY <1>1, FormInvAlways, PTL

(* One form makes one order, whatever is retried.                           *)
THEOREM FormMakesOneOrder == CheckoutSpec => []OneOrder
<1>1. FormInv => OneOrder
  BY DEF FormInv, HeldInv, MineInv, OrdersInv, OneOrder, CheckoutTypeOK
<1> QED
  BY <1>1, FormInvAlways, PTL

(* A card authorized without an order stays in the form's hand.             *)
THEOREM NoHoldForgotten == CheckoutSpec => []HoldsRemembered
<1>1. FormInv => HoldsRemembered
  BY DEF FormInv, HeldInv, CallInv, HandInv, HoldsRemembered, Waits, CheckoutTypeOK, Made
<1> QED
  BY <1>1, FormInvAlways, PTL
=============================================================================
