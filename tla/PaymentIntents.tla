--------------------------- MODULE PaymentIntents ---------------------------
(***************************************************************************)
(* The Stripe objects the backend works with, as the calls in stripepay    *)
(* use them.  An intent is named by what makes Stripe create it once: the   *)
(* buyer's checkout session, or the idempotency key of an off-session       *)
(* authorization ("auth-order-<order>" for the billing job,                 *)
(* "jit-auth-<order>" for the pickup handler).  Every intent is captured    *)
(* manually, so "requires_capture" is a hold on the buyer's card.           *)
(***************************************************************************)
EXTENDS Naturals

CONSTANTS
  Order,      \* orders; an intent is created on behalf of one
  NoIntent,   \* a null stripe_payment_intent_id
  Faults      \* what the environment may do, see FaultKind

Key == {"checkout", "auth-order", "jit-auth"}
Intent == Key \X Order

(* decline      an off-session charge is refused by the card                *)
(* action       an off-session charge asks for buyer authentication         *)
(* late_decline the buyer's first card was refused at checkout, and the     *)
(*              event of that refusal may be delivered late                 *)
(* expiry       a hold that is not captured is released by the card network *)
(* lost_auth    an off-session charge fails on the way, or its answer does  *)
(* lost_call    a cancel, capture or refund does not reach Stripe           *)
(* crash        a handler or job stops between two steps                    *)
FaultKind ==
  {"decline", "action", "late_decline", "expiry", "lost_auth", "lost_call",
   "crash"}

ASSUME FaultsAssumption == Faults \subseteq FaultKind
ASSUME NoIntentAssumption == NoIntent \notin Intent

VARIABLES
  intent,     \* status of each intent at Stripe
  received,   \* amount captured on it
  reply       \* the answer Stripe saved under the idempotency key

stripeVars == <<intent, received, reply>>

IntentStatus ==
  {"none", "declined", "requires_action", "requires_capture",
   "succeeded", "canceled", "refunded"}
Reply == {"requires_capture", "requires_action", "error"}

IntentsTypeOK ==
  /\ intent \in [Intent -> IntentStatus]
  /\ received \in [Intent -> Nat]
  /\ reply \in [Intent -> Reply \cup {"none"}]

Checkout(o) == <<"checkout", o>>
BillingAuth(o) == <<"auth-order", o>>
JitAuth(o) == <<"jit-auth", o>>

(* The intents of the checkouts that buyers completed are authorized before *)
(* any order exists; the others do not exist yet.                           *)
IntentsInit(authorized) ==
  /\ intent = [p \in Intent |->
                 IF p \in authorized THEN "requires_capture" ELSE "none"]
  /\ received = [p \in Intent |-> 0]
  /\ reply = [p \in Intent |-> "none"]

Held(p) == p # NoIntent /\ intent[p] = "requires_capture"

(* Stripe answers an off-session authorization: it executes the first call  *)
(* under a key and replays the saved answer to every later one, whatever    *)
(* became of the intent in between.                                         *)
Possible(answer) ==
  \/ answer = "requires_capture"
  \/ answer = "error" /\ "decline" \in Faults
  \/ answer = "requires_action" /\ "action" \in Faults

Execute(p, answer) ==
  /\ reply[p] = "none"
  /\ Possible(answer)
  /\ reply' = [reply EXCEPT ![p] = answer]
  /\ intent' = [intent EXCEPT
                  ![p] = IF answer = "error" THEN "declined" ELSE answer]
  /\ UNCHANGED received

Replay(p, answer) == reply[p] = answer /\ UNCHANGED stripeVars

Answer(p, answer) == Execute(p, answer) \/ Replay(p, answer)

(* What CreateOffSessionAuthorization returns to its caller: the answer, or *)
(* an error when the request or the answer is lost on the way.              *)
CreateOffSessionAuthorization(p, seen) ==
  \/ Answer(p, seen)
  \/ /\ "lost_auth" \in Faults
     /\ seen = "error"
     /\ UNCHANGED stripeVars \/ \E real \in Reply : Answer(p, real)

Lost == "lost_call" \in Faults /\ UNCHANGED stripeVars

(* Calls whose error changes nothing in the database.  Cancel releases a    *)
(* hold, Capture takes the amount and releases the rest, Refund gives it    *)
(* back; each is refused by Stripe, with no effect, when the intent is in   *)
(* no state for it.                                                         *)
Cancelable(p) ==
  p # NoIntent /\ intent[p] \in {"requires_capture", "requires_action"}

CancelPaymentIntent(p) ==
  \/ /\ Cancelable(p)
     /\ intent' = [intent EXCEPT ![p] = "canceled"]
     /\ UNCHANGED <<received, reply>>
  \/ ~Cancelable(p) /\ UNCHANGED stripeVars
  \/ Lost

CaptureAuthorization(p, amount) ==
  \/ /\ Held(p)
     /\ intent' = [intent EXCEPT ![p] = "succeeded"]
     /\ received' = [received EXCEPT ![p] = amount]
     /\ UNCHANGED reply
  \/ ~Held(p) /\ UNCHANGED stripeVars
  \/ Lost

Refund(p) ==
  \/ /\ intent[p] = "succeeded"
     /\ intent' = [intent EXCEPT ![p] = "refunded"]
     /\ UNCHANGED <<received, reply>>
  \/ intent[p] # "succeeded" /\ UNCHANGED stripeVars
  \/ Lost

(* A hold the backend neither captures nor cancels lapses after some days.  *)
ExpireHold(p) ==
  /\ "expiry" \in Faults
  /\ Held(p)
  /\ intent' = [intent EXCEPT ![p] = "canceled"]
  /\ UNCHANGED <<received, reply>>

(* The events Stripe has sent about p.  They are derived from its history,  *)
(* so an event may be delivered late, again, out of order, or never.        *)
Sent(p, event) ==
  \/ /\ event = "payment_intent.requires_capture"
     /\ intent[p] \in {"requires_capture", "succeeded", "canceled", "refunded"}
  \/ /\ event = "payment_intent.succeeded"
     /\ intent[p] \in {"succeeded", "refunded"}
  \/ event = "payment_intent.canceled" /\ intent[p] = "canceled"
  \/ /\ event = "payment_intent.payment_failed"
     /\ \/ intent[p] = "declined"
        \/ p[1] = "checkout" /\ "late_decline" \in Faults /\ intent[p] # "none"
  \/ event = "charge.refunded" /\ intent[p] = "refunded"
=============================================================================
