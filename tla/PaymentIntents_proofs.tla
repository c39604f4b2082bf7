----------------------- MODULE PaymentIntents_proofs ------------------------
(***************************************************************************)
(* Every call to Stripe keeps the types of its objects.                     *)
(***************************************************************************)
EXTENDS PaymentIntents, TLAPS

(* A call that changes nothing.                                             *)
LEMMA UnchangedIntentsType ==
  ASSUME IntentsTypeOK, UNCHANGED stripeVars
  PROVE  IntentsTypeOK'
BY DEF IntentsTypeOK, stripeVars

(* Stripe's answer to an authorization, first or replayed.                  *)
LEMMA AnswerType ==
  ASSUME NEW p \in Intent, NEW seen \in Reply,
         IntentsTypeOK, Answer(p, seen)
  PROVE  IntentsTypeOK'
<1>1. CASE Execute(p, seen)
  BY <1>1 DEF Execute, IntentsTypeOK, Reply, IntentStatus
<1>2. CASE Replay(p, seen)
  BY <1>2, UnchangedIntentsType DEF Replay
<1> QED
  BY <1>1, <1>2 DEF Answer

(* The authorization as the caller sees it.                                 *)
LEMMA AuthorizationType ==
  ASSUME NEW p \in Intent, NEW seen \in Reply,
         IntentsTypeOK, CreateOffSessionAuthorization(p, seen)
  PROVE  IntentsTypeOK'
BY AnswerType, UnchangedIntentsType DEF CreateOffSessionAuthorization

(* Releasing a hold.                                                        *)
LEMMA CancelType ==
  ASSUME NEW p, IntentsTypeOK, CancelPaymentIntent(p)
  PROVE  IntentsTypeOK'
<1>1. CASE UNCHANGED stripeVars
  BY <1>1, UnchangedIntentsType
<1>2. CASE /\ intent' = [intent EXCEPT ![p] = "canceled"]
           /\ UNCHANGED <<received, reply>>
  BY <1>2 DEF IntentsTypeOK, IntentStatus
<1> QED
  BY <1>1, <1>2 DEF CancelPaymentIntent, Lost

(* Capturing an amount of a hold.                                           *)
LEMMA CaptureType ==
  ASSUME NEW p, NEW amount \in Nat, IntentsTypeOK,
         CaptureAuthorization(p, amount)
  PROVE  IntentsTypeOK'
<1>1. CASE UNCHANGED stripeVars
  BY <1>1, UnchangedIntentsType
<1>2. CASE /\ intent' = [intent EXCEPT ![p] = "succeeded"]
           /\ received' = [received EXCEPT ![p] = amount]
           /\ UNCHANGED reply
  BY <1>2 DEF IntentsTypeOK, IntentStatus
<1> QED
  BY <1>1, <1>2 DEF CaptureAuthorization, Lost

(* Refunding a captured intent.                                             *)
LEMMA RefundType ==
  ASSUME NEW p, IntentsTypeOK, Refund(p)
  PROVE  IntentsTypeOK'
<1>1. CASE UNCHANGED stripeVars
  BY <1>1, UnchangedIntentsType
<1>2. CASE /\ intent' = [intent EXCEPT ![p] = "refunded"]
           /\ UNCHANGED <<received, reply>>
  BY <1>2 DEF IntentsTypeOK, IntentStatus
<1> QED
  BY <1>1, <1>2 DEF Refund, Lost

(* A hold that lapses.                                                      *)
LEMMA ExpireType ==
  ASSUME NEW p, IntentsTypeOK, ExpireHold(p)
  PROVE  IntentsTypeOK'
BY DEF ExpireHold, IntentsTypeOK, IntentStatus
=============================================================================
