------------------------------ MODULE Visitor -------------------------------
(***************************************************************************)
(* The pages on which a visitor signs in and on which a buyer's money is at *)
(* stake, side by side: a visit is to pages that need a session, to a form  *)
(* that asks for a card, or to the page of a subscription, by the link in   *)
(* its confirmation.                                                        *)
(***************************************************************************)
EXTENDS SignIn, Checkout, SubscriptionPage

VARIABLE at    \* the pages of the visit

vars == <<at, browserVars, checkoutVars, subscriptionVars>>

TypeOK ==
  /\ at \in {"session", "form", "subscription"}
  /\ SignInTypeOK
  /\ CheckoutTypeOK
  /\ SubscriptionTypeOK

Init ==
  /\ at \in {"session", "form", "subscription"}
  /\ SignInInit
  /\ CheckoutInit
  /\ SubscriptionInit
  /\ at # "form" => kind = "plan"
  /\ at # "subscription" => sub.status = "active"

AtSession == at = "session" /\ UNCHANGED <<at, checkoutVars, subscriptionVars>>
AtForm == at = "form" /\ UNCHANGED <<at, browserVars, subscriptionVars>>
AtSubscription == at = "subscription" /\ UNCHANGED <<at, browserVars, checkoutVars>>

Next ==
  \/ AtSession /\ SignInNext
  \/ AtForm /\ CheckoutNext
  \/ AtSubscription /\ SubscriptionNext

Spec == Init /\ [][Next]_vars

(* Server and Stripe answer, and a page goes on with every answer; the      *)
(* visitor need not act.                                                    *)
Fairness ==
  /\ \A r \in Request : WF_vars(AtSession /\ FetchStep(r))
  /\ \A t \in Tab, w \in Way : WF_vars(AtSession /\ CallStep(t, w))
  /\ \A t \in Tab : WF_vars(AtSession /\ MailStep(t))
  /\ WF_vars(AtForm /\ Answers)
  /\ WF_vars(AtForm /\ Continues)
  /\ \A s \in Script : WF_vars(AtSubscription /\ Serves(s)) /\ WF_vars(AtSubscription /\ Goes(s))

FairSpec == Spec /\ Fairness
-----------------------------------------------------------------------------
(* DisabledIsWaiting: a page that disables its buttons waits for a call that *)
(* will enable them: whichever calls overlap, fail, or are left behind by a  *)
(* page change, none is left disabled with nothing under way.  The payment   *)
(* form, of which a second press could ask for a second intent, is disabled  *)
(* throughout, over all three calls; the subscription page as long as no     *)
(* handler has enabled the buttons under another.                            *)
DisabledIsWaiting ==
  /\ form.submitting <=> call.op # "none"
  /\ page.submitting => \E s \in Script : script[s].closing
  /\ ~seen.freed => \A s \in Script : script[s].closing => page.submitting
  /\ \A t \in Tab : signInForm[t].submitting =>
       \E w \in Way : signing[t][w].own /\ signing[t][w].stage # "none"

(* CallsEnd: every request is answered, in spite of the refresh and the     *)
(* second try it may cause (http.ts:82), and no sign-in form stays          *)
(* disabled.                                                                *)
CallsEnd ==
  /\ \A r \in Request : []<>(~Under(r))
  /\ \A t \in Tab : []<>(~signInForm[t].submitting)

(* ButtonsReturn: neither the form nor the subscription page keeps its      *)
(* buttons disabled for ever, whichever call fails or loses its answer.     *)
ButtonsReturn ==
  /\ []<>(~form.submitting)
  /\ []<>(~page.submitting)
=============================================================================
