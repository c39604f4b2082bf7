-------------------------- MODULE SubscriptionPage --------------------------
(***************************************************************************)
(* The page on which a buyer pauses, resumes or cancels a subscription and  *)
(* changes its card.  Its handlers share one flag that disables the         *)
(* buttons, and several of them can be under way: saving a card waits for   *)
(* Stripe before it takes the flag, and a retried load never takes it.      *)
(***************************************************************************)
EXTENDS Naturals, FiniteSets

CONSTANTS
  Script,      \* handlers of the page that can be under way at a time
  Presses,     \* bound: buttons pressed that change the status
  Cards,       \* bound: card updates started
  PageFaults   \* what may go wrong: subset of PageFault

PageFault == {"lost", "declined", "seller"}

ASSUME SubscriptionAssumption ==
  /\ Script # {}
  /\ Presses \in Nat
  /\ Cards \in Nat
  /\ PageFaults \subseteq PageFault

VARIABLES
  page,     \* state of the page component
  script,   \* the handlers under way
  sub,      \* the subscription at the server
  setups,   \* card setups at Stripe
  seen      \* history

subscriptionVars == <<page, script, sub, setups, seen>>

Status == {"active", "paused", "canceled"}
NoSetup == 0
Setup == 1 .. Cards

(* shown: the loaded subscription; secret: the card element's setup.        *)
PageState == [shown : Status \cup {"none"}, submitting : BOOLEAN, error : BOOLEAN,
              secret : 0 .. Cards, dialog : BOOLEAN]

(* A handler and the call it waits for: setStatus, startUpdateCard, confirm *)
(* of the card element, confirmUpdateCard, load; "closing": a load awaited  *)
(* by a handler that takes the flag back at its end.                        *)
HandlerOp == {"none", "status", "start", "stripe", "save", "load"}

ScriptState ==
  [op : HandlerOp, stage : {"sent", "granted", "failed"}, choice : Status \cup {"none"},
   press : 0 .. Presses, setup : 0 .. Cards, closing : BOOLEAN]

Idle == [op |-> "none", stage |-> "sent", choice |-> "none", press |-> 0,
         setup |-> NoSetup, closing |-> FALSE]

(* pressed: buttons pressed so far; applied: the last press the server has  *)
(* carried out; freed: a handler has ended under another that had disabled  *)
(* the buttons; crossed: a load was sent while another was under way, or    *)
(* while a status was being changed; remote: the seller has canceled;       *)
(* doubt: a call has failed since the subscription was last loaded.         *)
History == [pressed : 0 .. Presses, applied : 0 .. Presses, freed : BOOLEAN,
            crossed : BOOLEAN, remote : BOOLEAN, doubt : BOOLEAN]

Running(op) == {s \in Script : script[s].op = op}
Free == {s \in Script : script[s].op = "none"}

SubscriptionTypeOK ==
  /\ page \in PageState
  /\ script \in [Script -> ScriptState]
  /\ sub \in [status : Status, card : 0 .. Cards]
  /\ setups \in [Setup -> {"none", "open", "succeeded"}]
  /\ seen \in History

(* The page mounts with the token of the link or of local storage, and      *)
(* loads the subscription at once.                                          *)
SubscriptionInit ==
  /\ page = [shown |-> "none", submitting |-> FALSE, error |-> FALSE,
             secret |-> NoSetup, dialog |-> FALSE]
  /\ LET first == CHOOSE s \in Script : TRUE
     IN script = [s \in Script |-> IF s = first THEN [Idle EXCEPT !.op = "load"] ELSE Idle]
  /\ sub \in [status : Status, card : {NoSetup}]
  /\ setups = [i \in Setup |-> "none"]
  /\ seen = [pressed |-> 0, applied |-> 0, freed |-> FALSE, crossed |-> FALSE,
             remote |-> FALSE, doubt |-> FALSE]
-----------------------------------------------------------------------------
(* The buyer.                                                               *)

Begins(s, what) == script' = [script EXCEPT ![s] = what]

(* A load that another load or a change of status may overtake.             *)
Crossing(s) == \E t \in Script \ {s} : script[t].op \in {"load", "status"}

(* "Try again" of the error.                                                *)
RetryLoad(s) ==
  /\ s \in Free
  /\ page.error
  /\ ~page.dialog
  /\ Begins(s, [Idle EXCEPT !.op = "load"])
  /\ page' = [page EXCEPT !.error = FALSE]
  /\ seen' = [seen EXCEPT !.crossed = @ \/ Crossing(s)]
  /\ UNCHANGED <<sub, setups>>

(* The choices the page offers for what it shows: Resume for anything but   *)
(* active, and in the dialog, which stays open whatever is loaded, to pause *)
(* or to cancel.                                                            *)
Choices ==
  (IF page.dialog THEN {"paused", "canceled"}
   ELSE CASE page.shown = "none" -> {}
          [] page.shown = "active" -> {"paused"}
          [] OTHER -> {"active"})

OpenCancelFlow ==
  /\ page.shown \in {"active", "paused"}
  /\ ~page.submitting
  /\ page' = [page EXCEPT !.dialog = TRUE]
  /\ UNCHANGED <<script, sub, setups, seen>>

CloseCancelFlow ==
  /\ page.dialog
  /\ page' = [page EXCEPT !.dialog = FALSE]
  /\ UNCHANGED <<script, sub, setups, seen>>

(* Mutant of MayPress: the buttons stay enabled.                            *)
MayPressAlways == TRUE

MayPress == ~page.submitting

SetStatus(s) ==
  /\ s \in Free
  /\ MayPress
  /\ seen.pressed < Presses
  /\ \E choice \in Choices :
       Begins(s, [Idle EXCEPT !.op = "status", !.choice = choice,
                              !.press = seen.pressed + 1, !.closing = TRUE])
  /\ page' = [page EXCEPT !.submitting = TRUE, !.error = FALSE, !.dialog = FALSE]
  /\ seen' = [seen EXCEPT !.pressed = @ + 1, !.crossed = @ \/ Running("load") # {}]
  /\ UNCHANGED <<sub, setups>>

StartUpdateCard(s) ==
  /\ s \in Free
  /\ page.shown # "none"
  /\ ~page.dialog
  /\ page.secret = NoSetup
  /\ ~page.submitting
  /\ Begins(s, [Idle EXCEPT !.op = "start", !.closing = TRUE])
  /\ page' = [page EXCEPT !.submitting = TRUE, !.error = FALSE]
  /\ UNCHANGED <<sub, setups, seen>>

(* "Save card": Stripe is asked first, with the buttons still enabled.      *)
ConfirmCard(s) ==
  /\ s \in Free
  /\ page.secret # NoSetup
  /\ ~page.dialog
  /\ ~page.submitting
  /\ Begins(s, [Idle EXCEPT !.op = "stripe", !.setup = page.secret])
  /\ UNCHANGED <<page, sub, setups, seen>>
-----------------------------------------------------------------------------
(* The page goes on with an answer.                                         *)

Ends(s) == script' = [script EXCEPT ![s] = Idle]

(* The flag is lowered at the end of a handler that raised one, whoever     *)
(* else has raised it.                                                      *)
Ended(s, doubt) ==
  seen' = [seen EXCEPT !.doubt = doubt,
    !.freed = @ \/ (script[s].closing /\ \E t \in Script \ {s} : script[t].closing)]

(* Mutant of Reloads: the page keeps showing what it had loaded.            *)
ReloadsNothing(s, secret) ==
  /\ Ends(s)
  /\ page' = [page EXCEPT !.submitting = FALSE, !.secret = secret]
  /\ Ended(s, seen.doubt)
  /\ UNCHANGED <<sub, setups>>

(* A change that was carried out is followed by a load.                     *)
Reloads(s, secret) ==
  /\ Begins(s, [Idle EXCEPT !.op = "load", !.closing = TRUE])
  /\ page' = [page EXCEPT !.error = FALSE, !.secret = secret]
  /\ seen' = [seen EXCEPT !.crossed = @ \/ Crossing(s)]
  /\ UNCHANGED <<sub, setups>>

StatusChanged(s) ==
  /\ script[s].op = "status" /\ script[s].stage = "granted"
  /\ Reloads(s, page.secret)

(* "Payment method updated": the card element is closed.                    *)
CardUpdated(s) ==
  /\ script[s].op = "save" /\ script[s].stage = "granted"
  /\ Reloads(s, NoSetup)

CardUpdateStarted(s) ==
  /\ script[s].op = "start" /\ script[s].stage = "granted"
  /\ Ends(s)
  /\ page' = [page EXCEPT !.secret = script[s].setup, !.submitting = FALSE]
  /\ Ended(s, seen.doubt)
  /\ UNCHANGED <<sub, setups>>

(* Stripe has the card; now the flag is raised and the server told.         *)
CardConfirmed(s) ==
  /\ script[s].op = "stripe" /\ script[s].stage = "granted"
  /\ Begins(s, [Idle EXCEPT !.op = "save", !.setup = script[s].setup, !.closing = TRUE])
  /\ page' = [page EXCEPT !.submitting = TRUE, !.error = FALSE]
  /\ UNCHANGED <<sub, setups, seen>>

(* The card element shows an error of its own.                              *)
CardRefused(s) ==
  /\ script[s].op = "stripe" /\ script[s].stage = "failed"
  /\ Ends(s)
  /\ UNCHANGED <<page, sub, setups, seen>>

Loaded(s) ==
  /\ script[s].op = "load" /\ script[s].stage = "granted"
  /\ Ends(s)
  /\ page' = [page EXCEPT !.shown = script[s].choice,
                          !.submitting = @ /\ ~script[s].closing]
  /\ Ended(s, FALSE)
  /\ UNCHANGED <<sub, setups>>

(* Whatever failed, the error is shown and the flag lowered (finally).      *)
Fails(s) ==
  /\ page' = [page EXCEPT !.error = TRUE, !.submitting = @ /\ ~script[s].closing]
  /\ Ended(s, TRUE)

ScriptFailed(s) ==
  /\ script[s].op \in {"status", "start", "save", "load"} /\ script[s].stage = "failed"
  /\ Ends(s)
  /\ Fails(s)
  /\ UNCHANGED <<sub, setups>>

Goes(s) ==
  \/ StatusChanged(s)
  \/ CardUpdated(s)
  \/ CardUpdateStarted(s)
  \/ CardConfirmed(s)
  \/ CardRefused(s)
  \/ Loaded(s)
  \/ ScriptFailed(s)
-----------------------------------------------------------------------------
(* The server and Stripe.                                                   *)

(* Carried out; the answer may be lost on the way.                          *)
CarriedOut(s, what) ==
  \/ script' = [script EXCEPT ![s] = [what EXCEPT !.stage = "granted"]]
  \/ "lost" \in PageFaults /\ script' = [script EXCEPT ![s] = [what EXCEPT !.stage = "failed"]]

Sent(s, op) == script[s].op = op /\ script[s].stage = "sent"

(* UpdateStatus takes any status for any other.                             *)
UpdateStatus(s) ==
  /\ Sent(s, "status")
  /\ sub' = [sub EXCEPT !.status = script[s].choice]
  /\ CarriedOut(s, script[s])
  /\ seen' = [seen EXCEPT !.applied = script[s].press]
  /\ UNCHANGED <<page, setups>>

GetSubscription(s) ==
  /\ Sent(s, "load")
  /\ CarriedOut(s, [script[s] EXCEPT !.choice = sub.status])
  /\ UNCHANGED <<page, sub, setups, seen>>

SetupPaymentMethod(s) ==
  \E i \in Setup :
    /\ i = Cardinality({j \in Setup : setups[j] # "none"}) + 1
    /\ Sent(s, "start")
    /\ setups' = [setups EXCEPT ![i] = "open"]
    /\ CarriedOut(s, [script[s] EXCEPT !.setup = i])
    /\ UNCHANGED <<page, sub, seen>>

(* Stripe confirms a setup once.                                            *)
ConfirmSetup(s) ==
  /\ Sent(s, "stripe")
  /\ setups[script[s].setup] = "open"
  /\ setups' = [setups EXCEPT ![script[s].setup] = "succeeded"]
  /\ CarriedOut(s, script[s])
  /\ UNCHANGED <<page, sub, seen>>

AlreadyConfirmed(s) ==
  /\ Sent(s, "stripe")
  /\ setups[script[s].setup] # "open"
  /\ script' = [script EXCEPT ![s].stage = "failed"]
  /\ UNCHANGED <<page, sub, setups, seen>>

(* The card of a succeeded setup becomes that of the subscription.          *)
ConfirmPaymentMethod(s) ==
  /\ Sent(s, "save")
  /\ setups[script[s].setup] = "succeeded"
  /\ sub' = [sub EXCEPT !.card = script[s].setup]
  /\ CarriedOut(s, script[s])
  /\ UNCHANGED <<page, setups, seen>>

(* A call that is refused, or lost before it is served.                     *)
NotServed(s) ==
  /\ script[s].op # "none" /\ script[s].stage = "sent"
  /\ IF script[s].op = "stripe" THEN "declined" \in PageFaults ELSE "lost" \in PageFaults
  /\ script' = [script EXCEPT ![s].stage = "failed"]
  /\ UNCHANGED <<page, sub, setups, seen>>

(* The seller cancels the subscription from the dashboard.                  *)
SellerCancels ==
  /\ "seller" \in PageFaults
  /\ sub.status # "canceled"
  /\ sub' = [sub EXCEPT !.status = "canceled"]
  /\ seen' = [seen EXCEPT !.remote = TRUE]
  /\ UNCHANGED <<page, script, setups>>

Serves(s) ==
  \/ UpdateStatus(s)
  \/ GetSubscription(s)
  \/ SetupPaymentMethod(s)
  \/ ConfirmSetup(s)
  \/ AlreadyConfirmed(s)
  \/ ConfirmPaymentMethod(s)
  \/ NotServed(s)

Handles(s) == RetryLoad(s) \/ SetStatus(s) \/ StartUpdateCard(s) \/ ConfirmCard(s)

SubscriptionNext ==
  \/ \E s \in Script : Handles(s) \/ Goes(s) \/ Serves(s)
  \/ OpenCancelFlow
  \/ CloseCancelFlow
  \/ SellerCancels

SubscriptionSpec == SubscriptionInit /\ [][SubscriptionNext]_subscriptionVars
-----------------------------------------------------------------------------
(* ChoicesInOrder: the server carries out what the buyer chose in the order *)
(* of the presses, so that a pause does not undo the cancellation after it, *)
(* unless a card being saved had enabled the buttons again under a change.  *)
ChoicesInOrder ==
  [][seen'.applied < seen.applied => seen.freed]_subscriptionVars

(* ShowsTheTruth: when nothing is under way and no error is shown, the page *)
(* shows the status the server has, unless loads or changes crossed, the    *)
(* seller has stepped in, or a call has failed since the last load.         *)
ShowsTheTruth ==
  /\ \A s \in Script : script[s].op = "none"
  /\ ~seen.doubt /\ ~seen.crossed /\ ~seen.remote
  => page.shown = sub.status
=============================================================================
