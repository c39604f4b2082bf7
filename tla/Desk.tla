-------------------------------- MODULE Desk --------------------------------
(***************************************************************************)
(* A seller on market day: the dashboard with its order list, its list of   *)
(* subscribers, refund dialog and pickup-code field, and a phone that scans *)
(* the buyers' QR codes.  All of them work on copies of the same orders.  A *)
(* subscription is named by its order in the window.                        *)
(***************************************************************************)
EXTENDS Naturals, FiniteSets

CONSTANTS
  Order,       \* orders of the pickup window the dashboard shows
  NoOrder,     \* null
  Script,      \* handlers of the dashboard that can be under way at a time
  Subscribed,  \* bound: orders that are a subscription's
  Clicks,      \* bound: handlers the seller starts
  DeskFaults   \* what may go wrong: subset of DeskFault

DeskFault == {"lost", "declined", "buyer"}

ASSUME DeskAssumption ==
  /\ NoOrder \notin Order
  /\ Subscribed \in Nat
  /\ Clicks \in Nat
  /\ DeskFaults \subseteq DeskFault

VARIABLES
  served,   \* the orders at the server
  asked,    \* orders whose refund Stripe has been asked for
  active,   \* orders whose subscription is active or paused
  list,     \* the orders as the dashboard shows them
  dash,     \* state of the dashboard
  entry,    \* state of the pickup-code field
  phone,    \* state of the phone's page
  script,   \* the handlers of the dashboard under way
  seen      \* history

deskVars == <<served, asked, active, list, dash, entry, phone, script, seen>>

Some == Order \cup {NoOrder}

(* "refunded": picked up, with payment_status refunded.                     *)
Status == {"placed", "ready", "picked_up", "no_show", "canceled", "refunded"}
Open == {"placed", "ready"}

(* The dialog asks to confirm a change of status or the end of a            *)
(* subscription; subs: the subscriptions shown as active or paused.         *)
Asks == Status \cup {"unsubscribed"}
Dash == [busy : Some, sub : Some, subs : SUBSET Order, refund : Some, refunding : BOOLEAN,
         dialog : [order : Some, to : Asks]]

(* A code stands for the order it belongs to; the timer starts a lookup a   *)
(* quarter of a second after the sixth digit.                               *)
Entry == [code : Some, preview : Some, busy : BOOLEAN, timer : BOOLEAN]

Phone == [at : {"closed", "loading", "preview", "confirming", "success", "error"},
          stage : {"sent", "granted", "failed"}, order : Some, shown : Status]

(* ends: what the handler lowers at its end ("field": a field that is still *)
(* mounted).  A cancel is "listed" while the server has listed the orders   *)
(* of the subscription and not yet canceled them.                           *)
ScriptState ==
  [op : {"none", "status", "refund", "lookup", "confirm", "list", "unsubscribe", "refresh"},
   stage : {"sent", "listed", "granted", "failed"}, order : Some, code : Some, to : Status,
   ends : {"none", "busy", "sub", "refunding", "field"},
   snapshot : [Order -> Status], subs : SUBSET Order]

NoDialog == [order |-> NoOrder, to |-> "placed"]
EmptyField == [code |-> NoOrder, preview |-> NoOrder, busy |-> FALSE, timer |-> FALSE]
AllPlaced == [o \in Order |-> "placed"]
Idle == [op |-> "none", stage |-> "sent", order |-> NoOrder, code |-> NoOrder,
         to |-> "placed", ends |-> "none", snapshot |-> AllPlaced, subs |-> {}]

(* told: buyers whose code was in the field when it said "Pickup            *)
(* confirmed!"; crossed: two handlers of the dashboard were under way at    *)
(* once; outside: an order changed by other than the dashboard; doubt: a    *)
(* call has failed since the list was last loaded; unlisted: orders closed  *)
(* with their subscription since then; late: orders that were closed        *)
(* already when their subscription's cancel closed them.                    *)
History == [clicks : 0 .. Clicks, told : SUBSET Order, unlisted : SUBSET Order,
            late : SUBSET Order, crossed : BOOLEAN, outside : BOOLEAN, doubt : BOOLEAN]

DeskTypeOK ==
  /\ served \in [Order -> Status]
  /\ asked \subseteq Order /\ active \subseteq Order
  /\ list \in [Order -> Status]
  /\ dash \in Dash
  /\ entry \in Entry
  /\ phone \in Phone
  /\ script \in [Script -> ScriptState]
  /\ seen \in History

(* The orders have been loaded for the selected window.                     *)
DeskInit ==
  /\ served \in [Order -> Open]
  /\ asked = {}
  /\ active \in {a \in SUBSET Order : Cardinality(a) <= Subscribed}
  /\ list = served
  /\ dash = [busy |-> NoOrder, sub |-> NoOrder, subs |-> active, refund |-> NoOrder,
             refunding |-> FALSE, dialog |-> NoDialog]
  /\ entry = EmptyField
  /\ phone = [at |-> "closed", stage |-> "sent", order |-> NoOrder, shown |-> "placed"]
  /\ script = [s \in Script |-> Idle]
  /\ seen = [clicks |-> 0, told |-> {}, unlisted |-> {}, late |-> {},
             crossed |-> FALSE, outside |-> FALSE, doubt |-> FALSE]
-----------------------------------------------------------------------------
(* Handlers.                                                                *)

Running == {s \in Script : script[s].op # "none"}

Begins(s, what) ==
  /\ script[s].op = "none"
  /\ seen.clicks < Clicks
  /\ script' = [script EXCEPT ![s] = what]
  /\ seen' = [seen EXCEPT !.clicks = @ + 1, !.crossed = @ \/ Running # {}]

Ends(s) == script' = [script EXCEPT ![s] = Idle]
Goes(s, what) == script' = [script EXCEPT ![s] = what]

AnswerTo(s, op) == script[s].op = op /\ script[s].stage = "granted"

(* A dialog keeps the rest of the dashboard from being clicked.             *)
Clickable == dash.dialog = NoDialog /\ dash.refund = NoOrder
-----------------------------------------------------------------------------
(* The order list.                                                          *)

(* The changes an order's row offers, by the status it shows.               *)
Offered(o) ==
  CASE list[o] = "placed" -> {"ready", "canceled"}
    [] list[o] = "ready" -> {"no_show"}
    [] OTHER -> {}

Executes(s, o, to) ==
  /\ Begins(s, [Idle EXCEPT !.op = "status", !.order = o, !.to = to, !.ends = "busy"])
  /\ dash' = [dash EXCEPT !.busy = o, !.dialog = NoDialog]
  /\ UNCHANGED <<served, asked, active, list, entry, phone>>

MarkReady(s) ==
  \E o \in Order :
    /\ Clickable
    /\ dash.busy # o
    /\ "ready" \in Offered(o)
    /\ Executes(s, o, "ready")

(* Canceling and a no-show are asked about first.                           *)
AskStatus ==
  \E o \in Order : \E to \in Offered(o) \ {"ready"} :
    /\ Clickable
    /\ dash.busy # o
    /\ dash' = [dash EXCEPT !.dialog = [order |-> o, to |-> to]]
    /\ UNCHANGED <<served, asked, active, list, entry, phone, script, seen>>

ConfirmStatus(s) ==
  /\ dash.dialog # NoDialog
  /\ dash.dialog.to # "unsubscribed"
  /\ Executes(s, dash.dialog.order, dash.dialog.to)

DismissDialog ==
  /\ dash.dialog # NoDialog
  /\ dash' = [dash EXCEPT !.dialog = NoDialog]
  /\ UNCHANGED <<served, asked, active, list, entry, phone, script, seen>>

OpenRefund ==
  \E o \in Order :
    /\ Clickable
    /\ dash.busy # o
    /\ list[o] = "picked_up"
    /\ dash' = [dash EXCEPT !.refund = o]
    /\ UNCHANGED <<served, asked, active, list, entry, phone, script, seen>>

(* Escape and a click beside the dialog close it also while it is loading.  *)
CloseRefund ==
  /\ dash.refund # NoOrder
  /\ dash' = [dash EXCEPT !.refund = NoOrder]
  /\ UNCHANGED <<served, asked, active, list, entry, phone, script, seen>>

ExecuteRefund(s) ==
  /\ dash.refund # NoOrder
  /\ ~dash.refunding
  /\ Begins(s, [Idle EXCEPT !.op = "refund", !.order = dash.refund, !.ends = "refunding"])
  /\ dash' = [dash EXCEPT !.refunding = TRUE]
  /\ UNCHANGED <<served, asked, active, list, entry, phone>>

(* The flags are lowered, and with the refund's any dialog is closed.       *)
Lowered(ends) ==
  CASE ends = "busy" -> [dash EXCEPT !.busy = NoOrder]
    [] ends = "sub" -> [dash EXCEPT !.sub = NoOrder]
    [] ends = "refunding" -> [dash EXCEPT !.refunding = FALSE, !.refund = NoOrder]
    [] OTHER -> dash

(* Mutant of Relists: the list stays as it is.                              *)
RelistsNothing(s) ==
  /\ Ends(s)
  /\ dash' = Lowered(script[s].ends)

(* A change that was carried out is followed by loading the list.           *)
Relists(s) ==
  /\ Goes(s, [Idle EXCEPT !.op = "list", !.ends = script[s].ends])
  /\ UNCHANGED dash

StatusUpdated(s) ==
  /\ AnswerTo(s, "status") \/ AnswerTo(s, "refund")
  /\ Relists(s)
  /\ UNCHANGED <<served, asked, active, list, entry, phone, seen>>

Listed(s) ==
  /\ AnswerTo(s, "list")
  /\ list' = script[s].snapshot
  /\ dash' = Lowered(script[s].ends)
  /\ Ends(s)
  /\ seen' = [seen EXCEPT !.doubt = FALSE, !.unlisted = {}]
  /\ UNCHANGED <<served, asked, active, entry, phone>>
-----------------------------------------------------------------------------
(* The list of subscribers, on a tab of its own.                            *)

(* The other tab unmounts the field: a handler of the field that is under   *)
(* way has no field left to change.                                         *)
TurnsTab ==
  /\ Clickable
  /\ entry' = EmptyField
  /\ script' = [s \in Script |->
                  IF script[s].ends = "field" THEN [script[s] EXCEPT !.ends = "none"]
                                              ELSE script[s]]

TurnTab ==
  /\ TurnsTab
  /\ UNCHANGED <<served, asked, active, list, dash, phone, seen>>

AskUnsubscribe ==
  \E o \in dash.subs :
    /\ TurnsTab
    /\ dash.sub # o
    /\ dash' = [dash EXCEPT !.dialog = [order |-> o, to |-> "unsubscribed"]]
    /\ UNCHANGED <<served, asked, active, list, phone, seen>>

ConfirmUnsubscribe(s) ==
  /\ dash.dialog.to = "unsubscribed"
  /\ Begins(s, [Idle EXCEPT !.op = "unsubscribe", !.order = dash.dialog.order, !.ends = "sub"])
  /\ dash' = [dash EXCEPT !.sub = dash.dialog.order, !.dialog = NoDialog]
  /\ UNCHANGED <<served, asked, active, list, entry, phone>>

(* Everything but the orders is loaded anew.                                *)
Unsubscribed(s) ==
  /\ AnswerTo(s, "unsubscribe")
  /\ Goes(s, [Idle EXCEPT !.op = "refresh", !.ends = script[s].ends])
  /\ UNCHANGED <<served, asked, active, list, dash, entry, phone, seen>>

Refreshed(s) ==
  /\ AnswerTo(s, "refresh")
  /\ dash' = [Lowered(script[s].ends) EXCEPT !.subs = script[s].subs]
  /\ Ends(s)
  /\ UNCHANGED <<served, asked, active, list, entry, phone, seen>>
-----------------------------------------------------------------------------
(* The pickup-code field.                                                   *)

(* Typing clears what was looked up; a complete code starts the timer.      *)
TypeCode ==
  \E c \in Some :
    /\ Clickable
    /\ ~entry.busy
    /\ c # entry.code
    /\ entry' = [code |-> c, preview |-> NoOrder, busy |-> FALSE, timer |-> c # NoOrder]
    /\ UNCHANGED <<served, asked, active, list, dash, phone, script, seen>>

(* By the timer, whatever was started since by hand, or by Enter or button. *)
LookUp(s) ==
  /\ entry.code # NoOrder
  /\ \/ entry.timer /\ entry' = [entry EXCEPT !.timer = FALSE, !.busy = TRUE, !.preview = NoOrder]
     \/ /\ Clickable /\ ~entry.busy /\ entry.preview = NoOrder
        /\ entry' = [entry EXCEPT !.busy = TRUE]
  /\ Begins(s, [Idle EXCEPT !.op = "lookup", !.code = entry.code, !.ends = "field"])
  /\ UNCHANGED <<served, asked, active, list, dash, phone>>

LookedUp(s) ==
  /\ AnswerTo(s, "lookup")
  /\ entry' = IF script[s].ends = "field"
                THEN [entry EXCEPT !.preview = script[s].order, !.busy = FALSE] ELSE entry
  /\ Ends(s)
  /\ UNCHANGED <<served, asked, active, list, dash, phone, seen>>

(* The order that is shown, with the code that is in the field.             *)
ConfirmEntry(s) ==
  /\ Clickable
  /\ entry.preview # NoOrder
  /\ ~entry.busy
  /\ Begins(s, [Idle EXCEPT !.op = "confirm", !.order = entry.preview, !.code = entry.code,
                             !.ends = "field"])
  /\ entry' = [entry EXCEPT !.busy = TRUE]
  /\ UNCHANGED <<served, asked, active, list, dash, phone>>

(* "Pickup confirmed!": the field is emptied and the list loaded.           *)
EntryConfirmed(s) ==
  /\ AnswerTo(s, "confirm")
  /\ entry' = IF script[s].ends = "field" THEN EmptyField ELSE entry
  /\ Goes(s, [Idle EXCEPT !.op = "list"])
  /\ seen' = [seen EXCEPT !.told = @ \cup {script[s].code}]
  /\ UNCHANGED <<served, asked, active, list, dash, phone>>

(* Mutant of FieldFreed: the field stays disabled after an error.           *)
FieldKept(s) == entry

FieldFreed(s) ==
  IF script[s].ends = "field" THEN [entry EXCEPT !.busy = FALSE] ELSE entry

ScriptFailed(s) ==
  /\ script[s].op # "none" /\ script[s].stage = "failed"
  /\ entry' = FieldFreed(s)
  /\ dash' = Lowered(script[s].ends)
  /\ Ends(s)
  /\ seen' = [seen EXCEPT !.doubt = TRUE]
  /\ UNCHANGED <<served, asked, active, list, phone>>

Continues(s) ==
  \/ StatusUpdated(s) \/ Listed(s) \/ Unsubscribed(s) \/ Refreshed(s)
  \/ LookedUp(s) \/ EntryConfirmed(s) \/ ScriptFailed(s)
-----------------------------------------------------------------------------
(* The phone.                                                               *)

(* The camera opens the page of the code's order anew.                      *)
Scan ==
  \E o \in Order :
    /\ seen.clicks < Clicks
    /\ phone' = [at |-> "loading", stage |-> "sent", order |-> o, shown |-> "placed"]
    /\ seen' = [seen EXCEPT !.clicks = @ + 1]
    /\ UNCHANGED <<served, asked, active, list, dash, entry, script>>

(* Anything but a picked-up or canceled order can be confirmed.             *)
PhoneConfirm ==
  /\ phone.at = "preview"
  /\ phone.shown \notin {"picked_up", "refunded", "canceled"}
  /\ phone' = [phone EXCEPT !.at = "confirming", !.stage = "sent"]
  /\ UNCHANGED <<served, asked, active, list, dash, entry, script, seen>>

PhoneAnswered ==
  /\ phone.at \in {"loading", "confirming"}
  /\ phone.stage # "sent"
  /\ phone' = [phone EXCEPT !.at =
       CASE phone.stage = "failed" -> "error"
         [] phone.stage = "granted" /\ phone.at = "loading" -> "preview"
         [] OTHER -> "success"]
  /\ UNCHANGED <<served, asked, active, list, dash, entry, script, seen>>
-----------------------------------------------------------------------------
(* The server.                                                              *)

Sent(s, op) == script[s].op = op /\ script[s].stage = "sent"

(* An error tells the handler nothing but that the call failed.             *)
Fails(s) ==
  Goes(s, [Idle EXCEPT !.op = script[s].op, !.stage = "failed", !.ends = script[s].ends])

(* Carried out; the answer may be lost on the way.                          *)
CarriedOut(s, what) ==
  \/ Goes(s, [what EXCEPT !.stage = "granted"])
  \/ "lost" \in DeskFaults /\ Fails(s)

IsAllowedTransition(from, to) ==
  <<from, to>> \in {<<"placed", "ready">>, <<"placed", "canceled">>, <<"ready", "no_show">>}

UpdateOrderStatus(s) ==
  /\ Sent(s, "status")
  /\ IsAllowedTransition(served[script[s].order], script[s].to)
  /\ served' = [served EXCEPT ![script[s].order] = script[s].to]
  /\ CarriedOut(s, script[s])
  /\ UNCHANGED <<asked, active, list, dash, entry, phone, seen>>

(* Mutant of PickupAllowed: the code of any order will do.                  *)
PickupUnchecked(o, code) == served[o] \in Open /\ code \in Order

PickupAllowed(o, code) == served[o] \in Open /\ code = o

ConfirmPickup(s) ==
  /\ Sent(s, "confirm")
  /\ PickupAllowed(script[s].order, script[s].code)
  /\ served' = [served EXCEPT ![script[s].order] = "picked_up"]
  /\ CarriedOut(s, script[s])
  /\ UNCHANGED <<asked, active, list, dash, entry, phone, seen>>

LookupByCode(s) ==
  /\ Sent(s, "lookup")
  /\ served[script[s].code] \in Open
  /\ CarriedOut(s, [script[s] EXCEPT !.order = script[s].code])
  /\ UNCHANGED <<served, asked, active, list, dash, entry, phone, seen>>

ListOrders(s) ==
  /\ Sent(s, "list")
  /\ CarriedOut(s, [script[s] EXCEPT !.snapshot = served])
  /\ UNCHANGED <<served, asked, active, list, dash, entry, phone, seen>>

(* No other cancel of the subscription has its row locked.                  *)
Unlocked(o) == \A s \in Script : ~(script[s].stage = "listed" /\ script[s].order = o)

(* The open orders are listed, and their rows are not locked: a cancel that *)
(* finds the order closed leaves it alone, one that finds it open closes it *)
(* later, whatever has become of it.                                        *)
CancelSubscriptionRead(s) ==
  /\ Sent(s, "unsubscribe")
  /\ script[s].order \in active /\ Unlocked(script[s].order)
  /\ IF served[script[s].order] \in Open
     THEN Goes(s, [script[s] EXCEPT !.stage = "listed"]) /\ UNCHANGED active
     ELSE CarriedOut(s, script[s]) /\ active' = active \ {script[s].order}
  /\ UNCHANGED <<served, asked, list, dash, entry, phone, seen>>

CancelSubscriptionApply(s) ==
  LET o == script[s].order IN
  /\ script[s].op = "unsubscribe" /\ script[s].stage = "listed"
  /\ served' = [served EXCEPT ![o] = "canceled"]
  /\ active' = active \ {o}
  /\ seen' = [seen EXCEPT !.unlisted = @ \cup {o},
                          !.late = IF served[o] \in Open THEN @ ELSE @ \cup {o}]
  /\ CarriedOut(s, script[s])
  /\ UNCHANGED <<asked, list, dash, entry, phone>>

ListSubscriptions(s) ==
  /\ Sent(s, "refresh")
  /\ CarriedOut(s, [script[s] EXCEPT !.subs = active])
  /\ UNCHANGED <<served, asked, active, list, dash, entry, phone, seen>>

(* Stripe is asked for the refund; the order changes with its webhook.  An  *)
(* order that is refunded already is granted, also one canceled since.      *)
RefundOrder(s) ==
  /\ Sent(s, "refund")
  /\ \/ served[script[s].order] \in {"picked_up", "refunded"}
     \/ served[script[s].order] = "canceled" /\ script[s].order \in asked
  /\ asked' = asked \cup {script[s].order}
  /\ CarriedOut(s, script[s])
  /\ UNCHANGED <<served, active, list, dash, entry, phone, seen>>

(* Refused for what the order is by now, for the card, or lost.             *)
NotServed(s) ==
  LET call == script[s] IN
  /\ call.op # "none" /\ call.stage \in {"sent", "listed"}
  /\ \/ "lost" \in DeskFaults
     \/ call.op = "unsubscribe" /\ call.order \notin active
     \/ call.op = "refund" /\ served[call.order] \notin {"picked_up", "refunded"}
     \/ call.op = "status" /\ ~IsAllowedTransition(served[call.order], call.to)
     \/ call.op = "confirm" /\ ~PickupAllowed(call.order, call.code)
     \/ call.op = "confirm" /\ "declined" \in DeskFaults
     \/ call.op = "lookup" /\ served[call.code] \notin Open
  /\ Fails(s)
  /\ UNCHANGED <<served, asked, active, list, dash, entry, phone, seen>>

Serves(s) ==
  \/ UpdateOrderStatus(s)
  \/ ConfirmPickup(s)
  \/ LookupByCode(s)
  \/ ListOrders(s)
  \/ CancelSubscriptionRead(s)
  \/ CancelSubscriptionApply(s)
  \/ ListSubscriptions(s)
  \/ RefundOrder(s)
  \/ NotServed(s)

Outside(new) ==
  /\ served' = new
  /\ seen' = [seen EXCEPT !.outside = TRUE]

(* The phone's calls, with the order and code of the QR.                    *)
PhonePreview ==
  /\ phone.at = "loading" /\ phone.stage = "sent"
  /\ \/ phone' = [phone EXCEPT !.stage = "granted", !.shown = served[phone.order]]
     \/ "lost" \in DeskFaults /\ phone' = [phone EXCEPT !.stage = "failed"]
  /\ UNCHANGED <<served, asked, active, list, dash, entry, script, seen>>

PhonePickup ==
  /\ phone.at = "confirming" /\ phone.stage = "sent"
  /\ PickupAllowed(phone.order, phone.order)
  /\ Outside([served EXCEPT ![phone.order] = "picked_up"])
  /\ \/ phone' = [phone EXCEPT !.stage = "granted"]
     \/ "lost" \in DeskFaults /\ phone' = [phone EXCEPT !.stage = "failed"]
  /\ UNCHANGED <<asked, active, list, dash, entry, script>>

PhoneRefused ==
  /\ phone.at = "confirming" /\ phone.stage = "sent"
  /\ ~PickupAllowed(phone.order, phone.order) \/ "declined" \in DeskFaults
  /\ phone' = [phone EXCEPT !.stage = "failed"]
  /\ UNCHANGED <<served, asked, active, list, dash, entry, script, seen>>

PhoneServed == PhonePreview \/ PhonePickup \/ PhoneRefused

(* charge.refunded arrives.                                                 *)
RefundWebhook ==
  \E o \in asked :
    /\ served[o] = "picked_up"
    /\ Outside([served EXCEPT ![o] = "refunded"])
    /\ UNCHANGED <<asked, active, list, dash, entry, phone, script>>

(* A buyer cancels the subscription of an order before the cutoff.          *)
BuyerCancels ==
  \E o \in active :
    /\ "buyer" \in DeskFaults
    /\ served[o] \in Open /\ Unlocked(o)
    /\ active' = active \ {o}
    /\ Outside([served EXCEPT ![o] = "canceled"])
    /\ UNCHANGED <<asked, list, dash, entry, phone, script>>

ClicksOf(s) ==
  \/ MarkReady(s) \/ ConfirmStatus(s) \/ ConfirmUnsubscribe(s) \/ ExecuteRefund(s)
  \/ LookUp(s) \/ ConfirmEntry(s)

DeskNext ==
  \/ \E s \in Script : ClicksOf(s) \/ Continues(s) \/ Serves(s)
  \/ AskStatus \/ DismissDialog \/ OpenRefund \/ CloseRefund \/ TypeCode
  \/ TurnTab \/ AskUnsubscribe
  \/ Scan \/ PhoneConfirm \/ PhoneAnswered \/ PhoneServed
  \/ RefundWebhook \/ BuyerCancels

DeskSpec == DeskInit /\ [][DeskNext]_deskVars
-----------------------------------------------------------------------------
(* SaidSo: when the field has said "Pickup confirmed!", the order of the    *)
(* buyer whose code was typed is picked up, whatever late lookup has put    *)
(* another buyer's order on the screen; and the phone says so only of an    *)
(* order that is.  Only a cancel of the subscription that had listed the    *)
(* order while it was open takes that back.                                 *)
HandedOver(o) ==
  \/ served[o] \in {"picked_up", "refunded"}
  \/ served[o] = "canceled" /\ o \in seen.late

SaidSo ==
  /\ \A o \in seen.told : HandedOver(o)
  /\ phone.at = "success" => HandedOver(phone.order)

(* ListCurrent: when the dashboard is at rest its list shows the orders as  *)
(* they are, but for those closed with their subscription since the list    *)
(* was last loaded, which it goes on showing as they were; unless its       *)
(* handlers have crossed, the orders have changed from elsewhere, or a call *)
(* has failed since the last list.                                          *)
ListCurrent ==
  Running = {} /\ ~seen.crossed /\ ~seen.outside /\ ~seen.doubt =>
    \A o \in Order : list[o] = served[o] \/ (o \in seen.unlisted /\ served[o] = "canceled")

(* BusyIsWaiting: a button, dialog or field is disabled only while a        *)
(* handler is under way that enables it again at its end, however handlers  *)
(* overlap that share a flag and lower it for each other.                   *)
BusyIsWaiting ==
  /\ dash.busy # NoOrder => \E s \in Running : script[s].ends = "busy"
  /\ dash.sub # NoOrder => \E s \in Running : script[s].ends = "sub"
  /\ dash.refunding => \E s \in Running : script[s].ends = "refunding"
  /\ entry.busy => \E s \in Running : script[s].ends = "field"
=============================================================================
