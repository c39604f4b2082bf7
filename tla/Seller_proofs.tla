---------------------------- MODULE Seller_proofs ----------------------------
(***************************************************************************)
(* For any orders, handlers, clicks and mishaps: what the pages of a seller *)
(* say is so.                                                               *)
(***************************************************************************)
EXTENDS Seller, FiniteSetTheorems, TLAPS

(* The desk.                                                                *)

(* A pickup or a refund that was sent is of an order, and an answered       *)
(* pickup is of the order whose code was sent with it.                      *)
SaidInv ==
  /\ \A s \in Script : script[s].op \in {"refund", "confirm"} /\ script[s].stage = "sent" =>
       script[s].order \in Order
  /\ \A s \in Script : script[s].op = "confirm" /\ script[s].stage = "granted" =>
       script[s].code \in Order /\ HandedOver(script[s].code)
  /\ phone.at # "closed" => phone.order \in Order
  /\ phone.at = "confirming" /\ phone.stage = "granted" => HandedOver(phone.order)
  /\ SaidSo

AloneInv ==
  ~seen.crossed => \A s, t \in Script : script[s].op # "none" /\ script[t].op # "none" => s = t

(* As long as nothing has crossed or come from outside, a list that was     *)
(* sent is the truth, and a change that was carried out is followed by one, *)
(* unless it closed the order with its subscription.                        *)
Straight == ~seen.crossed /\ ~seen.outside

ListedInv ==
  Straight => \A s \in Script : script[s].op = "list" /\ script[s].stage = "granted" =>
                script[s].snapshot = served

Shows ==
  \A o \in Order : list[o] = served[o] \/ (o \in seen.unlisted /\ served[o] = "canceled")

ListInv ==
  Straight /\ ~seen.doubt =>
    \/ Shows
    \/ \E s \in Script : script[s].op = "list"
    \/ \E s \in Script : script[s].op \in {"status", "confirm"} /\ script[s].stage # "sent"

(* The handlers of the pickup-code field lower no flag of the dashboard,    *)
(* and a cancel that has listed an order is of an order.                    *)
FieldInv ==
  /\ \A s \in Script : script[s].op \in {"lookup", "confirm"} => script[s].ends \in {"none", "field"}
  /\ \A s \in Script : script[s].ends = "field" => script[s].op \in {"lookup", "confirm"}
  /\ \A s \in Script : script[s].stage = "listed" => script[s].order \in Order

DeskInv ==
  /\ DeskTypeOK /\ SaidInv /\ AloneInv /\ FieldInv
  /\ ListedInv /\ ListInv /\ BusyIsWaiting

LEMMA DeskIdle ==
  /\ Idle \in ScriptState
  /\ Idle.op = "none" /\ Idle.stage = "sent" /\ Idle.ends = "none" /\ Idle.subs = {}
BY DEF Idle, ScriptState, Some, Status, AllPlaced

LEMMA DeskHandler ==
  ASSUME DeskTypeOK, NEW s \in Script
  PROVE  /\ script[s] \in ScriptState
         /\ script[s].op \in {"none", "status", "refund", "lookup", "confirm", "list",
                               "unsubscribe", "refresh"}
         /\ script[s].stage \in {"sent", "listed", "granted", "failed"}
         /\ script[s].order \in Some /\ script[s].code \in Some /\ script[s].to \in Status
         /\ script[s].ends \in {"none", "busy", "sub", "refunding", "field"}
         /\ script[s].snapshot \in [Order -> Status] /\ script[s].subs \subseteq Order
BY DEF DeskTypeOK, ScriptState

LEMMA DeskParts ==
  ASSUME DeskTypeOK
  PROVE  /\ dash.busy \in Some /\ dash.refund \in Some /\ dash.refunding \in BOOLEAN
         /\ dash.sub \in Some /\ dash.subs \subseteq Order
         /\ entry.code \in Some /\ entry.preview \in Some
         /\ entry.busy \in BOOLEAN /\ entry.timer \in BOOLEAN
         /\ phone.order \in Some /\ phone.shown \in Status
         /\ phone.stage \in {"sent", "granted", "failed"}
         /\ seen.told \subseteq Order /\ seen.unlisted \subseteq Order
         /\ seen.late \subseteq Order /\ seen.crossed \in BOOLEAN
         /\ seen.clicks \in 0 .. Clicks
         /\ seen.outside \in BOOLEAN /\ seen.doubt \in BOOLEAN
BY DEF DeskTypeOK, Dash, Entry, Phone, History

LEMMA DeskSet ==
  ASSUME DeskTypeOK, NEW s \in Script, NEW what \in ScriptState,
         script' = [script EXCEPT ![s] = what]
  PROVE  /\ script' \in [Script -> ScriptState]
         /\ script'[s] = what
         /\ \A t \in Script \ {s} : script'[t] = script[t]
BY DEF DeskTypeOK

-----------------------------------------------------------------------------
(* A handler begins.                                                        *)
LEMMA BeginsKeeps ==
  ASSUME DeskInv, NEW s \in Script, NEW what \in ScriptState, Begins(s, what),
         what.stage = "sent", what.op # "none",
         what.op \in {"refund", "confirm"} => what.order \in Order,
         what.op \in {"lookup", "confirm"} <=> what.ends = "field",
         UNCHANGED <<served, asked, active, list, phone>>, dash' \in Dash, entry' \in Entry,
         dash'.busy # NoOrder => dash'.busy = dash.busy \/ what.ends = "busy",
         dash'.sub # NoOrder => dash'.sub = dash.sub \/ what.ends = "sub",
         dash'.refunding => dash.refunding \/ what.ends = "refunding",
         entry'.busy => entry.busy \/ what.ends = "field"
  PROVE  DeskInv'
<1> USE DeskParts, DeskHandler DEF DeskInv
<1>1. /\ script' \in [Script -> ScriptState] /\ script'[s] = what
      /\ \A t \in Script \ {s} : script'[t] = script[t]
      /\ script[s].op = "none"
  BY DeskSet DEF Begins
<1>2. /\ seen' \in History
      /\ seen'.crossed = (seen.crossed \/ Running # {})
      /\ seen'.told = seen.told /\ seen'.outside = seen.outside /\ seen'.doubt = seen.doubt
      /\ seen'.late = seen.late /\ seen'.unlisted = seen.unlisted
  <2>1. seen.clicks + 1 \in 0 .. Clicks
    BY DeskAssumption DEF Begins
  <2>2. seen' = [seen EXCEPT !.clicks = seen.clicks + 1,
                             !.crossed = seen.crossed \/ Running # {}]
    BY DEF Begins, DeskTypeOK, History
  <2> QED
    BY <2>1, <2>2 DEF History, DeskTypeOK
<1>3. ~seen'.crossed => ~seen.crossed /\ \A t \in Script : script[t].op = "none"
  BY <1>2 DEF Running
<1>4. DeskTypeOK'
  BY <1>1, <1>2 DEF DeskTypeOK
<1>5. SaidInv'
  BY <1>1, <1>2 DEF SaidInv, SaidSo, HandedOver
<1>6. AloneInv'
  BY <1>1, <1>3 DEF AloneInv
<1>7. ListedInv'
  BY <1>1, <1>2, <1>3 DEF ListedInv, Straight
<1>8. ListInv'
  BY <1>1, <1>2, <1>3 DEF ListInv, Straight, Shows
<1>9. BusyIsWaiting'
  BY <1>1 DEF BusyIsWaiting, Running
<1>10. FieldInv'
  BY <1>1 DEF FieldInv
<1> QED
  BY <1>4, <1>5, <1>6, <1>7, <1>8, <1>9, <1>10

(* A handler goes on with an answer: it ends, or loads a list.              *)
LEMMA GoesOnKeeps ==
  ASSUME DeskInv, NEW s \in Script, NEW what \in ScriptState, Goes(s, what),
         script[s].op # "none", what.op \in {"none", "list", "refresh"}, what.stage = "sent",
         what.op = "none" => what.ends = "none", what.ends # "field",
         UNCHANGED <<served, asked, active, phone>>,
         list' \in [Order -> Status], dash' \in Dash, entry' \in Entry, seen' \in History,
         seen'.crossed = seen.crossed, seen'.outside = seen.outside, seen'.late = seen.late,
         \A o \in seen'.told \ seen.told : HandedOver(o),
         Straight /\ ~seen'.doubt =>
           \/ list' = served
           \/ /\ list' = list /\ seen'.doubt = seen.doubt /\ seen'.unlisted = seen.unlisted
              /\ what.op # "list" => script[s].op \notin {"list", "status", "confirm"},
         dash'.busy # NoOrder =>
           dash'.busy = dash.busy /\ (script[s].ends = "busy" => what.ends = "busy"),
         dash'.sub # NoOrder =>
           dash'.sub = dash.sub /\ (script[s].ends = "sub" => what.ends = "sub"),
         dash'.refunding =>
           dash.refunding /\ (script[s].ends = "refunding" => what.ends = "refunding"),
         entry'.busy => entry.busy /\ script[s].ends # "field"
  PROVE  DeskInv'
<1> USE DeskParts, DeskHandler DEF DeskInv
<1>1. /\ script' \in [Script -> ScriptState] /\ script'[s] = what
      /\ \A t \in Script \ {s} : script'[t] = script[t]
  BY DeskSet DEF Goes
<1>2. DeskTypeOK'
  BY <1>1 DEF DeskTypeOK
<1>3. SaidInv'
  BY <1>1 DEF SaidInv, SaidSo, HandedOver
<1>4. AloneInv'
  BY <1>1 DEF AloneInv
<1>5. ListedInv'
  BY <1>1 DEF ListedInv, Straight
<1>6. ListInv'
  BY <1>1 DEF ListInv, Straight, Shows
<1>7. BusyIsWaiting'
  BY <1>1 DEF BusyIsWaiting, Running
<1>8. FieldInv'
  BY <1>1 DEF FieldInv
<1> QED
  BY <1>2, <1>3, <1>4, <1>5, <1>6, <1>7, <1>8

(* The server answers a handler, or lists the orders it will cancel.  What  *)
(* was handed over stays so, as far as SaidSo says.                         *)
HandedKept == \A o \in Order : HandedOver(o) => HandedOver(o)'

LEMMA AnswerKeeps ==
  ASSUME DeskInv, NEW s \in Script, NEW what \in ScriptState, Goes(s, what),
         script[s].op # "none", what.op = script[s].op,
         what.stage \in {"listed", "granted", "failed"},
         what.stage = "listed" => what.order \in Order,
         what.ends = script[s].ends,
         what.op = "list" /\ what.stage = "granted" => what.snapshot = served,
         UNCHANGED <<list, dash, entry, phone>>,
         asked' \subseteq Order, active' \subseteq Order,
         served' \in [Order -> Status], seen' \in History, HandedKept,
         seen'.told = seen.told, seen'.crossed = seen.crossed,
         seen'.outside = seen.outside, seen'.doubt = seen.doubt,
         what.op = "confirm" /\ what.stage = "granted" =>
           what.code \in Order /\ HandedOver(what.code)',
         served' # served => what.op # "list",
         \/ what.op \in {"status", "confirm"}
         \/ /\ seen.unlisted \subseteq seen'.unlisted
            /\ \A o \in Order :
                 \/ served'[o] = served[o]
                 \/ o \in seen'.unlisted /\ served'[o] = "canceled"
  PROVE  DeskInv'
<1> USE DeskParts, DeskHandler DEF DeskInv
<1>1. /\ script' \in [Script -> ScriptState] /\ script'[s] = what
      /\ \A t \in Script \ {s} : script'[t] = script[t]
  BY DeskSet DEF Goes
<1>2. DeskTypeOK'
  BY <1>1 DEF DeskTypeOK
<1>3. SaidInv'
  <2>1. SaidSo'
    BY DEF SaidInv, SaidSo, HandedKept
  <2>2. \A t \in Script : script'[t].op = "confirm" /\ script'[t].stage = "granted" =>
          script'[t].code \in Order /\ HandedOver(script[t].code)'
    BY <1>1 DEF SaidInv, HandedKept
  <2> QED
    BY <1>1, <2>1, <2>2 DEF SaidInv, HandedKept
<1>4. AloneInv'
  BY <1>1 DEF AloneInv
<1>5. ListedInv'
  BY <1>1 DEF ListedInv, AloneInv, Straight
<1>6. ListInv'
  BY <1>1 DEF ListInv, Straight, Shows
<1>7. BusyIsWaiting'
  BY <1>1 DEF BusyIsWaiting, Running
<1>8. FieldInv'
  BY <1>1 DEF FieldInv
<1> QED
  BY <1>2, <1>3, <1>4, <1>5, <1>6, <1>7, <1>8

(* What no handler does.                                                    *)
LEMMA ElsewhereKeeps ==
  ASSUME DeskInv, UNCHANGED <<script, asked, list>>, active' \subseteq Order,
         dash' \in Dash, entry' \in Entry, phone' \in Phone, seen' \in History,
         served' \in [Order -> Status], HandedKept,
         seen'.crossed = seen.crossed, seen'.told = seen.told, seen'.doubt = seen.doubt,
         seen'.unlisted = seen.unlisted,
         \/ served' = served /\ seen'.outside = seen.outside
         \/ seen'.outside,
         phone'.at # "closed" => phone'.order \in Order,
         phone'.at = "confirming" /\ phone'.stage = "granted" => HandedOver(phone.order)',
         phone'.at = "success" => HandedOver(phone.order)',
         dash'.busy = dash.busy, dash'.sub = dash.sub, dash'.refunding = dash.refunding,
         entry'.busy => entry.busy
  PROVE  DeskInv'
<1> USE DeskParts, DeskHandler DEF DeskInv
<1>1. DeskTypeOK'
  BY DEF DeskTypeOK
<1>2. SaidInv'
  BY DEF SaidInv, SaidSo, HandedKept
<1>3. AloneInv'
  BY DEF AloneInv
<1>4. ListedInv'
  BY DEF ListedInv, Straight
<1>5. ListInv'
  BY DEF ListInv, Straight, Shows
<1>6. BusyIsWaiting'
  BY DEF BusyIsWaiting, Running
<1>7. FieldInv'
  BY DEF FieldInv
<1> QED
  BY <1>1, <1>2, <1>3, <1>4, <1>5, <1>6, <1>7

(* The other tab.                                                           *)
LEMMA TurnKeeps ==
  ASSUME DeskInv, TurnsTab, UNCHANGED <<served, asked, active, list, phone, seen>>,
         dash' \in Dash,
         dash'.busy = dash.busy, dash'.sub = dash.sub, dash'.refunding = dash.refunding
  PROVE  DeskInv'
<1> USE DeskParts, DeskHandler DEF DeskInv
<1>1. \A s \in Script :
        /\ script'[s] \in ScriptState
        /\ script'[s].op = script[s].op /\ script'[s].stage = script[s].stage
        /\ script'[s].order = script[s].order /\ script'[s].code = script[s].code
        /\ script'[s].snapshot = script[s].snapshot
        /\ script'[s].ends = IF script[s].ends = "field" THEN "none" ELSE script[s].ends
  BY DEF TurnsTab, ScriptState
<1>2. entry' \in Entry /\ ~entry'.busy
  BY DEF TurnsTab, EmptyField, Entry, Some
<1>3. DeskTypeOK'
  BY <1>1, <1>2 DEF DeskTypeOK, TurnsTab
<1>4. SaidInv'
  BY <1>1 DEF SaidInv, SaidSo, HandedOver
<1>5. AloneInv' /\ FieldInv'
  BY <1>1 DEF AloneInv, FieldInv
<1>6. ListedInv' /\ ListInv'
  BY <1>1 DEF ListedInv, ListInv, Straight, Shows
<1>7. BusyIsWaiting'
  BY <1>1, <1>2 DEF BusyIsWaiting, Running
<1> QED
  BY <1>3, <1>4, <1>5, <1>6, <1>7

-----------------------------------------------------------------------------
(* The steps of the desk.                                                   *)
LEMMA DeskStarts == DeskInit => DeskInv
<1> SUFFICES ASSUME DeskInit PROVE DeskInv
  OBVIOUS
<1> USE DeskAssumption
<1>1. /\ \A s \in Script : script[s] = Idle
      /\ phone.at = "closed" /\ seen.told = {} /\ list = served
      /\ dash.busy = NoOrder /\ dash.sub = NoOrder /\ ~dash.refunding /\ ~entry.busy
  BY DEF DeskInit, EmptyField
<1>2. DeskTypeOK
  <2>1. served \in [Order -> Status] /\ asked \subseteq Order /\ list \in [Order -> Status]
    BY DEF DeskInit, Open, Status
  <2>6. active \subseteq Order
    BY DEF DeskInit
  <2>2. dash \in Dash
    BY <2>6 DEF DeskInit, Dash, NoDialog, Some, Asks, Status
  <2>3. entry \in Entry /\ phone \in Phone
    BY DEF DeskInit, EmptyField, Entry, Phone, Some, Status
  <2>4. script \in [Script -> ScriptState]
    BY DeskIdle DEF DeskInit
  <2>5. seen \in History
    BY DEF DeskInit, History
  <2> QED
    BY <2>1, <2>2, <2>3, <2>4, <2>5, <2>6 DEF DeskTypeOK
<1>3. SaidInv
  BY <1>1, DeskIdle DEF SaidInv, SaidSo
<1>4. AloneInv /\ FieldInv /\ ListedInv /\ ListInv /\ BusyIsWaiting
  BY <1>1, DeskIdle DEF AloneInv, FieldInv, ListedInv, ListInv, Shows, BusyIsWaiting
<1> QED
  BY <1>2, <1>3, <1>4 DEF DeskInv

LEMMA ClicksKeep ==
  ASSUME DeskInv, NEW s \in Script, ClicksOf(s)
  PROVE  DeskInv'
<1>1. DeskTypeOK /\ dash \in Dash /\ entry \in Entry
  BY DEF DeskInv, DeskTypeOK
<1> USE <1>1, DeskParts, DeskIdle, DeskAssumption
<1>2. ASSUME NEW o \in Some, NEW to \in Status, Executes(s, o, to)
      PROVE  DeskInv'
  <2> DEFINE what == [Idle EXCEPT !.op = "status", !.order = o, !.to = to, !.ends = "busy"]
  <2>1. /\ what \in ScriptState
        /\ what.op = "status" /\ what.stage = "sent" /\ what.ends = "busy"
    BY DEF ScriptState, Idle
  <2>2. /\ dash' \in Dash /\ dash'.busy = o /\ dash'.sub = dash.sub
        /\ dash'.refunding = dash.refunding
    <3>1. NoDialog \in [order : Some, to : Asks]
      BY DEF NoDialog, Some, Asks, Status
    <3> QED
      BY <1>2, <3>1 DEF Executes, Dash
  <2>3. Begins(s, what) /\ UNCHANGED <<served, asked, active, list, entry, phone>>
    BY <1>2 DEF Executes
  <2> HIDE DEF what
  <2> QED
    BY <2>1, <2>2, <2>3, BeginsKeeps
<1>3. ASSUME MarkReady(s) PROVE DeskInv'
  BY <1>2, <1>3 DEF MarkReady, Some, Status
<1>4. ASSUME ConfirmStatus(s) PROVE DeskInv'
  <2>1. dash.dialog.order \in Some /\ dash.dialog.to \in Status
    BY <1>4 DEF Dash, Asks, ConfirmStatus
  <2> QED
    BY <1>2, <1>4, <2>1 DEF ConfirmStatus
<1>5. ASSUME ExecuteRefund(s) PROVE DeskInv'
  <2> DEFINE what == [Idle EXCEPT !.op = "refund", !.order = dash.refund, !.ends = "refunding"]
  <2>1. /\ what \in ScriptState
        /\ what.op = "refund" /\ what.stage = "sent" /\ what.ends = "refunding"
        /\ what.order = dash.refund
    BY DEF ScriptState, Idle
  <2>2. /\ dash' \in Dash /\ dash'.busy = dash.busy /\ dash'.sub = dash.sub
        /\ dash.refund \in Order
    BY <1>5 DEF ExecuteRefund, Dash, Some
  <2>3. Begins(s, what) /\ UNCHANGED <<served, asked, active, list, entry, phone>>
    BY <1>5 DEF ExecuteRefund
  <2> HIDE DEF what
  <2> QED
    BY <2>1, <2>2, <2>3, BeginsKeeps
<1>6. ASSUME LookUp(s) PROVE DeskInv'
  <2> DEFINE what == [Idle EXCEPT !.op = "lookup", !.code = entry.code, !.ends = "field"]
  <2>1. /\ what \in ScriptState
        /\ what.op = "lookup" /\ what.stage = "sent" /\ what.ends = "field"
    BY DEF ScriptState, Idle
  <2>2. entry' \in Entry
    BY <1>6 DEF LookUp, Entry, Some
  <2>3. Begins(s, what) /\ UNCHANGED <<served, asked, active, list, dash, phone>>
    BY <1>6 DEF LookUp
  <2> HIDE DEF what
  <2> QED
    BY <2>1, <2>2, <2>3, BeginsKeeps
<1>7. ASSUME ConfirmEntry(s) PROVE DeskInv'
  <2> DEFINE what == [Idle EXCEPT !.op = "confirm", !.order = entry.preview,
                                  !.code = entry.code, !.ends = "field"]
  <2>1. /\ what \in ScriptState
        /\ what.op = "confirm" /\ what.stage = "sent" /\ what.ends = "field"
        /\ what.order = entry.preview
    BY DEF ScriptState, Idle
  <2>2. entry' \in Entry /\ entry.preview \in Order
    BY <1>7 DEF ConfirmEntry, Entry, Some
  <2>3. Begins(s, what) /\ UNCHANGED <<served, asked, active, list, dash, phone>>
    BY <1>7 DEF ConfirmEntry
  <2> HIDE DEF what
  <2> QED
    BY <2>1, <2>2, <2>3, BeginsKeeps
<1>8. ASSUME ConfirmUnsubscribe(s) PROVE DeskInv'
  <2> DEFINE what == [Idle EXCEPT !.op = "unsubscribe", !.order = dash.dialog.order,
                                  !.ends = "sub"]
  <2>1. /\ what \in ScriptState
        /\ what.op = "unsubscribe" /\ what.stage = "sent" /\ what.ends = "sub"
    BY DEF ScriptState, Idle, Dash
  <2>2. dash' \in Dash /\ dash'.busy = dash.busy /\ dash'.refunding = dash.refunding
    <3>1. NoDialog \in [order : Some, to : Asks] /\ dash.dialog.order \in Some
      BY DEF NoDialog, Some, Asks, Status, Dash
    <3> QED
      BY <1>8, <3>1 DEF ConfirmUnsubscribe, Dash
  <2>3. Begins(s, what) /\ UNCHANGED <<served, asked, active, list, entry, phone>>
    BY <1>8 DEF ConfirmUnsubscribe
  <2> HIDE DEF what
  <2> QED
    BY <2>1, <2>2, <2>3, BeginsKeeps
<1> QED
  BY <1>3, <1>4, <1>5, <1>6, <1>7, <1>8 DEF ClicksOf

(* Lowering the flags.                                                      *)
LEMMA DeskLowers ==
  ASSUME DeskTypeOK, NEW ends \in {"none", "busy", "sub", "refunding", "field"}
  PROVE  /\ Lowered(ends) \in Dash
         /\ Lowered(ends).busy # NoOrder =>
              Lowered(ends).busy = dash.busy /\ ends # "busy"
         /\ Lowered(ends).sub # NoOrder =>
              Lowered(ends).sub = dash.sub /\ ends # "sub"
         /\ Lowered(ends).refunding => dash.refunding /\ ends # "refunding"
<1>1. dash \in Dash
  BY DEF DeskTypeOK
<1>2. CASE ends = "busy"
  <2>1. Lowered(ends) = [dash EXCEPT !.busy = NoOrder]
    BY <1>2 DEF Lowered
  <2> QED
    BY <1>1, <1>2, <2>1 DEF Dash, Some
<1>3. CASE ends = "refunding"
  <2>1. Lowered(ends) = [dash EXCEPT !.refunding = FALSE, !.refund = NoOrder]
    BY <1>3 DEF Lowered
  <2> QED
    BY <1>1, <1>3, <2>1 DEF Dash, Some
<1>5. CASE ends = "sub"
  <2>1. Lowered(ends) = [dash EXCEPT !.sub = NoOrder]
    BY <1>5 DEF Lowered
  <2> QED
    BY <1>1, <1>5, <2>1 DEF Dash, Some
<1>4. CASE ends \in {"none", "field"}
  <2>1. Lowered(ends) = dash
    BY <1>4 DEF Lowered
  <2> QED
    BY <1>1, <1>4, <2>1
<1> QED
  BY <1>2, <1>3, <1>4, <1>5

LEMMA ContinuesKeep ==
  ASSUME DeskInv, NEW s \in Script, Continues(s)
  PROVE  DeskInv'
<1>1. DeskTypeOK /\ dash \in Dash /\ entry \in Entry /\ seen \in History
  BY DEF DeskInv, DeskTypeOK
<1> USE <1>1, DeskParts, DeskIdle, DeskHandler, DeskAssumption
<1>2. ASSUME StatusUpdated(s) PROVE DeskInv'
  <2> DEFINE what == [Idle EXCEPT !.op = "list", !.ends = script[s].ends]
  <2>1. /\ what \in ScriptState
        /\ what.op = "list" /\ what.stage = "sent" /\ what.ends = script[s].ends
    BY DEF ScriptState, Idle
  <2>2. Goes(s, what) /\ UNCHANGED <<served, asked, active, list, dash, entry, phone, seen>>
    BY <1>2 DEF StatusUpdated, Relists
  <2>3. /\ script[s].op \in {"status", "refund"} /\ list \in [Order -> Status]
        /\ script[s].ends # "field"
    BY <1>2 DEF StatusUpdated, AnswerTo, DeskTypeOK, DeskInv, FieldInv
  <2> HIDE DEF what
  <2> QED
    BY <2>1, <2>2, <2>3, GoesOnKeeps
<1>3. ASSUME Listed(s) PROVE DeskInv'
  <2>1. Goes(s, Idle) /\ UNCHANGED <<served, asked, active, entry, phone>>
    BY <1>3 DEF Listed, Ends, Goes
  <2>2. script[s].op = "list" /\ script[s].stage = "granted"
    BY <1>3 DEF Listed, AnswerTo
  <2>3. list' = script[s].snapshot /\ dash' = Lowered(script[s].ends)
    BY <1>3 DEF Listed
  <2>4. seen' \in History /\ seen'.crossed = seen.crossed /\ seen'.outside = seen.outside
        /\ seen'.told = seen.told /\ seen'.late = seen.late
    BY <1>3 DEF Listed, History
  <2>5. Straight => list' = served'
    BY <2>1, <2>2, <2>3 DEF DeskInv, ListedInv
  <2>6. /\ dash' \in Dash
        /\ dash'.busy # NoOrder => dash'.busy = dash.busy /\ script[s].ends # "busy"
        /\ dash'.sub # NoOrder => dash'.sub = dash.sub /\ script[s].ends # "sub"
        /\ dash'.refunding => dash.refunding /\ script[s].ends # "refunding"
    BY <2>3, DeskLowers
  <2>7. script[s].ends # "field"
    BY <2>2 DEF DeskInv, FieldInv
  <2> QED
    BY <2>1, <2>2, <2>3, <2>4, <2>5, <2>6, <2>7, GoesOnKeeps
<1>4. ASSUME LookedUp(s) PROVE DeskInv'
  <2>1. Goes(s, Idle) /\ UNCHANGED <<served, asked, active, list, dash, phone, seen>>
    BY <1>4 DEF LookedUp, Ends, Goes
  <2>2. script[s].op = "lookup" /\ script[s].ends \in {"none", "field"}
    BY <1>4 DEF LookedUp, AnswerTo, DeskInv, FieldInv
  <2>3. entry' \in Entry /\ (entry'.busy => entry.busy /\ script[s].ends # "field")
    BY <1>4 DEF LookedUp, Entry
  <2>4. list \in [Order -> Status]
    BY DEF DeskTypeOK
  <2> QED
    BY <2>1, <2>2, <2>3, <2>4, GoesOnKeeps
<1>5. ASSUME EntryConfirmed(s) PROVE DeskInv'
  <2> DEFINE what == [Idle EXCEPT !.op = "list"]
  <2>1. /\ what \in ScriptState
        /\ what.op = "list" /\ what.stage = "sent" /\ what.ends = "none"
    BY DEF ScriptState, Idle
  <2>2. Goes(s, what) /\ UNCHANGED <<served, asked, active, list, dash, phone>>
    BY <1>5 DEF EntryConfirmed
  <2>3. /\ script[s].op = "confirm" /\ script[s].stage = "granted"
        /\ script[s].ends \in {"none", "field"}
    BY <1>5 DEF EntryConfirmed, AnswerTo, DeskInv, FieldInv
  <2>4. script[s].code \in Order /\ HandedOver(script[s].code)
    BY <2>3 DEF DeskInv, SaidInv
  <2>5. /\ seen' \in History /\ seen'.crossed = seen.crossed /\ seen'.outside = seen.outside
        /\ seen'.doubt = seen.doubt /\ seen'.told = seen.told \cup {script[s].code}
        /\ seen'.late = seen.late /\ seen'.unlisted = seen.unlisted
    BY <1>5, <2>4 DEF EntryConfirmed, History
  <2>6. /\ entry' \in Entry /\ (entry'.busy => entry.busy /\ script[s].ends # "field")
        /\ list \in [Order -> Status]
    BY <1>5 DEF EntryConfirmed, EmptyField, Entry, Some, DeskTypeOK
  <2> HIDE DEF what
  <2> QED
    BY <2>1, <2>2, <2>3, <2>4, <2>5, <2>6, GoesOnKeeps
<1>6. ASSUME ScriptFailed(s) PROVE DeskInv'
  <2>1. Goes(s, Idle) /\ UNCHANGED <<served, asked, active, list, phone>> /\ script[s].op # "none"
    BY <1>6 DEF ScriptFailed, Ends, Goes
  <2>2. dash' = Lowered(script[s].ends)
    BY <1>6 DEF ScriptFailed
  <2>3. /\ seen' \in History /\ seen'.crossed = seen.crossed /\ seen'.outside = seen.outside
        /\ seen'.told = seen.told /\ seen'.doubt = TRUE /\ seen'.late = seen.late
    BY <1>6 DEF ScriptFailed, History
  <2>4. /\ entry' \in Entry
        /\ entry'.busy => entry.busy /\ script[s].ends # "field"
    <3>1. CASE script[s].ends = "field"
      BY <1>6, <3>1 DEF ScriptFailed, FieldFreed, Entry
    <3>2. CASE script[s].ends # "field"
      BY <1>6, <3>2 DEF ScriptFailed, FieldFreed
    <3> QED
      BY <3>1, <3>2
  <2>5. list \in [Order -> Status]
    BY DEF DeskTypeOK
  <2>6. /\ dash' \in Dash
        /\ dash'.busy # NoOrder => dash'.busy = dash.busy /\ script[s].ends # "busy"
        /\ dash'.sub # NoOrder => dash'.sub = dash.sub /\ script[s].ends # "sub"
        /\ dash'.refunding => dash.refunding /\ script[s].ends # "refunding"
    BY <2>2, DeskLowers
  <2> QED
    BY <2>1, <2>2, <2>3, <2>4, <2>5, <2>6, GoesOnKeeps
<1>7. ASSUME Unsubscribed(s) PROVE DeskInv'
  <2> DEFINE what == [Idle EXCEPT !.op = "refresh", !.ends = script[s].ends]
  <2>1. /\ what \in ScriptState
        /\ what.op = "refresh" /\ what.stage = "sent" /\ what.ends = script[s].ends
    BY DEF ScriptState, Idle
  <2>2. Goes(s, what) /\ UNCHANGED <<served, asked, active, list, dash, entry, phone, seen>>
    BY <1>7 DEF Unsubscribed
  <2>3. /\ script[s].op = "unsubscribe" /\ list \in [Order -> Status]
        /\ script[s].ends # "field"
    BY <1>7 DEF Unsubscribed, AnswerTo, DeskTypeOK, DeskInv, FieldInv
  <2> HIDE DEF what
  <2> QED
    BY <2>1, <2>2, <2>3, GoesOnKeeps
<1>8. ASSUME Refreshed(s) PROVE DeskInv'
  <2>1. Goes(s, Idle) /\ UNCHANGED <<served, asked, active, list, entry, phone, seen>>
    BY <1>8 DEF Refreshed, Ends, Goes
  <2>2. /\ script[s].op = "refresh" /\ list \in [Order -> Status]
        /\ script[s].ends # "field"
    BY <1>8 DEF Refreshed, AnswerTo, DeskTypeOK, DeskInv, FieldInv
  <2> DEFINE down == Lowered(script[s].ends)
  <2>3. /\ down \in Dash
        /\ down.busy # NoOrder => down.busy = dash.busy /\ script[s].ends # "busy"
        /\ down.sub # NoOrder => down.sub = dash.sub /\ script[s].ends # "sub"
        /\ down.refunding => dash.refunding /\ script[s].ends # "refunding"
    BY DeskLowers
  <2>4. dash' = [down EXCEPT !.subs = script[s].subs]
    BY <1>8 DEF Refreshed
  <2> HIDE DEF down
  <2>5. /\ dash' \in Dash /\ dash'.busy = down.busy /\ dash'.sub = down.sub
        /\ dash'.refunding = down.refunding
    BY <2>3, <2>4 DEF Dash
  <2> QED
    BY <2>1, <2>2, <2>3, <2>5, GoesOnKeeps
<1> QED
  BY <1>2, <1>3, <1>4, <1>5, <1>6, <1>7, <1>8 DEF Continues

(* What was carried out is answered, or its answer lost.                    *)
IsAnswer(call, what) ==
  /\ what.stage \in {"granted", "failed"}
  /\ what.op = call.op /\ what.ends = call.ends
  /\ what.stage = "granted" => what.code = call.code /\ what.snapshot = call.snapshot

LEMMA DeskFails ==
  ASSUME DeskTypeOK, NEW s \in Script, Fails(s)
  PROVE  \E what \in ScriptState : Goes(s, what) /\ what.stage = "failed" /\ IsAnswer(script[s], what)
<1> DEFINE what == [Idle EXCEPT !.op = script[s].op, !.stage = "failed", !.ends = script[s].ends]
<1>1. /\ what \in ScriptState /\ what.stage = "failed"
      /\ what.op = script[s].op /\ what.ends = script[s].ends
  BY DeskHandler, DeskIdle DEF ScriptState, Idle
<1>2. Goes(s, what)
  BY DEF Fails
<1> HIDE DEF what
<1> QED
  BY <1>1, <1>2 DEF IsAnswer

LEMMA DeskAnswers ==
  ASSUME DeskTypeOK, NEW s \in Script, NEW call \in ScriptState, CarriedOut(s, call),
         call.op = script[s].op, call.ends = script[s].ends
  PROVE  \E what \in ScriptState : Goes(s, what) /\ IsAnswer(call, what)
<1>1. ASSUME Goes(s, [call EXCEPT !.stage = "granted"])
      PROVE  \E what \in ScriptState : Goes(s, what) /\ IsAnswer(call, what)
  <2> DEFINE what == [call EXCEPT !.stage = "granted"]
  <2>1. /\ what \in ScriptState /\ what.stage = "granted"
        /\ what.op = call.op /\ what.code = call.code
        /\ what.ends = call.ends /\ what.snapshot = call.snapshot
    BY DEF ScriptState
  <2>2. Goes(s, what)
    BY <1>1
  <2> HIDE DEF what
  <2> QED
    BY <2>1, <2>2 DEF IsAnswer
<1>2. ASSUME Fails(s)
      PROVE  \E what \in ScriptState : Goes(s, what) /\ IsAnswer(call, what)
  BY <1>2, DeskFails DEF IsAnswer
<1> QED
  BY <1>1, <1>2 DEF CarriedOut

LEMMA ServesKeeps ==
  ASSUME DeskInv, NEW s \in Script, Serves(s)
  PROVE  DeskInv'
<1>1. DeskTypeOK /\ script[s] \in ScriptState
  BY DeskHandler DEF DeskInv
<1> USE <1>1, DeskParts, DeskHandler
<1>2. /\ served \in [Order -> Status] /\ asked \subseteq Order /\ active \subseteq Order
      /\ seen \in History
  BY DEF DeskTypeOK
<1>3. ASSUME UpdateOrderStatus(s) PROVE DeskInv'
  <2>1. PICK what \in ScriptState : Goes(s, what) /\ IsAnswer(script[s], what)
    BY <1>3, DeskAnswers DEF UpdateOrderStatus
  <2>2. script[s].op = "status" /\ UNCHANGED <<asked, active, list, dash, entry, phone, seen>>
    BY <1>3 DEF UpdateOrderStatus, Sent
  <2>3. served' \in [Order -> Status] /\ HandedKept
    BY <1>2, <1>3 DEF UpdateOrderStatus, IsAllowedTransition, HandedKept, HandedOver
  <2> QED
    BY <1>2, <2>1, <2>2, <2>3, AnswerKeeps DEF IsAnswer
<1>4. ASSUME ConfirmPickup(s) PROVE DeskInv'
  <2>1. PICK what \in ScriptState : Goes(s, what) /\ IsAnswer(script[s], what)
    BY <1>4, DeskAnswers DEF ConfirmPickup
  <2>2. script[s].op = "confirm" /\ UNCHANGED <<asked, active, list, dash, entry, phone, seen>>
    BY <1>4 DEF ConfirmPickup, Sent
  <2>3. script[s].order \in Order /\ script[s].code = script[s].order
    BY <1>4, <2>2 DEF ConfirmPickup, Sent, PickupAllowed, DeskInv, SaidInv
  <2>4. served' = [served EXCEPT ![script[s].order] = "picked_up"] /\ seen' = seen
    BY <1>4, <2>2 DEF ConfirmPickup
  <2>5. served' \in [Order -> Status] /\ HandedKept
    BY <1>2, <2>4 DEF HandedKept, HandedOver, Status
  <2>6. HandedOver(what.code)' \/ what.stage # "granted"
    BY <1>2, <2>1, <2>3, <2>4 DEF HandedOver, IsAnswer
  <2> QED
    BY <1>2, <2>1, <2>2, <2>3, <2>4, <2>5, <2>6, AnswerKeeps DEF IsAnswer
<1>5. ASSUME LookupByCode(s) PROVE DeskInv'
  <2> DEFINE found == [script[s] EXCEPT !.order = script[s].code]
  <2>1. /\ found \in ScriptState /\ found.op = script[s].op /\ found.ends = script[s].ends
    BY DEF ScriptState
  <2>2. /\ script[s].op = "lookup" /\ CarriedOut(s, found)
        /\ UNCHANGED <<served, asked, active, list, dash, entry, phone, seen>>
    BY <1>5 DEF LookupByCode, Sent
  <2> HIDE DEF found
  <2>3. PICK what \in ScriptState : Goes(s, what) /\ IsAnswer(found, what)
    BY <2>1, <2>2, DeskAnswers
  <2>4. HandedKept
    BY <2>2 DEF HandedKept, HandedOver
  <2> QED
    BY <1>2, <2>1, <2>2, <2>3, <2>4, AnswerKeeps DEF IsAnswer
<1>6. ASSUME ListOrders(s) PROVE DeskInv'
  <2> DEFINE shown == [script[s] EXCEPT !.snapshot = served]
  <2>1. /\ shown \in ScriptState /\ shown.op = script[s].op /\ shown.ends = script[s].ends
        /\ shown.snapshot = served
    BY <1>2 DEF ScriptState
  <2>2. /\ script[s].op = "list" /\ CarriedOut(s, shown)
        /\ UNCHANGED <<served, asked, active, list, dash, entry, phone, seen>>
    BY <1>6 DEF ListOrders, Sent
  <2> HIDE DEF shown
  <2>3. PICK what \in ScriptState : Goes(s, what) /\ IsAnswer(shown, what)
    BY <2>1, <2>2, DeskAnswers
  <2>4. HandedKept
    BY <2>2 DEF HandedKept, HandedOver
  <2> QED
    BY <1>2, <2>1, <2>2, <2>3, <2>4, AnswerKeeps DEF IsAnswer
<1>7. ASSUME RefundOrder(s) PROVE DeskInv'
  <2>1. PICK what \in ScriptState : Goes(s, what) /\ IsAnswer(script[s], what)
    BY <1>7, DeskAnswers DEF RefundOrder
  <2>2. script[s].op = "refund" /\ UNCHANGED <<served, active, list, dash, entry, phone, seen>>
    BY <1>7 DEF RefundOrder, Sent
  <2>3. asked' \subseteq Order /\ HandedKept
    BY <1>2, <1>7, <2>2 DEF RefundOrder, Sent, DeskInv, SaidInv, HandedKept, HandedOver
  <2> QED
    BY <1>2, <2>1, <2>2, <2>3, AnswerKeeps DEF IsAnswer
<1>8. ASSUME NotServed(s) PROVE DeskInv'
  <2>1. PICK what \in ScriptState :
          Goes(s, what) /\ what.stage = "failed" /\ IsAnswer(script[s], what)
    BY <1>8, DeskFails DEF NotServed
  <2>2. /\ script[s].op # "none"
        /\ UNCHANGED <<served, asked, active, list, dash, entry, phone, seen>>
    BY <1>8 DEF NotServed
  <2>3. HandedKept
    BY <2>2 DEF HandedKept, HandedOver
  <2> QED
    BY <1>2, <2>1, <2>2, <2>3, AnswerKeeps DEF IsAnswer
<1>9. ASSUME CancelSubscriptionRead(s) PROVE DeskInv'
  <2>1. /\ script[s].op = "unsubscribe" /\ script[s].order \in Order
        /\ UNCHANGED <<served, asked, list, dash, entry, phone, seen>>
    BY <1>2, <1>9 DEF CancelSubscriptionRead, Sent
  <2>2. HandedKept
    BY <2>1 DEF HandedKept, HandedOver
  <2>3. CASE served[script[s].order] \in Open
    <3> DEFINE what == [script[s] EXCEPT !.stage = "listed"]
    <3>1. /\ what \in ScriptState /\ what.stage = "listed" /\ what.op = script[s].op
          /\ what.order = script[s].order /\ what.ends = script[s].ends
      BY DEF ScriptState
    <3>2. Goes(s, what) /\ UNCHANGED active
      BY <1>9, <2>3 DEF CancelSubscriptionRead
    <3> HIDE DEF what
    <3> QED
      BY <1>2, <2>1, <2>2, <3>1, <3>2, AnswerKeeps
  <2>4. CASE served[script[s].order] \notin Open
    <3>1. CarriedOut(s, script[s]) /\ active' \subseteq Order
      BY <1>2, <1>9, <2>4 DEF CancelSubscriptionRead
    <3>2. PICK what \in ScriptState : Goes(s, what) /\ IsAnswer(script[s], what)
      BY <3>1, DeskAnswers
    <3> QED
      BY <1>2, <2>1, <2>2, <3>1, <3>2, AnswerKeeps DEF IsAnswer
  <2> QED
    BY <2>3, <2>4
<1>10. ASSUME CancelSubscriptionApply(s) PROVE DeskInv'
  <2>1. PICK what \in ScriptState : Goes(s, what) /\ IsAnswer(script[s], what)
    BY <1>10, DeskAnswers DEF CancelSubscriptionApply
  <2>2. /\ script[s].op = "unsubscribe" /\ script[s].order \in Order
        /\ UNCHANGED <<asked, list, dash, entry, phone>>
    BY <1>10 DEF CancelSubscriptionApply, DeskInv, FieldInv
  <2>3. /\ served' = [served EXCEPT ![script[s].order] = "canceled"]
        /\ active' \subseteq Order
    BY <1>2, <1>10 DEF CancelSubscriptionApply
  <2> DEFINE over == IF served[script[s].order] \in Open
                     THEN seen.late ELSE seen.late \cup {script[s].order}
  <2>4. seen' = [seen EXCEPT !.unlisted = seen.unlisted \cup {script[s].order}, !.late = over]
    BY <1>10 DEF CancelSubscriptionApply
  <2>5. /\ seen.late \subseteq over /\ over \subseteq Order
        /\ served[script[s].order] \notin Open => script[s].order \in over
    BY <2>2
  <2> HIDE DEF over
  <2>6. /\ seen' \in History /\ seen'.crossed = seen.crossed /\ seen'.outside = seen.outside
        /\ seen'.doubt = seen.doubt /\ seen'.told = seen.told
        /\ seen'.unlisted = seen.unlisted \cup {script[s].order} /\ seen'.late = over
    BY <1>2, <2>2, <2>4, <2>5 DEF History
  <2>7. served' \in [Order -> Status]
    BY <1>2, <2>3 DEF Status
  <2>8. HandedKept
    BY <1>2, <2>2, <2>3, <2>5, <2>6 DEF HandedKept, HandedOver, Open
  <2>9. \A o \in Order : served'[o] = served[o] \/ (o \in seen'.unlisted /\ served'[o] = "canceled")
    BY <1>2, <2>2, <2>3, <2>6
  <2> QED
    BY <1>2, <2>1, <2>2, <2>3, <2>6, <2>7, <2>8, <2>9, AnswerKeeps DEF IsAnswer
<1>11. ASSUME ListSubscriptions(s) PROVE DeskInv'
  <2> DEFINE shown == [script[s] EXCEPT !.subs = active]
  <2>1. shown \in ScriptState /\ shown.op = script[s].op /\ shown.ends = script[s].ends
    BY <1>2 DEF ScriptState
  <2>2. /\ script[s].op = "refresh" /\ CarriedOut(s, shown)
        /\ UNCHANGED <<served, asked, active, list, dash, entry, phone, seen>>
    BY <1>11 DEF ListSubscriptions, Sent
  <2> HIDE DEF shown
  <2>3. PICK what \in ScriptState : Goes(s, what) /\ IsAnswer(shown, what)
    BY <2>1, <2>2, DeskAnswers
  <2>4. HandedKept
    BY <2>2 DEF HandedKept, HandedOver
  <2> QED
    BY <1>2, <2>1, <2>2, <2>3, <2>4, AnswerKeeps DEF IsAnswer
<1> QED
  BY <1>3, <1>4, <1>5, <1>6, <1>7, <1>8, <1>9, <1>10, <1>11 DEF Serves

LEMMA OthersKeep ==
  ASSUME DeskInv,
         \/ AskStatus \/ DismissDialog \/ OpenRefund \/ CloseRefund \/ TypeCode
         \/ Scan \/ PhoneConfirm \/ PhoneAnswered \/ PhoneServed
         \/ TurnTab \/ AskUnsubscribe \/ RefundWebhook \/ BuyerCancels
  PROVE  DeskInv'
<1>1. /\ DeskTypeOK /\ dash \in Dash /\ entry \in Entry /\ phone \in Phone /\ seen \in History
      /\ served \in [Order -> Status] /\ active \subseteq Order /\ SaidInv
  BY DEF DeskInv, DeskTypeOK
<1> USE <1>1, DeskParts, DeskAssumption
<1>2. ASSUME UNCHANGED served, seen'.late = seen.late PROVE HandedKept
  BY <1>2 DEF HandedKept, HandedOver
<1>3. ASSUME UNCHANGED phone, HandedKept
      PROVE  /\ phone' \in Phone
             /\ phone'.at # "closed" => phone'.order \in Order
             /\ phone'.at = "confirming" /\ phone'.stage = "granted"
                => HandedOver(phone.order)'
             /\ phone'.at = "success" => HandedOver(phone.order)'
  BY <1>3 DEF SaidInv, SaidSo, HandedKept
<1>4. ASSUME NEW new \in Dash, dash' = new,
             new.busy = dash.busy, new.sub = dash.sub, new.refunding = dash.refunding,
             UNCHANGED <<served, asked, active, list, entry, phone, script, seen>>
      PROVE  DeskInv'
  BY <1>2, <1>3, <1>4, ElsewhereKeeps
<1>5. ASSUME AskStatus PROVE DeskInv'
  <2>1. PICK o \in Order, to \in Status : dash' = [dash EXCEPT !.dialog = [order |-> o, to |-> to]]
    BY <1>5 DEF AskStatus, Offered, Status
  <2>4. to \in Asks
    BY DEF Asks
  <2> DEFINE new == [dash EXCEPT !.dialog = [order |-> o, to |-> to]]
  <2>2. /\ new \in Dash /\ new.busy = dash.busy /\ new.sub = dash.sub
        /\ new.refunding = dash.refunding
    BY <2>4 DEF Dash, Some
  <2>3. dash' = new /\ UNCHANGED <<served, asked, active, list, entry, phone, script, seen>>
    BY <1>5, <2>1 DEF AskStatus
  <2> HIDE DEF new
  <2> QED
    BY <1>4, <2>2, <2>3
<1>6. ASSUME DismissDialog PROVE DeskInv'
  <2> DEFINE new == [dash EXCEPT !.dialog = NoDialog]
  <2>1. NoDialog \in [order : Some, to : Asks]
    BY DEF NoDialog, Some, Asks, Status
  <2>2. /\ new \in Dash /\ new.busy = dash.busy /\ new.sub = dash.sub
        /\ new.refunding = dash.refunding
    BY <2>1 DEF Dash
  <2>3. dash' = new /\ UNCHANGED <<served, asked, active, list, entry, phone, script, seen>>
    BY <1>6 DEF DismissDialog
  <2> HIDE DEF new
  <2> QED
    BY <1>4, <2>2, <2>3
<1>7. ASSUME OpenRefund \/ CloseRefund PROVE DeskInv'
  <2>1. PICK o \in Some : dash' = [dash EXCEPT !.refund = o]
    BY <1>7 DEF OpenRefund, CloseRefund, Some
  <2> DEFINE new == [dash EXCEPT !.refund = o]
  <2>2. /\ new \in Dash /\ new.busy = dash.busy /\ new.sub = dash.sub
        /\ new.refunding = dash.refunding
    BY DEF Dash
  <2>3. dash' = new /\ UNCHANGED <<served, asked, active, list, entry, phone, script, seen>>
    BY <1>7, <2>1 DEF OpenRefund, CloseRefund
  <2> HIDE DEF new
  <2> QED
    BY <1>4, <2>2, <2>3
<1>8. ASSUME TypeCode PROVE DeskInv'
  <2>1. entry' \in Entry /\ ~entry'.busy
    BY <1>8 DEF TypeCode, Entry, Some
  <2>2. UNCHANGED <<served, asked, active, list, dash, phone, script, seen>>
    BY <1>8 DEF TypeCode
  <2> QED
    BY <1>2, <1>3, <2>1, <2>2, ElsewhereKeeps
<1>9. ASSUME Scan PROVE DeskInv'
  <2>1. seen.clicks + 1 \in 0 .. Clicks
    BY <1>9 DEF Scan
  <2>2. /\ seen' \in History /\ seen'.crossed = seen.crossed /\ seen'.told = seen.told
        /\ seen'.doubt = seen.doubt /\ seen'.outside = seen.outside
        /\ seen'.late = seen.late /\ seen'.unlisted = seen.unlisted
    BY <1>9, <2>1 DEF Scan, History
  <2>3. PICK o \in Order :
          phone' = [at |-> "loading", stage |-> "sent", order |-> o, shown |-> "placed"]
    BY <1>9 DEF Scan
  <2>4. phone' \in Phone /\ phone'.order = o /\ phone'.at = "loading"
    BY <2>3 DEF Phone, Some, Status
  <2>5. UNCHANGED <<served, asked, active, list, dash, entry, script>>
    BY <1>9 DEF Scan
  <2> QED
    BY <1>2, <2>2, <2>4, <2>5, ElsewhereKeeps
<1>10. ASSUME PhoneConfirm PROVE DeskInv'
  <2>1. /\ phone' \in Phone /\ phone'.order = phone.order
        /\ phone'.at = "confirming" /\ phone'.stage = "sent" /\ phone.at = "preview"
    BY <1>10 DEF PhoneConfirm, Phone
  <2>2. UNCHANGED <<served, asked, active, list, dash, entry, script, seen>>
    BY <1>10 DEF PhoneConfirm
  <2> QED
    BY <1>2, <2>1, <2>2, ElsewhereKeeps DEF SaidInv
<1>11. ASSUME PhoneAnswered PROVE DeskInv'
  <2> DEFINE next == CASE phone.stage = "failed" -> "error"
                       [] phone.stage = "granted" /\ phone.at = "loading" -> "preview"
                       [] OTHER -> "success"
  <2>1. /\ next \in {"preview", "success", "error"}
        /\ next = "success" => phone.at = "confirming" /\ phone.stage = "granted"
    BY <1>11 DEF PhoneAnswered
  <2>2. phone' = [phone EXCEPT !.at = next] /\ phone.at \in {"loading", "confirming"}
        /\ UNCHANGED <<served, asked, active, list, dash, entry, script, seen>>
    BY <1>11 DEF PhoneAnswered
  <2> HIDE DEF next
  <2>3. /\ phone' \in Phone /\ phone'.order = phone.order /\ phone'.at = next
        /\ phone'.stage = phone.stage
    BY <2>1, <2>2 DEF Phone
  <2>4. /\ phone'.at # "closed" => phone'.order \in Order
        /\ phone'.at = "success" => HandedOver(phone.order)'
    BY <2>1, <2>2, <2>3 DEF SaidInv, HandedOver
  <2> QED
    BY <1>2, <2>1, <2>2, <2>3, <2>4, ElsewhereKeeps
<1>12. ASSUME PhoneServed PROVE DeskInv'
  <2>1. ASSUME PhonePreview PROVE DeskInv'
    <3>1. served[phone.order] \in Status /\ phone.order \in Order
      BY <2>1 DEF PhonePreview, SaidInv
    <3>2. phone' \in Phone /\ phone'.order = phone.order /\ phone'.at = "loading"
      BY <2>1, <3>1 DEF PhonePreview, Phone
    <3>3. UNCHANGED <<served, asked, active, list, dash, entry, script, seen>>
      BY <2>1 DEF PhonePreview
    <3> QED
      BY <1>2, <3>1, <3>2, <3>3, ElsewhereKeeps
  <2>2. ASSUME PhonePickup PROVE DeskInv'
    <3>1. phone.order \in Order /\ phone.at = "confirming"
      BY <2>2 DEF PhonePickup, SaidInv
    <3>2. phone' \in Phone /\ phone'.order = phone.order /\ phone'.at = "confirming"
      BY <2>2, <3>1 DEF PhonePickup, Phone
    <3>4. /\ seen' \in History /\ seen'.crossed = seen.crossed /\ seen'.told = seen.told
          /\ seen'.doubt = seen.doubt /\ seen'.outside
          /\ seen'.late = seen.late /\ seen'.unlisted = seen.unlisted
      BY <2>2 DEF PhonePickup, Outside, History
    <3>3. /\ served' \in [Order -> Status] /\ HandedKept /\ HandedOver(phone.order)'
          /\ UNCHANGED <<asked, active, list, dash, entry, script>>
      BY <2>2, <3>1, <3>2, <3>4 DEF PhonePickup, Outside, HandedKept, HandedOver, Status
    <3> QED
      BY <3>1, <3>2, <3>3, <3>4, ElsewhereKeeps
  <2>3. ASSUME PhoneRefused PROVE DeskInv'
    <3>1. phone.order \in Order /\ phone.at = "confirming"
      BY <2>3 DEF PhoneRefused, SaidInv
    <3>2. /\ phone' \in Phone /\ phone'.order = phone.order /\ phone'.at = "confirming"
          /\ phone'.stage = "failed"
      BY <2>3, <3>1 DEF PhoneRefused, Phone
    <3>3. UNCHANGED <<served, asked, active, list, dash, entry, script, seen>>
      BY <2>3 DEF PhoneRefused
    <3> QED
      BY <1>2, <3>1, <3>2, <3>3, ElsewhereKeeps
  <2> QED
    BY <1>12, <2>1, <2>2, <2>3 DEF PhoneServed
<1>13. ASSUME RefundWebhook \/ BuyerCancels PROVE DeskInv'
  <2>1. /\ seen' \in History /\ seen'.crossed = seen.crossed /\ seen'.told = seen.told
        /\ seen'.doubt = seen.doubt /\ seen'.outside
        /\ seen'.late = seen.late /\ seen'.unlisted = seen.unlisted
    BY <1>13 DEF RefundWebhook, BuyerCancels, Outside, History
  <2>2. /\ served' \in [Order -> Status] /\ HandedKept /\ active' \subseteq Order
        /\ UNCHANGED <<asked, list, dash, entry, phone, script>>
    BY <1>13, <2>1 DEF RefundWebhook, BuyerCancels, Outside, HandedKept, HandedOver, Status, Open
  <2> QED
    BY <1>3, <2>1, <2>2, ElsewhereKeeps
<1>14. ASSUME TurnTab PROVE DeskInv'
  BY <1>14, TurnKeeps DEF TurnTab
<1>15. ASSUME AskUnsubscribe PROVE DeskInv'
  <2>1. PICK o \in Order : dash' = [dash EXCEPT !.dialog = [order |-> o, to |-> "unsubscribed"]]
    BY <1>15 DEF AskUnsubscribe
  <2>2. /\ dash' \in Dash /\ dash'.busy = dash.busy /\ dash'.sub = dash.sub
        /\ dash'.refunding = dash.refunding
    BY <2>1 DEF Dash, Some, Asks
  <2> QED
    BY <1>15, <2>2, TurnKeeps DEF AskUnsubscribe
<1> QED
  BY <1>5, <1>6, <1>7, <1>8, <1>9, <1>10, <1>11, <1>12, <1>13, <1>14, <1>15

LEMMA DeskStays ==
  ASSUME DeskInv, UNCHANGED deskVars PROVE DeskInv'
BY DEF DeskInv, deskVars, DeskTypeOK, SaidInv, SaidSo, HandedOver, AloneInv, FieldInv,
       ListedInv, ListInv, Shows, Straight, BusyIsWaiting, Running

LEMMA DeskKeeps == DeskSpec => []DeskInv
<1>1. DeskInit => DeskInv
  BY DeskStarts
<1>2. DeskInv /\ [DeskNext]_deskVars => DeskInv'
  BY ClicksKeep, ContinuesKeep, ServesKeeps, OthersKeep, DeskStays DEF DeskNext
<1> QED
  BY <1>1, <1>2, PTL DEF DeskSpec

(* When the pickup-code field or the phone has said "Pickup confirmed!",    *)
(* the order of the code is picked up: what a late lookup shows does not    *)
(* change which order is handed over, and nothing takes it back but a       *)
(* cancel of the order's subscription that had listed it while it was open. *)
THEOREM SaysWhatIs == DeskSpec => []SaidSo
<1>1. DeskInv => SaidSo
  BY DEF DeskInv, SaidInv
<1> QED
  BY <1>1, DeskKeeps, PTL

(* A dashboard at rest shows the orders as they are, but for those that it  *)
(* closed with their subscription since it loaded the list, unless its      *)
(* handlers crossed, an order changed elsewhere, or a call failed since.    *)
THEOREM RestIsCurrent == DeskSpec => []ListCurrent
<1>1. DeskInv => ListCurrent
  BY DEF DeskInv, ListInv, Shows, ListCurrent, Straight, Running
<1> QED
  BY <1>1, DeskKeeps, PTL

(* What is disabled will be enabled again: the handler that does it is      *)
(* under way.                                                               *)
THEOREM NothingStuck == DeskSpec => []BusyIsWaiting
<1>1. DeskInv => BusyIsWaiting
  BY DEF DeskInv
<1> QED
  BY <1>1, DeskKeeps, PTL
-----------------------------------------------------------------------------
(* The setup.                                                               *)

(* A page that loads has filled no form, and what it saw is still so.       *)
FactsInv ==
  /\ wizard.saw.location => store.locations > 0
  /\ wizard.saw.plan => store.plans > 0
  /\ wizard.saw.live => store.live
  /\ wizard.load \in {"sent", "failed"} => ~wizard.existing /\ ~wizard.ready

(* The store has what the page p is for; a page that has seen so stays.     *)
Has(p) ==
  CASE p = "dashboard" -> store.live
    [] p = "box" -> store.locations > 0
    [] p = "review" -> store.locations > 0 /\ store.plans > 0
    [] OTHER -> TRUE

Stays(p, saw) ==
  CASE p = "dashboard" -> saw.live
    [] p = "box" -> saw.location
    [] p = "review" -> saw.location /\ saw.plan
    [] OTHER -> TRUE

(* A page that the router has gone to has what it is for, and so goes no    *)
(* further, but for the setup page, which is gone to from a press only.     *)
HopsInv ==
  /\ trail.hops <= (IF wizard.at = "setup" THEN 1 ELSE 2)
  /\ trail.hops > 0 =>
       Has(wizard.at) /\ (wizard.load = "granted" => Stays(wizard.at, wizard.saw))
  /\ wizard.going # "stay" => Has(wizard.going) \/ (wizard.going = "setup" /\ trail.hops = 0)
  /\ wizard.going # "stay" => trail.hops <= (IF wizard.going = "setup" THEN 0 ELSE 1)

(* The one write of the page that is shown keeps its button disabled, and   *)
(* no other is under way that is not excused.                               *)
OwnInv ==
  /\ \A s \in Saver : saver[s].own =>
       /\ saver[s].at # "none" /\ wizard.at = saver[s].at
       /\ wizard.saving /\ wizard.load = "done"
  /\ \A s, t \in Saver : saver[s].own /\ saver[t].own => s = t
  /\ ~trail.excused => \A s \in Saver : saver[s].at # "none" => saver[s].own

(* What was saved is there.                                                 *)
WriteInv ==
  /\ wizard.at = "location" /\ wizard.existing => store.locations > 0
  /\ \A s \in Saver : saver[s].at = "location" /\ (~saver[s].creates \/ saver[s].stage = "granted")
       => store.locations > 0
  /\ \A s \in Saver : saver[s].at = "review" /\ saver[s].stage = "granted" => store.live
  /\ LaunchedIsLive

(* A form that would make a plan is that of a store without one.            *)
Made(s) == saver[s].at = "box" /\ saver[s].creates /\ saver[s].stage = "granted"

BoxInv ==
  ~trail.excused =>
    /\ store.plans <= 1
    /\ wizard.at = "box" /\ wizard.load = "granted" /\ ~wizard.saw.plan => store.plans = 0
    /\ wizard.at = "box" /\ wizard.ready /\ ~wizard.existing =>
         store.plans = 0 \/ \E s \in Saver : Made(s)
    /\ \A s \in Saver : saver[s].at = "box" /\ saver[s].creates /\ saver[s].stage # "granted"
         => store.plans = 0

(* Rows are made by presses, one by each.                                   *)
Pending == {s \in Saver : saver[s].creates /\ saver[s].stage = "sent"}

CountInv ==
  /\ IsFiniteSet(Pending)
  /\ store.locations + store.plans + Cardinality(Pending) <= trail.presses

SetupInv == SetupTypeOK /\ FactsInv /\ HopsInv /\ OwnInv /\ WriteInv /\ BoxInv /\ CountInv

Trail == [presses : 0 .. SavePresses, hops : Nat, excused : BOOLEAN]

LEMMA SetupParts ==
  ASSUME SetupTypeOK
  PROVE  /\ wizard \in Wizard /\ store \in StoreRow /\ trail \in Trail
         /\ saver \in [Saver -> SaverState]
         /\ wizard.at \in WizardPage /\ wizard.load \in {"sent", "granted", "failed", "done"}
         /\ wizard.saw \in Facts /\ wizard.existing \in BOOLEAN /\ wizard.ready \in BOOLEAN
         /\ wizard.saving \in BOOLEAN /\ wizard.launched \in BOOLEAN
         /\ wizard.going \in WizardPage \cup {"stay"}
         /\ wizard.saw.location \in BOOLEAN /\ wizard.saw.plan \in BOOLEAN
         /\ wizard.saw.live \in BOOLEAN /\ wizard.saw.connect \in ConnectStatus
         /\ store.locations \in Nat /\ store.plans \in Nat /\ store.live \in BOOLEAN
         /\ store.connect \in ConnectStatus
         /\ store.locations <= SavePresses /\ store.plans <= SavePresses
         /\ trail.presses \in Nat /\ trail.presses <= SavePresses
         /\ trail.hops \in Nat /\ trail.excused \in BOOLEAN
BY SetupAssumption DEF SetupTypeOK, Wizard, StoreRow, Trail, Facts

LEMMA SetupSaver ==
  ASSUME SetupTypeOK, NEW s \in Saver
  PROVE  /\ saver[s] \in SaverState
         /\ saver[s].at \in {"none"} \cup Step
         /\ saver[s].creates \in BOOLEAN /\ saver[s].own \in BOOLEAN
         /\ saver[s].stage \in {"sent", "granted", "failed"}
BY DEF SetupTypeOK, SaverState

LEMMA SetupIdle ==
  /\ NoSaver \in SaverState
  /\ NoSaver.at = "none" /\ ~NoSaver.creates /\ ~NoSaver.own /\ NoSaver.stage = "sent"
BY DEF NoSaver, SaverState

LEMMA SetupMounted ==
  ASSUME NEW p \in WizardPage
  PROVE  /\ Mounted(p) \in Wizard
         /\ Mounted(p).at = p /\ Mounted(p).load = "sent" /\ Mounted(p).going = "stay"
         /\ ~Mounted(p).existing /\ ~Mounted(p).ready /\ ~Mounted(p).saving
         /\ ~Mounted(p).launched
         /\ ~Mounted(p).saw.location /\ ~Mounted(p).saw.plan /\ ~Mounted(p).saw.live
BY DEF Mounted, Wizard, NoFacts, Facts, ConnectStatus, WizardPage

LEMMA PendingCount == CountInv => Cardinality(Pending) \in Nat
BY FS_CardinalityType DEF CountInv

LEMMA SetupStarts == SetupInit => SetupInv
<1> SUFFICES ASSUME SetupInit PROVE SetupInv
  OBVIOUS
<1>1. /\ \A s \in Saver : saver[s] = NoSaver
      /\ wizard = Mounted("setup") /\ "setup" \in WizardPage
      /\ store.locations = 0 /\ store.plans = 0 /\ trail.hops = 0 /\ trail.presses = 0
  BY DEF SetupInit, WizardPage
<1>2. SetupTypeOK
  <2>1. store \in StoreRow /\ trail \in [presses : 0 .. SavePresses, hops : Nat, excused : BOOLEAN]
    BY SetupAssumption DEF SetupInit, StoreRow, ConnectStatus
  <2>2. saver \in [Saver -> SaverState]
    BY SetupIdle DEF SetupInit
  <2> QED
    BY <1>1, <2>1, <2>2, SetupMounted DEF SetupTypeOK
<1>3. FactsInv /\ OwnInv /\ WriteInv
  BY <1>1, SetupIdle, SetupMounted DEF FactsInv, OwnInv, WriteInv, LaunchedIsLive
<1>4. HopsInv
  BY <1>1, SetupMounted DEF HopsInv
<1>5. BoxInv
  BY <1>1, SetupIdle, SetupMounted DEF BoxInv
<1>6. CountInv
  <2>1. Pending = {}
    BY <1>1, SetupIdle DEF Pending
  <2>2. IsFiniteSet(Pending) /\ Cardinality(Pending) = 0
    BY <2>1, FS_EmptySet
  <2> QED
    BY <1>1, <2>2 DEF CountInv
<1> QED
  BY <1>2, <1>3, <1>4, <1>5, <1>6 DEF SetupInv

(* A page is mounted anew.                                                  *)
LEMMA MountKeeps ==
  ASSUME SetupInv, NEW p \in WizardPage, NEW hops \in Nat,
         wizard' = Mounted(p), saver' = Orphaned,
         trail' = [trail EXCEPT !.hops = hops, !.excused = Leaving], UNCHANGED store,
         hops <= (IF p = "setup" THEN 1 ELSE 2), hops > 0 => Has(p)
  PROVE  SetupInv'
<1>1. SetupTypeOK
  BY DEF SetupInv
<1> USE <1>1, SetupParts, SetupMounted, SetupSaver
<1>2. /\ trail' \in Trail /\ trail'.hops = hops /\ trail'.presses = trail.presses
      /\ trail'.excused = (trail.excused \/ wizard.saving)
  BY DEF Trail, Leaving
<1>3. /\ saver' \in [Saver -> SaverState]
      /\ \A s \in Saver : /\ saver'[s].at = saver[s].at /\ saver'[s].creates = saver[s].creates
                          /\ saver'[s].stage = saver[s].stage /\ ~saver'[s].own
  <2>1. \A s \in Saver : saver'[s] = [saver[s] EXCEPT !.own = FALSE]
    BY DEF Orphaned
  <2>2. ASSUME NEW s \in Saver PROVE [saver[s] EXCEPT !.own = FALSE] \in SaverState
    <3>1. saver[s] \in SaverState
      OBVIOUS
    <3> QED
      BY <3>1 DEF SaverState
  <2>3. saver' \in [Saver -> SaverState]
    BY <2>2 DEF Orphaned
  <2>4. ASSUME NEW s \in Saver
        PROVE  /\ saver'[s].at = saver[s].at /\ saver'[s].creates = saver[s].creates
               /\ saver'[s].stage = saver[s].stage /\ ~saver'[s].own
    BY <2>1 DEF SaverState
  <2> QED
    BY <2>3, <2>4
<1>4. ~trail'.excused => \A s \in Saver : saver[s].at = "none"
  BY <1>2 DEF SetupInv, OwnInv
<1>5. SetupTypeOK'
  BY <1>2, <1>3 DEF SetupTypeOK, Trail
<1>6. FactsInv'
  BY DEF FactsInv
<1>7. HopsInv'
  BY <1>2 DEF HopsInv, Has
<1>8. OwnInv'
  BY <1>3, <1>4 DEF OwnInv
<1>9. WriteInv'
  BY <1>3 DEF SetupInv, WriteInv, LaunchedIsLive
<1>10. BoxInv'
  BY <1>2, <1>3, <1>4 DEF SetupInv, BoxInv
<1>11. CountInv'
  <2>1. Pending' = Pending
    BY <1>3 DEF Pending
  <2> QED
    BY <1>2, <2>1 DEF SetupInv, CountInv
<1> QED
  BY <1>5, <1>6, <1>7, <1>8, <1>9, <1>10, <1>11 DEF SetupInv

LEMMA MountsKeep ==
  ASSUME SetupInv, OpenWizard \/ Arrive PROVE SetupInv'
<1>1. SetupTypeOK /\ HopsInv
  BY DEF SetupInv
<1> USE <1>1, SetupParts
<1>2. ASSUME OpenWizard PROVE SetupInv'
  <2>1. PICK p \in WizardPage : wizard' = Mounted(p)
    BY <1>2 DEF OpenWizard
  <2>2. 0 \in Nat /\ 0 <= (IF p = "setup" THEN 1 ELSE 2) /\ ~(0 > 0)
    OBVIOUS
  <2> QED
    BY <1>2, <2>1, <2>2, MountKeeps DEF OpenWizard
<1>3. ASSUME Arrive PROVE SetupInv'
  <2>1. wizard.going \in WizardPage /\ trail.hops + 1 \in Nat
    BY <1>3 DEF Arrive
  <2>2. /\ trail.hops + 1 <= (IF wizard.going = "setup" THEN 1 ELSE 2)
        /\ Has(wizard.going)
    BY <1>3 DEF Arrive, HopsInv, Has
  <2>3. trail' = [trail EXCEPT !.hops = trail.hops + 1, !.excused = Leaving]
    BY <1>3 DEF Arrive, Trail
  <2> QED
    BY <1>3, <2>1, <2>2, <2>3, MountKeeps DEF Arrive
<1> QED
  BY <1>2, <1>3

(* A page loads.                                                            *)
LEMMA LoadKeeps ==
  ASSUME SetupInv, UNCHANGED <<store, saver, trail>>, wizard' \in Wizard,
         wizard.load # "done", FactsInv', HopsInv',
         wizard'.at = wizard.at, wizard'.launched = wizard.launched,
         wizard.at = "location" /\ wizard'.existing => store.locations > 0,
         wizard.at = "box" /\ ~trail.excused =>
           /\ wizard'.load = "granted" /\ ~wizard'.saw.plan => store.plans = 0
           /\ wizard'.ready /\ ~wizard'.existing => store.plans = 0
  PROVE  SetupInv'
<1> USE DEF SetupInv
<1>1. SetupTypeOK'
  BY DEF SetupTypeOK
<1>2. OwnInv'
  BY DEF OwnInv
<1>3. WriteInv'
  BY DEF WriteInv, LaunchedIsLive
<1>4. BoxInv'
  BY DEF BoxInv, Made
<1>5. CountInv'
  BY DEF CountInv, Pending
<1> QED
  BY <1>1, <1>2, <1>3, <1>4, <1>5

(* Where the setup page and the steps send the seller.                      *)
LEMMA RedirectsFrom ==
  ASSUME NEW p \in WizardPage, NEW saw \in Facts
  PROVE  /\ p = "setup" =>
              \/ Redirect(p, saw) \in {"location", "payouts"}
              \/ Redirect(p, saw) = "box" /\ saw.location
              \/ Redirect(p, saw) = "dashboard" /\ saw.live
              \/ Redirect(p, saw) = "review" /\ saw.location /\ saw.plan
         /\ p \in {"box", "review"} =>
              \/ Redirect(p, saw) \in {"stay", "location"}
              \/ Redirect(p, saw) = "box" /\ saw.location
BY DEF Redirect, HasLive

LEMMA LoadsKeep ==
  ASSUME SetupInv, LoadServed \/ LoadLost \/ LoadAnswered \/ LoadFailed
  PROVE  SetupInv'
<1>1. /\ SetupTypeOK /\ FactsInv /\ HopsInv /\ WriteInv
  BY DEF SetupInv
<1> USE <1>1, SetupParts
<1>2. ASSUME LoadServed PROVE SetupInv'
  <2>1. PICK connect \in ConnectStatus :
          wizard' = [wizard EXCEPT !.load = "granted",
            !.saw = [location |-> store.locations > 0, plan |-> store.plans > 0,
                     live |-> store.live, connect |-> connect]]
    BY <1>2 DEF LoadServed, ConnectStatus
  <2> DEFINE saw == [location |-> store.locations > 0, plan |-> store.plans > 0,
                     live |-> store.live, connect |-> connect]
  <2>2. saw \in Facts
    BY DEF Facts
  <2>3. /\ saw.location = (store.locations > 0) /\ saw.plan = (store.plans > 0)
        /\ saw.live = store.live
    OBVIOUS
  <2>4. wizard' = [wizard EXCEPT !.load = "granted", !.saw = saw]
    BY <2>1
  <2> HIDE DEF saw
  <2>5. /\ wizard' \in Wizard /\ wizard'.at = wizard.at /\ wizard'.load = "granted"
        /\ wizard'.saw = saw /\ wizard'.existing = wizard.existing
        /\ wizard'.ready = wizard.ready /\ wizard'.launched = wizard.launched
        /\ wizard'.going = wizard.going
    BY <2>2, <2>4 DEF Wizard
  <2>6. wizard.load = "sent" /\ UNCHANGED <<store, saver, trail>>
    BY <1>2 DEF LoadServed
  <2>7. FactsInv'
    BY <2>5, <2>6, <2>3 DEF FactsInv
  <2>8. HopsInv'
    BY <2>5, <2>6, <2>3 DEF HopsInv, Has, Stays
  <2>9. saw.plan \/ ~(store.plans > 0)
    BY <2>3, Zenon
  <2>10. /\ ~wizard'.saw.plan => store.plans = 0
         /\ ~wizard'.ready /\ ~wizard'.existing
    BY <2>5, <2>6, <2>9 DEF FactsInv
  <2> QED
    BY <2>5, <2>6, <2>7, <2>8, <2>10, LoadKeeps
<1>3. ASSUME LoadLost \/ LoadFailed PROVE SetupInv'
  <2>1. PICK load \in {"failed", "done"} : wizard' = [wizard EXCEPT !.load = load]
    BY <1>3 DEF LoadLost, LoadFailed
  <2>2. /\ wizard' \in Wizard /\ wizard'.at = wizard.at /\ wizard'.load = load
        /\ wizard'.saw = wizard.saw /\ wizard'.existing = wizard.existing
        /\ wizard'.ready = wizard.ready /\ wizard'.launched = wizard.launched
        /\ wizard'.going = wizard.going
    BY <2>1 DEF Wizard
  <2>3. wizard.load \in {"sent", "failed"} /\ UNCHANGED <<store, saver, trail>>
    BY <1>3 DEF LoadLost, LoadFailed
  <2>4. FactsInv'
    BY <2>2, <2>3 DEF FactsInv
  <2>5. HopsInv'
    BY <2>1, <2>2, <2>3 DEF HopsInv, Has
  <2> QED
    BY <2>1, <2>2, <2>3, <2>4, <2>5, LoadKeeps DEF FactsInv
<1>4. ASSUME LoadAnswered PROVE SetupInv'
  <2> DEFINE to == Redirect(wizard.at, wizard.saw)
  <2>1. to \in WizardPage \cup {"stay"}
    BY DEF Redirect, WizardPage, Step
  <2>2. /\ wizard.load = "granted" /\ UNCHANGED <<store, saver, trail>>
        /\ wizard' = [wizard EXCEPT !.load = "done", !.going = to,
             !.existing = Known(wizard.at, wizard.saw), !.ready = to = "stay"]
    BY <1>4 DEF LoadAnswered
  <2>3. to # "stay" => Has(to) \/ (to = "setup" /\ trail.hops = 0)
    <3>1. trail.hops > 0 => Stays(wizard.at, wizard.saw)
      BY <2>2 DEF HopsInv
    <3>2. CASE wizard.at = "dashboard"
      BY <3>1, <3>2 DEF Redirect, GateOpen, Stays
    <3>3. CASE wizard.at = "setup"
      BY <3>3, RedirectsFrom DEF Has, FactsInv
    <3>4. CASE wizard.at \in {"box", "review"}
      BY <3>4, RedirectsFrom DEF Has, FactsInv
    <3>5. CASE wizard.at \in {"location", "payouts"}
      BY <3>5 DEF Redirect
    <3> QED
      BY <3>2, <3>3, <3>4, <3>5 DEF WizardPage, Step
  <2>4. to # "stay" => trail.hops <= (IF to = "setup" THEN 0 ELSE 1)
    <3>1. trail.hops > 0 => Stays(wizard.at, wizard.saw)
      BY <2>2 DEF HopsInv
    <3>2. Stays(wizard.at, wizard.saw) => wizard.at = "setup" \/ to = "stay"
      BY DEF Stays, Redirect, GateOpen, WizardPage, Step
    <3>3. wizard.at = "setup" => to # "setup" /\ trail.hops <= 1
      BY DEF HopsInv, Redirect
    <3> QED
      BY <3>1, <3>2, <3>3
  <2>5. Known(wizard.at, wizard.saw) \in BOOLEAN
    BY DEF Known
  <2> HIDE DEF to
  <2>6. /\ wizard' \in Wizard /\ wizard'.at = wizard.at /\ wizard'.load = "done"
        /\ wizard'.saw = wizard.saw /\ wizard'.existing = Known(wizard.at, wizard.saw)
        /\ wizard'.launched = wizard.launched /\ wizard'.going = to
    BY <2>1, <2>2, <2>5 DEF Wizard
  <2>7. FactsInv'
    BY <2>2, <2>6 DEF FactsInv
  <2>8. HopsInv'
    BY <2>2, <2>3, <2>4, <2>6 DEF HopsInv, Has
  <2>9. wizard.at = "location" /\ wizard'.existing => store.locations > 0
    BY <2>6 DEF Known, FactsInv
  <2>10. wizard.at = "box" /\ ~trail.excused /\ ~wizard'.existing => store.plans = 0
    BY <2>2, <2>6 DEF Known, BoxInv, SetupInv
  <2> QED
    BY <2>2, <2>6, <2>7, <2>8, <2>9, <2>10, LoadKeeps
<1> QED
  BY <1>2, <1>3, <1>4

(* A button that writes is pressed.                                         *)
LEMMA PressKeeps ==
  ASSUME SetupInv, NEW s \in Saver, NEW p \in Step, NEW creates \in BOOLEAN,
         Pressable(p), Press(s, p, creates),
         p = "location" => (creates <=> ~wizard.existing),
         p = "box" => wizard.ready /\ (creates <=> ~wizard.existing)
  PROVE  SetupInv'
<1>1. SetupTypeOK
  BY DEF SetupInv
<1> USE <1>1, SetupParts, SetupSaver
<1>2. wizard.at = p /\ wizard.load = "done" /\ ~wizard.saving
  BY DEF Pressable
<1>3. /\ saver[s].at = "none" /\ trail.presses < SavePresses /\ UNCHANGED store
      /\ saver' = [saver EXCEPT ![s] = [at |-> p, creates |-> creates, own |-> TRUE,
                                        stage |-> "sent"]]
      /\ wizard' = [wizard EXCEPT !.saving = TRUE]
      /\ trail' = [trail EXCEPT !.presses = @ + 1, !.hops = 0]
  BY DEF Press
<1>4. /\ wizard' \in Wizard /\ wizard'.at = p /\ wizard'.load = "done"
      /\ wizard'.saw = wizard.saw /\ wizard'.existing = wizard.existing
      /\ wizard'.ready = wizard.ready /\ wizard'.launched = wizard.launched
      /\ wizard'.going = wizard.going /\ wizard'.saving
  BY <1>2, <1>3 DEF Wizard
<1>5. /\ trail' \in Trail /\ trail'.presses = trail.presses + 1 /\ trail'.hops = 0
      /\ trail'.excused = trail.excused
  <2>1. trail.presses + 1 \in 0 .. SavePresses
    BY <1>3, SetupAssumption
  <2> QED
    BY <1>3, <2>1 DEF Trail
<1>6. /\ saver' \in [Saver -> SaverState]
      /\ saver'[s].at = p /\ saver'[s].creates = creates /\ saver'[s].own
      /\ saver'[s].stage = "sent"
      /\ \A t \in Saver \ {s} : saver'[t] = saver[t]
  BY <1>3 DEF SaverState, Step
<1>7. /\ \A t \in Saver : ~saver[t].own
      /\ ~trail.excused => \A t \in Saver : saver[t].at = "none"
  BY <1>2 DEF SetupInv, OwnInv
<1>8. SetupTypeOK'
  BY <1>3, <1>4, <1>5, <1>6 DEF SetupTypeOK, Trail
<1>9. FactsInv'
  BY <1>3, <1>4 DEF SetupInv, FactsInv
<1>10. HopsInv'
  BY <1>3, <1>4, <1>5 DEF SetupInv, HopsInv, Has
<1>11. OwnInv'
  BY <1>4, <1>5, <1>6, <1>7 DEF OwnInv, Step
<1>12. WriteInv'
  BY <1>2, <1>3, <1>4, <1>6 DEF SetupInv, WriteInv, LaunchedIsLive
<1>13. BoxInv'
  <2>1. ~trail.excused /\ p = "box" /\ creates => store.plans = 0
    BY <1>2, <1>7 DEF SetupInv, BoxInv, Made
  <2>2. SUFFICES ASSUME ~trail.excused PROVE BoxInv'
    BY <1>5 DEF BoxInv
  <2>3. p = "box" /\ wizard.ready /\ ~wizard.existing => store.plans = 0
    BY <2>1, <2>2
  <2> QED
    BY <1>2, <1>3, <1>4, <1>5, <1>6, <1>7, <2>1, <2>2, <2>3 DEF SetupInv, BoxInv
<1>14. CountInv'
  <2>1. IsFiniteSet(Pending) /\ Cardinality(Pending) \in Nat
    BY PendingCount DEF SetupInv, CountInv
  <2>2. Pending' \subseteq Pending \cup {s}
    BY <1>6 DEF Pending
  <2>3. /\ IsFiniteSet(Pending \cup {s})
        /\ Cardinality(Pending \cup {s}) <= Cardinality(Pending) + 1
    <3>1. /\ IsFiniteSet(Pending \cup {s})
          /\ Cardinality(Pending \cup {s}) =
               IF s \in Pending THEN Cardinality(Pending) ELSE Cardinality(Pending) + 1
      BY <2>1, FS_AddElement
    <3> QED
      BY <2>1, <3>1
  <2>4. IsFiniteSet(Pending') /\ Cardinality(Pending') <= Cardinality(Pending \cup {s})
    BY <2>2, <2>3, FS_Subset
  <2>5. Cardinality(Pending') \in Nat /\ Cardinality(Pending \cup {s}) \in Nat
    BY <2>3, <2>4, FS_CardinalityType
  <2> QED
    BY <1>3, <1>5, <2>1, <2>3, <2>4, <2>5 DEF SetupInv, CountInv
<1> QED
  BY <1>8, <1>9, <1>10, <1>11, <1>12, <1>13, <1>14 DEF SetupInv

LEMMA PressesKeep ==
  ASSUME SetupInv, NEW s \in Saver, SaveSpot(s) \/ SaveBox(s) \/ Connect(s) \/ Launch(s)
  PROVE  SetupInv'
<1>1. (~wizard.existing) \in BOOLEAN /\ FALSE \in BOOLEAN
      /\ "location" \in Step /\ "box" \in Step /\ "payouts" \in Step /\ "review" \in Step
  BY DEF Step
<1>2. ASSUME SaveSpot(s) PROVE SetupInv'
  BY <1>1, <1>2, PressKeeps DEF SaveSpot
<1>3. ASSUME SaveBox(s) PROVE SetupInv'
  BY <1>1, <1>3, PressKeeps DEF SaveBox
<1>4. ASSUME Connect(s) PROVE SetupInv'
  BY <1>1, <1>4, PressKeeps DEF Connect
<1>5. ASSUME Launch(s) PROVE SetupInv'
  BY <1>1, <1>5, PressKeeps DEF Launch
<1> QED
  BY <1>2, <1>3, <1>4, <1>5

(* The store grows.                                                         *)
Grows ==
  /\ store.locations <= store'.locations /\ store.plans <= store'.plans
  /\ store.live => store'.live

SaverGoes(s, what) == saver' = [saver EXCEPT ![s] = what]

IsReply(w, what) ==
  /\ what.at = w.at /\ (what.creates <=> w.creates) /\ (what.own <=> w.own)
  /\ what.stage \in {"granted", "failed"}

LEMMA RepliesTo ==
  ASSUME SetupTypeOK, NEW s \in Saver, NEW stage \in {"granted", "failed"},
         saver' = [saver EXCEPT ![s].stage = stage]
  PROVE  \E what \in SaverState :
           SaverGoes(s, what) /\ IsReply(saver[s], what) /\ what.stage = stage
<1> DEFINE what == [saver[s] EXCEPT !.stage = stage]
<1>1. saver[s] \in SaverState
  BY SetupSaver
<1>2. what \in SaverState /\ IsReply(saver[s], what) /\ what.stage = stage
  BY <1>1 DEF SaverState, IsReply
<1>3. SaverGoes(s, what)
  BY DEF SaverGoes
<1> HIDE DEF what
<1> QED
  BY <1>2, <1>3

(* A write is carried out, refused or lost.                                 *)
LEMMA ServeKeeps ==
  ASSUME SetupInv, NEW s \in Saver, NEW what \in SaverState, SaverGoes(s, what),
         saver[s].at # "none", saver[s].stage = "sent", UNCHANGED wizard,
         IsReply(saver[s], what), store' \in StoreRow, Grows,
         trail' \in Trail, trail'.presses = trail.presses, trail'.hops = trail.hops,
         trail.excused => trail'.excused,
         store'.locations + store'.plans <=
           store.locations + store.plans + (IF saver[s].creates THEN 1 ELSE 0),
         store'.plans # store.plans =>
           /\ saver[s].at = "box" /\ saver[s].creates /\ store'.plans = store.plans + 1
           /\ what.stage = "granted" \/ trail'.excused,
         saver[s].at = "location" /\ saver[s].creates /\ what.stage = "granted" =>
           store'.locations > 0,
         saver[s].at = "review" /\ what.stage = "granted" => store'.live
  PROVE  SetupInv'
<1>1. SetupTypeOK
  BY DEF SetupInv
<1> USE <1>1, SetupParts, SetupSaver
<1>2. trail'.presses \in Nat /\ trail'.hops \in Nat /\ trail'.excused \in BOOLEAN
  BY DEF Trail
<1>3. /\ saver' \in [Saver -> SaverState]
      /\ saver'[s].at = saver[s].at /\ (saver'[s].creates <=> saver[s].creates)
      /\ (saver'[s].own <=> saver[s].own)
      /\ saver'[s].stage = what.stage /\ what.stage # "sent"
      /\ \A t \in Saver \ {s} : saver'[t] = saver[t]
  BY DEF SaverGoes, IsReply
<1>4. store'.locations \in Nat /\ store'.plans \in Nat
  BY SetupAssumption DEF StoreRow
<1>5. SetupTypeOK'
  BY <1>2, <1>3 DEF SetupTypeOK, Trail
<1>6. FactsInv'
  BY <1>4 DEF SetupInv, FactsInv, Grows
<1>7. HopsInv'
  <2>1. \A p \in WizardPage : Has(p) => Has(p)'
    BY <1>4 DEF Has, Grows
  <2>2. /\ Has(wizard.at) => Has(wizard.at)'
        /\ wizard.going # "stay" /\ Has(wizard.going) => Has(wizard.going)'
    BY <2>1
  <2> QED
    BY <1>2, <2>2 DEF SetupInv, HopsInv
<1>8. OwnInv'
  BY <1>2, <1>3 DEF SetupInv, OwnInv
<1>9. WriteInv'
  BY <1>3, <1>4 DEF SetupInv, WriteInv, LaunchedIsLive, Grows
<1>10. BoxInv'
  <2>1. SUFFICES ASSUME ~trail'.excused, ~trail.excused PROVE BoxInv'
    BY <1>2 DEF BoxInv
  <2>2. /\ saver[s].own /\ wizard.load = "done"
        /\ \A t \in Saver \ {s} : saver[t].at = "none"
    BY <2>1 DEF SetupInv, OwnInv
  <2>3. CASE store'.plans = store.plans
    <3>1. \A t \in Saver : Made(t) => Made(t)'
      BY <1>3 DEF Made
    <3>2. (\E t \in Saver : Made(t)) => \E t \in Saver : Made(t)'
      BY <3>1
    <3> QED
      BY <1>3, <2>1, <2>2, <2>3, <3>2 DEF SetupInv, BoxInv
  <2>4. CASE store'.plans # store.plans
    <3>1. store.plans = 0 /\ Made(s)' /\ store'.plans = 1
      BY <1>3, <2>1, <2>4 DEF SetupInv, BoxInv, Made
    <3> QED
      BY <1>3, <2>2, <3>1 DEF BoxInv, Made
  <2> QED
    BY <2>3, <2>4
<1>11. CountInv'
  <2>1. Pending' = Pending \ {s}
    BY <1>3 DEF Pending
  <2>2. IsFiniteSet(Pending) /\ Cardinality(Pending) \in Nat
    BY PendingCount DEF SetupInv, CountInv
  <2>3. /\ IsFiniteSet(Pending \ {s})
        /\ Cardinality(Pending \ {s}) =
             IF s \in Pending THEN Cardinality(Pending) - 1 ELSE Cardinality(Pending)
    BY <2>2, FS_RemoveElement
  <2>4. s \in Pending <=> saver[s].creates
    BY DEF Pending
  <2>5. /\ IsFiniteSet(Pending')
        /\ Cardinality(Pending') =
             IF s \in Pending THEN Cardinality(Pending) - 1 ELSE Cardinality(Pending)
    BY <2>1, <2>3
  <2> QED
    BY <1>2, <1>4, <2>2, <2>4, <2>5 DEF SetupInv, CountInv
<1> QED
  BY <1>5, <1>6, <1>7, <1>8, <1>9, <1>10, <1>11 DEF SetupInv

LEMMA WritesServed ==
  ASSUME SetupInv, NEW s \in Saver, WriteServed(s)
  PROVE  SetupInv'
<1>1. SetupTypeOK /\ CountInv
  BY DEF SetupInv
<1> USE <1>1, SetupParts, SetupSaver
<1>2. /\ saver[s].at \in Step /\ saver[s].stage = "sent" /\ UNCHANGED wizard
      /\ store' = Written(saver[s])
  BY DEF WriteServed
<1>3. saver[s].creates => store.locations + store.plans + 1 <= SavePresses
  <2>1. saver[s].creates => s \in Pending
    BY <1>2 DEF Pending
  <2>2. IsFiniteSet(Pending) /\ Cardinality(Pending) \in Nat
    BY PendingCount DEF CountInv
  <2>3. /\ IsFiniteSet(Pending \ {s})
        /\ Cardinality(Pending \ {s}) =
             IF s \in Pending THEN Cardinality(Pending) - 1 ELSE Cardinality(Pending)
    BY <2>2, FS_RemoveElement
  <2>4. Cardinality(Pending \ {s}) \in Nat
    BY <2>3, FS_CardinalityType
  <2> QED
    BY <2>1, <2>2, <2>3, <2>4, SetupAssumption DEF CountInv
<1>4. PICK what \in SaverState :
        /\ SaverGoes(s, what) /\ IsReply(saver[s], what)
        /\ trail' \in Trail /\ trail'.presses = trail.presses /\ trail'.hops = trail.hops
        /\ trail.excused => trail'.excused
        /\ what.stage = "granted" \/ trail'.excused
  <2>1. CASE saver' = [saver EXCEPT ![s].stage = "granted"] /\ UNCHANGED trail
    BY <2>1, RepliesTo
  <2>2. CASE /\ saver' = [saver EXCEPT ![s].stage = "failed"]
             /\ trail' = [trail EXCEPT !.excused = TRUE]
    <3>1. /\ trail' \in Trail /\ trail'.presses = trail.presses /\ trail'.hops = trail.hops
          /\ trail'.excused
      BY <2>2 DEF Trail
    <3> QED
      BY <2>2, <3>1, RepliesTo
  <2> QED
    BY <2>1, <2>2 DEF WriteServed
<1>5. CASE saver[s].at = "location"
  <2>1. store' = [store EXCEPT !.locations = IF saver[s].creates THEN store.locations + 1
                                             ELSE store.locations]
    BY <1>2, <1>5 DEF Written, StoreRow
  <2>2. (IF saver[s].creates THEN store.locations + 1 ELSE store.locations) \in 0 .. SavePresses
    BY <1>3, SetupAssumption
  <2>3. /\ store' \in StoreRow /\ store'.plans = store.plans /\ store'.live = store.live
        /\ store'.locations = IF saver[s].creates THEN store.locations + 1 ELSE store.locations
    BY <2>1, <2>2 DEF StoreRow
  <2>4. Grows
    BY <2>3 DEF Grows
  <2> QED
    BY <1>2, <1>4, <1>5, <2>3, <2>4, ServeKeeps
<1>6. CASE saver[s].at = "box"
  <2>1. store' = [store EXCEPT !.plans = IF saver[s].creates THEN store.plans + 1
                                         ELSE store.plans]
    BY <1>2, <1>6 DEF Written, StoreRow
  <2>2. (IF saver[s].creates THEN store.plans + 1 ELSE store.plans) \in 0 .. SavePresses
    BY <1>3, SetupAssumption
  <2>3. /\ store' \in StoreRow /\ store'.locations = store.locations /\ store'.live = store.live
        /\ store'.plans = IF saver[s].creates THEN store.plans + 1 ELSE store.plans
    BY <2>1, <2>2 DEF StoreRow
  <2>4. Grows
    BY <2>3 DEF Grows
  <2> QED
    BY <1>2, <1>4, <1>6, <2>3, <2>4, ServeKeeps
<1>7. CASE saver[s].at = "payouts"
  <2>1. store' = [store EXCEPT !.connect =
                    IF store.connect = "none" THEN "onboarding" ELSE store.connect]
    BY <1>2, <1>7 DEF Written, StoreRow
  <2>2. /\ store' \in StoreRow /\ store'.locations = store.locations
        /\ store'.plans = store.plans /\ store'.live = store.live
    BY <2>1 DEF StoreRow, ConnectStatus
  <2>3. Grows
    BY <2>2 DEF Grows
  <2> QED
    BY <1>2, <1>4, <1>7, <2>2, <2>3, ServeKeeps
<1>8. CASE saver[s].at = "review"
  <2>1. store' = [store EXCEPT !.live = TRUE]
    BY <1>2, <1>8 DEF Written
  <2>2. /\ store' \in StoreRow /\ store'.locations = store.locations
        /\ store'.plans = store.plans /\ store'.live
    BY <2>1 DEF StoreRow
  <2>3. Grows
    BY <2>2 DEF Grows
  <2> QED
    BY <1>2, <1>4, <1>8, <2>2, <2>3, ServeKeeps
<1> QED
  BY <1>2, <1>5, <1>6, <1>7, <1>8 DEF Step

LEMMA WritesRefused ==
  ASSUME SetupInv, NEW s \in Saver, WriteRefused(s)
  PROVE  SetupInv'
<1>1. SetupTypeOK
  BY DEF SetupInv
<1> USE <1>1, SetupParts, SetupSaver
<1>2. /\ saver[s].at # "none" /\ saver[s].stage = "sent" /\ UNCHANGED <<store, wizard, trail>>
      /\ saver' = [saver EXCEPT ![s].stage = "failed"]
  BY DEF WriteRefused
<1>3. PICK what \in SaverState :
        SaverGoes(s, what) /\ IsReply(saver[s], what) /\ what.stage = "failed"
  BY <1>2, RepliesTo
<1>4. Grows /\ store' \in StoreRow
  BY <1>2 DEF Grows
<1> QED
  BY <1>2, <1>3, <1>4, ServeKeeps

(* The answer comes.                                                        *)
LEMMA AnsweredKeeps ==
  ASSUME SetupInv, NEW s \in Saver, NEW hops \in Nat, UNCHANGED store,
         saver[s].at # "none", saver[s].stage # "sent", SaverGoes(s, NoSaver),
         trail' = [trail EXCEPT !.hops = hops], hops <= trail.hops,
         wizard' \in Wizard, wizard'.at = wizard.at, wizard'.load = wizard.load,
         wizard'.saw.location = wizard.saw.location, wizard'.saw.plan = wizard.saw.plan,
         wizard'.saw.live = wizard.saw.live, wizard'.ready = wizard.ready,
         wizard'.saving <=> wizard.saving /\ ~saver[s].own,
         wizard'.existing <=>
           \/ wizard.existing
           \/ saver[s].own /\ saver[s].at = "box" /\ saver[s].stage = "granted",
         wizard'.launched => wizard.launched \/ store.live,
         \/ wizard'.going = wizard.going
         \/ Has(wizard'.going) /\ wizard'.going # "setup" /\ hops = 0
  PROVE  SetupInv'
<1>1. SetupTypeOK
  BY DEF SetupInv
<1> USE <1>1, SetupParts, SetupSaver, SetupIdle
<1>2. /\ trail' \in Trail /\ trail'.presses = trail.presses /\ trail'.hops = hops
      /\ trail'.excused = trail.excused
  BY DEF Trail
<1>3. /\ saver' \in [Saver -> SaverState] /\ saver'[s] = NoSaver
      /\ \A t \in Saver \ {s} : saver'[t] = saver[t]
  BY DEF SaverGoes
<1>4. \A t \in Saver : saver[t].own =>
        /\ saver[t].at # "none" /\ wizard.at = saver[t].at
        /\ wizard.saving /\ wizard.load = "done"
  BY DEF SetupInv, OwnInv
<1>5. SetupTypeOK'
  BY <1>2, <1>3 DEF SetupTypeOK, Trail
<1>6. FactsInv'
  BY <1>4 DEF SetupInv, FactsInv
<1>7. HopsInv'
  <2>1. \A p : Has(p) => Has(p)'
    BY DEF Has
  <2>2. wizard.load = "granted" /\ Stays(wizard.at, wizard.saw) => Stays(wizard.at, wizard'.saw)
    BY DEF Stays
  <2> QED
    BY <1>2, <2>1, <2>2 DEF SetupInv, HopsInv
<1>8. OwnInv'
  BY <1>2, <1>3, <1>4 DEF SetupInv, OwnInv
<1>9. WriteInv'
  BY <1>3, <1>4 DEF SetupInv, WriteInv, LaunchedIsLive
<1>10. BoxInv'
  <2>1. SUFFICES ASSUME ~trail.excused PROVE BoxInv'
    BY <1>2 DEF BoxInv
  <2>2. saver[s].own /\ wizard.at = saver[s].at
        /\ \A t \in Saver \ {s} : saver[t].at = "none"
    BY <1>4, <2>1 DEF SetupInv, OwnInv
  <2>3. Made(s) => wizard'.existing
    BY <2>2 DEF Made
  <2>4. (\E t \in Saver : Made(t)) => Made(s)
    BY <2>2 DEF Made
  <2> QED
    BY <1>2, <1>3, <2>1, <2>2, <2>3, <2>4 DEF SetupInv, BoxInv
<1>11. CountInv'
  <2>1. Pending' = Pending
    BY <1>3 DEF Pending
  <2> QED
    BY <1>2, <2>1 DEF SetupInv, CountInv
<1> QED
  BY <1>5, <1>6, <1>7, <1>8, <1>9, <1>10, <1>11 DEF SetupInv

LEMMA WritesAnswered ==
  ASSUME SetupInv, NEW s \in Saver, WriteAnswered(s) \/ WriteFailed(s)
  PROVE  SetupInv'
<1>1. SetupTypeOK /\ OwnInv /\ WriteInv
  BY DEF SetupInv
<1> USE <1>1, SetupParts, SetupSaver
<1>2. ASSUME WriteAnswered(s) PROVE SetupInv'
  <2>1. /\ saver[s].at # "none" /\ saver[s].stage = "granted" /\ UNCHANGED store
        /\ SaverGoes(s, NoSaver) /\ trail' = [trail EXCEPT !.hops = 0]
        /\ 0 \in Nat /\ 0 <= trail.hops
    BY <1>2 DEF WriteAnswered, SaverGoes
  <2> DEFINE going == Pushed(saver[s])
             saving == wizard.saving /\ ~saver[s].own
             connect == IF saver[s].own /\ saver[s].at = "payouts" THEN "onboarding"
                        ELSE wizard.saw.connect
             existing == wizard.existing \/ (saver[s].own /\ saver[s].at = "box")
             launched == wizard.launched \/ (saver[s].own /\ saver[s].at = "review")
             saw == [wizard.saw EXCEPT !.connect = connect]
  <2>2. wizard' = [wizard EXCEPT !.going = going, !.saving = saving, !.saw = saw,
                                 !.existing = existing, !.launched = launched]
    BY <1>2 DEF WriteAnswered, Wizard, Facts
  <2>3. /\ going \in WizardPage \cup {"stay"}
        /\ going # wizard.going => Has(going) /\ going # "setup"
    BY <2>1 DEF Pushed, Has, WizardPage, Step, WriteInv
  <2>4. /\ saw \in Facts /\ saw.location = wizard.saw.location /\ saw.plan = wizard.saw.plan
        /\ saw.live = wizard.saw.live
    <3>1. connect \in ConnectStatus
      BY DEF ConnectStatus
    <3> HIDE DEF connect
    <3> QED
      BY <3>1 DEF Facts
  <2>5. saving \in BOOLEAN /\ existing \in BOOLEAN /\ launched \in BOOLEAN
    OBVIOUS
  <2>6. launched => wizard.launched \/ store.live
    BY <2>1 DEF WriteInv
  <2>7. (saving <=> wizard.saving /\ ~saver[s].own)
        /\ (existing <=> wizard.existing \/ (saver[s].own /\ saver[s].at = "box"))
    OBVIOUS
  <2> HIDE DEF going, saving, saw, existing, launched
  <2>8. /\ wizard' \in Wizard /\ wizard'.at = wizard.at /\ wizard'.load = wizard.load
        /\ wizard'.ready = wizard.ready /\ wizard'.saw = saw /\ wizard'.going = going
        /\ wizard'.saving = saving /\ wizard'.existing = existing
        /\ wizard'.launched = launched
    BY <2>2, <2>3, <2>4, <2>5 DEF Wizard
  <2> QED
    BY <2>1, <2>3, <2>4, <2>6, <2>7, <2>8, AnsweredKeeps
<1>3. ASSUME WriteFailed(s) PROVE SetupInv'
  <2>1. /\ saver[s].at # "none" /\ saver[s].stage = "failed" /\ UNCHANGED <<store, trail>>
        /\ SaverGoes(s, NoSaver)
    BY <1>3 DEF WriteFailed, SaverGoes
  <2>2. trail' = [trail EXCEPT !.hops = trail.hops]
    BY <2>1 DEF Trail
  <2>3. /\ wizard' \in Wizard /\ wizard'.at = wizard.at /\ wizard'.load = wizard.load
        /\ wizard'.ready = wizard.ready /\ wizard'.saw = wizard.saw
        /\ wizard'.going = wizard.going /\ (wizard'.existing <=> wizard.existing)
        /\ (wizard'.launched <=> wizard.launched)
        /\ (wizard'.saving <=> wizard.saving /\ ~saver[s].own)
    BY <1>3 DEF WriteFailed, Unsaved, Wizard
  <2>4. trail.hops <= trail.hops
    OBVIOUS
  <2> QED
    BY <2>1, <2>2, <2>3, <2>4, AnsweredKeeps
<1> QED
  BY <1>2, <1>3

LEMMA ActivationKeeps ==
  ASSUME SetupInv, ConnectActivates PROVE SetupInv'
<1>1. SetupTypeOK
  BY DEF SetupInv
<1> USE <1>1, SetupParts
<1>2. /\ store' \in StoreRow /\ store'.locations = store.locations
      /\ store'.plans = store.plans /\ store'.live = store.live
      /\ UNCHANGED <<wizard, saver, trail>>
  BY DEF ConnectActivates, StoreRow, ConnectStatus
<1> QED
  BY <1>2 DEF SetupInv, SetupTypeOK, FactsInv, HopsInv, Has, OwnInv, WriteInv, LaunchedIsLive,
              BoxInv, Made, CountInv, Pending

LEMMA SetupStays ==
  ASSUME SetupInv, UNCHANGED setupVars PROVE SetupInv'
BY DEF setupVars, SetupInv, SetupTypeOK, FactsInv, HopsInv, Has, OwnInv, WriteInv,
       LaunchedIsLive, BoxInv, Made, CountInv, Pending

LEMMA SetupKeeps == SetupSpec => []SetupInv
<1>1. SetupInit => SetupInv
  BY SetupStarts
<1>2. SetupInv /\ [SetupNext]_setupVars => SetupInv'
  <2> SUFFICES ASSUME SetupInv, [SetupNext]_setupVars PROVE SetupInv'
    OBVIOUS
  <2>1. ASSUME NEW s \in Saver, SaverStep(s) PROVE SetupInv'
    BY <2>1, PressesKeep, WritesServed, WritesRefused, WritesAnswered DEF SaverStep
  <2> QED
    BY <2>1, MountsKeep, LoadsKeep, ActivationKeeps, SetupStays DEF SetupNext
<1> QED
  BY <1>1, <1>2, PTL DEF SetupSpec

(* The router never sends the seller round in circles, whatever happens to  *)
(* the store underneath.                                                    *)
THEOREM RouteSettles == SetupSpec => []Settles
<1>1. SetupInv => Settles
  BY SetupParts DEF SetupInv, HopsInv, Settles
<1> QED
  BY <1>1, SetupKeeps, PTL

(* However often the seller presses, goes back and forth, the wizard makes  *)
(* one plan, unless a write was lost or its page left before the answer.    *)
THEOREM MakesOneBox == SetupSpec => []OneBox
<1>1. SetupInv => OneBox
  BY DEF SetupInv, BoxInv, OneBox
<1> QED
  BY <1>1, SetupKeeps, PTL

(* "You're live!" is only said of a store that is.                          *)
THEOREM LiveIsLive == SetupSpec => []LaunchedIsLive
<1>1. SetupInv => LaunchedIsLive
  BY DEF SetupInv, WriteInv
<1> QED
  BY <1>1, SetupKeeps, PTL
-----------------------------------------------------------------------------
(* The settings.                                                            *)

(* A form that saves has one handler.                                       *)
UniqueInv ==
  /\ \A h, g \in Handler :
       handler[h].what # "none" /\ handler[g].what = handler[h].what => h = g
  /\ \A h \in Handler : handler[h].op = "refresh" => handler[h].what # "none"

(* Nothing is newer than the last edit.                                     *)
EditsInv ==
  /\ \A s \in Section : fields[s] <= story.edits /\ rows[s] <= story.edits
  /\ \A h \in Handler : handler[h].value <= story.edits
  /\ \A h \in Handler, s \in Section : handler[h].snapshot[s] <= story.edits

(* As long as no load has crossed a write: none is under way with one; an   *)
(* answered load has the rows as they are; and what is saved lies between   *)
(* the row and the form.                                                    *)
Saves(h) == handler[h].what \in Section /\ handler[h].op = "write"

CalmInv ==
  ~story.crossed =>
    /\ \A h, g \in Handler : handler[h].op = "refresh" => ~Saves(g)
    /\ \A h \in Handler : handler[h].op = "refresh" /\ handler[h].stage = "granted" =>
         handler[h].snapshot = rows
    /\ \A s \in Section : rows[s] <= fields[s]
    /\ \A h \in Handler : Saves(h) => /\ rows[handler[h].what] <= handler[h].value
                                      /\ handler[h].value <= fields[handler[h].what]

SettingsInv == SettingsTypeOK /\ UniqueInv /\ EditsInv /\ CalmInv

Story == [edits : Value, adds : 0 .. Adds, crossed : BOOLEAN]

LEMMA SettingsParts ==
  ASSUME SettingsTypeOK
  PROVE  /\ rows \in [Section -> Value] /\ fields \in [Section -> Value]
         /\ \A s \in Section : rows[s] \in Nat /\ fields[s] \in Nat
         /\ story \in Story /\ story.edits \in Nat /\ story.edits <= Edits
         /\ story.adds \in Nat /\ story.crossed \in BOOLEAN
BY SettingsAssumption DEF SettingsTypeOK, Story, Value

LEMMA SettingsHandler ==
  ASSUME SettingsTypeOK, NEW h \in Handler
  PROVE  /\ handler[h] \in HandlerState
         /\ handler[h].what \in {"none", "page"} \cup Section \cup Addition
         /\ handler[h].op \in {"write", "refresh"}
         /\ handler[h].stage \in {"sent", "granted", "failed"}
         /\ handler[h].value \in Value /\ handler[h].value \in Nat
         /\ handler[h].snapshot \in [Section -> Value]
         /\ \A s \in Section : handler[h].snapshot[s] \in Nat
<1>1. handler[h] \in HandlerState
  BY DEF SettingsTypeOK
<1>2. Value \subseteq Nat
  BY SettingsAssumption DEF Value
<1> QED
  BY <1>1, <1>2 DEF HandlerState

LEMMA SettingsIdle ==
  /\ NoHandler \in HandlerState /\ NoHandler.what = "none" /\ NoHandler.op = "write"
  /\ NoHandler.stage = "sent" /\ NoHandler.value = 0
  /\ NoHandler.snapshot = Nothing /\ \A s \in Section : Nothing[s] = 0
BY SettingsAssumption DEF NoHandler, HandlerState, Nothing, Value

LEMMA SettingsStarts == SettingsInit => SettingsInv
<1> SUFFICES ASSUME SettingsInit PROVE SettingsInv
  OBVIOUS
<1> USE SettingsAssumption
<1> DEFINE page == [NoHandler EXCEPT !.what = "page", !.op = "refresh"]
<1>1. /\ page \in HandlerState /\ page.what = "page" /\ page.op = "refresh"
      /\ page.stage = "sent" /\ page.value = 0 /\ page.snapshot = Nothing
  BY SettingsIdle DEF HandlerState, NoHandler
<1>2. PICK first \in Handler :
        handler = [h \in Handler |-> IF h = first THEN page ELSE NoHandler]
  BY DEF SettingsInit
<1> HIDE DEF page
<1>3. handler \in [Handler -> HandlerState]
  BY <1>1, <1>2, SettingsIdle
<1>4. \A h \in Handler : handler[h] = IF h = first THEN page ELSE NoHandler
  BY <1>2
<1>5. /\ rows = Nothing /\ fields = Nothing /\ story.edits = 0 /\ ~story.crossed
      /\ story \in Story /\ loaded \in BOOLEAN
  <2>1. 0 \in 0 .. Edits /\ 0 \in 0 .. Adds
    OBVIOUS
  <2>2. /\ rows = Nothing /\ fields = Nothing /\ loaded = FALSE
        /\ story = [edits |-> 0, adds |-> 0, crossed |-> FALSE]
    BY DEF SettingsInit
  <2> QED
    BY <2>1, <2>2 DEF Story, Value
<1>6. Nothing \in [Section -> Value]
  BY DEF Nothing, Value
<1>7. SettingsTypeOK
  BY <1>3, <1>5, <1>6 DEF SettingsTypeOK, Story
<1>8. UniqueInv
  BY <1>1, <1>4, SettingsIdle DEF UniqueInv
<1>9. EditsInv
  BY <1>1, <1>4, <1>5, SettingsIdle DEF EditsInv
<1>10. CalmInv
  <2>1. \A h \in Handler : ~Saves(h) /\ handler[h].stage = "sent"
    BY <1>1, <1>4, SettingsIdle DEF Saves, Section
  <2> QED
    BY <1>5, <2>1, SettingsIdle DEF CalmInv
<1> QED
  BY <1>7, <1>8, <1>9, <1>10 DEF SettingsInv

(* A handler is started, goes on or ends.                                   *)
Puts(h, what) == handler' = [handler EXCEPT ![h] = what]

LEMMA PutKeeps ==
  ASSUME SettingsInv, NEW h \in Handler, NEW what \in HandlerState, Puts(h, what),
         rows' \in [Section -> Value], fields' \in [Section -> Value], loaded' \in BOOLEAN,
         story' \in Story, story'.edits = story.edits,
         what.what # "none" => what.what = handler[h].what \/ IdleForm(what.what),
         what.op = "refresh" => what.what # "none",
         what.value <= story.edits,
         \A s \in Section : /\ what.snapshot[s] <= story.edits
                            /\ rows'[s] <= story.edits /\ fields'[s] <= story.edits
  PROVE  SettingsTypeOK' /\ UniqueInv' /\ EditsInv'
<1>1. /\ handler' \in [Handler -> HandlerState] /\ handler'[h] = what
      /\ \A g \in Handler \ {h} : handler'[g] = handler[g]
  BY DEF Puts, SettingsInv, SettingsTypeOK
<1>2. SettingsTypeOK'
  BY <1>1 DEF SettingsTypeOK, Story
<1>3. UniqueInv'
  BY <1>1 DEF SettingsInv, UniqueInv, IdleForm
<1>4. EditsInv'
  BY <1>1 DEF SettingsInv, EditsInv
<1> QED
  BY <1>2, <1>3, <1>4

(* What an answer has to be for the page to stay calm.                      *)
LEMMA CalmKeeps ==
  ASSUME SettingsInv, NEW h \in Handler, NEW what \in HandlerState, Puts(h, what),
         story.crossed => story'.crossed, UNCHANGED rows,
         ~story'.crossed =>
           /\ what.op = "refresh" =>
                \/ handler[h].op = "refresh"
                \/ \A g \in Handler \ {h} : ~Saves(g)
           /\ what.op = "refresh" /\ what.stage = "granted" => what.snapshot = rows
           /\ what.what \in Section /\ what.op = "write" =>
                \/ /\ Saves(h) /\ what.what = handler[h].what /\ what.value = handler[h].value
                   /\ UNCHANGED fields
                \/ /\ \A g \in Handler : handler[g].op # "refresh"
                   /\ what.value = fields'[what.what]
           /\ \/ UNCHANGED fields
              \/ fields' = rows /\ handler[h].op = "refresh"
  PROVE  CalmInv'
<1>1. SettingsTypeOK
  BY DEF SettingsInv
<1> USE <1>1, SettingsParts, SettingsHandler
<1>2. /\ handler' \in [Handler -> HandlerState] /\ handler'[h] = what
      /\ \A g \in Handler \ {h} : handler'[g] = handler[g]
  BY DEF Puts, SettingsTypeOK
<1>3. SUFFICES ASSUME ~story'.crossed, ~story.crossed PROVE CalmInv'
  BY DEF CalmInv
<1>4. ASSUME NEW g \in Handler, NEW k \in Handler, handler'[g].op = "refresh", Saves(k)'
      PROVE  FALSE
  BY <1>2, <1>3, <1>4 DEF SettingsInv, CalmInv, Saves
<1>5. ASSUME NEW g \in Handler, handler'[g].op = "refresh", handler'[g].stage = "granted"
      PROVE  handler'[g].snapshot = rows
  BY <1>2, <1>3, <1>5 DEF SettingsInv, CalmInv
<1>6. \A s \in Section : rows[s] <= fields'[s]
  BY <1>3 DEF SettingsInv, CalmInv
<1>7. ASSUME NEW g \in Handler, Saves(g)'
      PROVE  /\ rows[handler'[g].what] <= handler'[g].value
             /\ handler'[g].value <= fields'[handler'[g].what]
  <2>1. CASE g = h
    BY <1>2, <1>3, <1>6, <1>7, <2>1 DEF SettingsInv, CalmInv, Saves
  <2>2. CASE g # h
    BY <1>2, <1>3, <1>7, <2>2 DEF SettingsInv, CalmInv, Saves
  <2> QED
    BY <2>1, <2>2
<1> QED
  BY <1>4, <1>5, <1>6, <1>7 DEF CalmInv

LEMMA EditKeeps ==
  ASSUME SettingsInv, Edit PROVE SettingsInv'
<1>1. SettingsTypeOK
  BY DEF SettingsInv
<1> USE <1>1, SettingsParts, SettingsHandler
<1>2. PICK s \in Section : fields' = [fields EXCEPT ![s] = story.edits + 1]
  BY DEF Edit
<1>3. story.edits + 1 \in Value /\ UNCHANGED <<rows, handler, loaded>>
  BY SettingsAssumption DEF Edit, Value
<1>4. /\ story' \in Story /\ story'.edits = story.edits + 1
      /\ story'.crossed = story.crossed
  BY <1>3 DEF Edit, Story
<1>5. /\ fields' \in [Section -> Value] /\ fields'[s] = story.edits + 1
      /\ \A t \in Section \ {s} : fields'[t] = fields[t]
  BY <1>2, <1>3
<1>6. SettingsTypeOK'
  BY <1>3, <1>4, <1>5 DEF SettingsTypeOK, Story
<1>7. UniqueInv' /\ EditsInv'
  BY <1>3, <1>4, <1>5 DEF SettingsInv, UniqueInv, EditsInv
<1>8. CalmInv'
  <2>1. SUFFICES ASSUME ~story.crossed PROVE CalmInv'
    BY <1>4 DEF CalmInv
  <2>2. \A t \in Section : rows[t] <= fields'[t]
    BY <1>5, <2>1 DEF SettingsInv, CalmInv, EditsInv
  <2>3. ASSUME NEW h \in Handler, Saves(h)
        PROVE  /\ rows[handler[h].what] <= handler[h].value
               /\ handler[h].value <= fields'[handler[h].what]
    BY <1>5, <2>1, <2>3 DEF SettingsInv, CalmInv, EditsInv, Saves
  <2>4. \A h \in Handler : Saves(h)' <=> Saves(h)
    BY <1>3 DEF Saves
  <2> QED
    BY <1>3, <2>1, <2>2, <2>3, <2>4 DEF SettingsInv, CalmInv
<1> QED
  BY <1>6, <1>7, <1>8 DEF SettingsInv

LEMMA WritesStart ==
  ASSUME SettingsInv, NEW h \in Handler, SaveSection(h) \/ AddRow(h)
  PROVE  SettingsInv'
<1>1. SettingsTypeOK /\ EditsInv /\ loaded \in BOOLEAN
  BY DEF SettingsInv, SettingsTypeOK
<1> USE <1>1, SettingsParts, SettingsHandler, SettingsIdle
<1>2. ASSUME SaveSection(h) PROVE SettingsInv'
  <2>1. PICK s \in Section : Writes(h, s, fields[s])
    BY <1>2 DEF SaveSection
  <2> DEFINE what == [NoHandler EXCEPT !.what = s, !.value = fields[s]]
  <2>2. /\ what \in HandlerState /\ what.what = s /\ what.op = "write" /\ what.value = fields[s]
        /\ what.snapshot = Nothing /\ what.stage = "sent"
    BY DEF HandlerState, NoHandler
  <2>3. Puts(h, what) /\ IdleForm(s) /\ UNCHANGED <<rows, fields, loaded>>
    BY <1>2, <2>1 DEF SaveSection, Writes, Puts
  <2> HIDE DEF what
  <2>4. /\ story' \in Story /\ story'.edits = story.edits
        /\ story'.crossed = (story.crossed \/ Under("refresh") # {})
    BY <1>2 DEF SaveSection, Story
  <2>5. ~story'.crossed => \A g \in Handler : handler[g].op # "refresh"
    BY <2>4 DEF Under, SettingsInv, UniqueInv
  <2>6. SettingsTypeOK' /\ UniqueInv' /\ EditsInv'
    BY <2>2, <2>3, <2>4, PutKeeps DEF EditsInv
  <2>7. CalmInv'
    BY <2>2, <2>3, <2>4, <2>5, CalmKeeps
  <2> QED
    BY <2>6, <2>7 DEF SettingsInv
<1>3. ASSUME AddRow(h) PROVE SettingsInv'
  <2>1. PICK a \in Addition : Writes(h, a, 0)
    BY <1>3 DEF AddRow
  <2> DEFINE what == [NoHandler EXCEPT !.what = a, !.value = 0]
  <2>2. /\ what \in HandlerState /\ what.what = a /\ what.op = "write" /\ what.value = 0
        /\ what.snapshot = Nothing /\ what.stage = "sent" /\ a \notin Section
    BY DEF HandlerState, NoHandler, Addition, Section
  <2>3. Puts(h, what) /\ IdleForm(a) /\ UNCHANGED <<rows, fields, loaded>>
    BY <1>3, <2>1 DEF AddRow, Writes, Puts
  <2> HIDE DEF what
  <2>4. /\ story' \in Story /\ story'.edits = story.edits /\ story'.crossed = story.crossed
    <3>1. story.adds + 1 \in 0 .. Adds
      BY <1>3, SettingsAssumption DEF AddRow
    <3> QED
      BY <1>3, <3>1 DEF AddRow, Story
  <2>5. SettingsTypeOK' /\ UniqueInv' /\ EditsInv'
    BY <2>2, <2>3, <2>4, PutKeeps DEF EditsInv
  <2>6. CalmInv'
    BY <2>2, <2>3, <2>4, CalmKeeps
  <2> QED
    BY <2>5, <2>6 DEF SettingsInv
<1> QED
  BY <1>2, <1>3

LEMMA WritesEnd ==
  ASSUME SettingsInv, NEW h \in Handler, WriteDone(h) \/ RefreshDone(h) \/ HandlerFailed(h)
  PROVE  SettingsInv'
<1>1. /\ SettingsTypeOK /\ EditsInv /\ loaded \in BOOLEAN
  BY DEF SettingsInv, SettingsTypeOK
<1> USE <1>1, SettingsParts, SettingsHandler, SettingsIdle
<1>2. ASSUME Puts(h, NoHandler), UNCHANGED <<rows, story>>, loaded' \in BOOLEAN,
             \/ UNCHANGED fields
             \/ /\ handler[h].op = "refresh" /\ handler[h].stage = "granted"
                /\ fields' = handler[h].snapshot
      PROVE  SettingsInv'
  <2>1. ~story.crossed => \/ UNCHANGED fields
                          \/ fields' = rows /\ handler[h].op = "refresh"
    BY <1>2 DEF SettingsInv, CalmInv
  <2>2. fields' \in [Section -> Value] /\ \A s \in Section : fields'[s] <= story.edits
    BY <1>2 DEF EditsInv
  <2>3. "none" \notin Section
    BY DEF Section
  <2>4. SettingsTypeOK' /\ UniqueInv' /\ EditsInv'
    BY <1>2, <2>2, PutKeeps DEF EditsInv
  <2>5. CalmInv'
    BY <1>2, <2>1, <2>3, CalmKeeps
  <2> QED
    BY <2>4, <2>5 DEF SettingsInv
<1>3. ASSUME WriteDone(h), Refreshes(handler[h].what) PROVE SettingsInv'
  <2> DEFINE what == [NoHandler EXCEPT !.what = handler[h].what, !.op = "refresh"]
  <2>1. /\ what \in HandlerState /\ what.what = handler[h].what /\ what.op = "refresh"
        /\ what.value = 0 /\ what.snapshot = Nothing /\ what.stage = "sent"
    BY DEF HandlerState, NoHandler
  <2>2. /\ Puts(h, what) /\ handler[h].what # "none" /\ UNCHANGED <<rows, fields, loaded>>
    BY <1>3 DEF WriteDone, Puts
  <2> HIDE DEF what
  <2>3. /\ story' \in Story /\ story'.edits = story.edits
        /\ story'.crossed = (story.crossed \/ \E g \in Under("write") \ {h} :
                                                handler[g].what \in Section)
    BY <1>3 DEF WriteDone, Story
  <2>4. ~story'.crossed => \A g \in Handler \ {h} : ~Saves(g)
    BY <2>3 DEF Under, Saves, Section
  <2>5. SettingsTypeOK' /\ UniqueInv' /\ EditsInv'
    BY <2>1, <2>2, <2>3, PutKeeps DEF EditsInv
  <2>6. CalmInv'
    BY <2>1, <2>2, <2>3, <2>4, CalmKeeps
  <2> QED
    BY <2>5, <2>6 DEF SettingsInv
<1>4. ASSUME WriteDone(h), ~Refreshes(handler[h].what) PROVE SettingsInv'
  BY <1>2, <1>4 DEF WriteDone, Done, Puts
<1>5. ASSUME RefreshDone(h) PROVE SettingsInv'
  BY <1>2, <1>5 DEF RefreshDone, Done, Puts
<1>6. ASSUME HandlerFailed(h) PROVE SettingsInv'
  BY <1>2, <1>6 DEF HandlerFailed, Done, Puts
<1> QED
  BY <1>3, <1>4, <1>5, <1>6

(* The call is answered, or lost.                                           *)
IsServed(call, what) ==
  /\ what.what = call.what /\ what.op = call.op /\ what.value = call.value
  /\ what.snapshot = call.snapshot

LEMMA WritesServedHere ==
  ASSUME SettingsInv, NEW h \in Handler, UpdateRow(h) \/ ReadRows(h) \/ HandlerLost(h)
  PROVE  SettingsInv'
<1>1. /\ SettingsTypeOK /\ EditsInv /\ UniqueInv /\ loaded \in BOOLEAN
  BY DEF SettingsInv, SettingsTypeOK
<1> USE <1>1, SettingsParts, SettingsHandler
<1>2. ASSUME NEW call \in HandlerState, NEW stage \in {"granted", "failed"},
             handler' = [handler EXCEPT ![h] = [call EXCEPT !.stage = stage]]
      PROVE  \E what \in HandlerState : Puts(h, what) /\ IsServed(call, what)
  <2> DEFINE what == [call EXCEPT !.stage = stage]
  <2>1. what \in HandlerState /\ IsServed(call, what)
    BY DEF HandlerState, IsServed
  <2>2. Puts(h, what)
    BY <1>2 DEF Puts
  <2> HIDE DEF what
  <2> QED
    BY <2>1, <2>2
<1>3. ASSUME NEW call \in HandlerState, ServedWith(h, call)
      PROVE  \E what \in HandlerState : Puts(h, what) /\ IsServed(call, what)
  BY <1>2, <1>3 DEF ServedWith
<1>4. ASSUME UpdateRow(h) PROVE SettingsInv'
  <2>1. PICK what \in HandlerState : Puts(h, what) /\ IsServed(handler[h], what)
    BY <1>3, <1>4 DEF UpdateRow
  <2>2. /\ what.what = handler[h].what /\ what.op = "write" /\ handler[h].op = "write"
        /\ what.value = handler[h].value /\ what.snapshot = handler[h].snapshot
        /\ UNCHANGED <<fields, loaded, story>>
    BY <1>4, <2>1 DEF UpdateRow, ServedWith, IsServed
  <2>3. /\ rows' \in [Section -> Value]
        /\ Saves(h) => rows' = [rows EXCEPT ![handler[h].what] = handler[h].value]
        /\ ~Saves(h) => UNCHANGED rows
    BY <1>4, <2>2 DEF UpdateRow, Saves
  <2>4. \A s \in Section : rows'[s] <= story.edits
    BY <2>3 DEF EditsInv
  <2>5. SettingsTypeOK' /\ UniqueInv' /\ EditsInv'
    BY <2>1, <2>2, <2>3, <2>4, PutKeeps DEF EditsInv
  <2>6. CASE ~Saves(h)
    <3>1. CalmInv'
      BY <2>1, <2>2, <2>3, <2>6, CalmKeeps DEF Saves
    <3> QED
      BY <2>5, <3>1 DEF SettingsInv
  <2>7. CASE Saves(h)
    <3>1. /\ handler'[h] = what
          /\ \A g \in Handler \ {h} : handler'[g] = handler[g]
      BY <2>1 DEF Puts, SettingsTypeOK
    <3>2. handler[h].what \in Section /\ rows'[handler[h].what] = handler[h].value
          /\ \A s \in Section \ {handler[h].what} : rows'[s] = rows[s]
      BY <2>3, <2>7 DEF Saves
    <3>3. SUFFICES ASSUME ~story.crossed PROVE CalmInv'
      BY <2>2, <2>5 DEF CalmInv, SettingsInv
    <3>4. \A g \in Handler : handler'[g].op # "refresh"
      BY <2>2, <2>7, <3>1, <3>3 DEF SettingsInv, CalmInv
    <3>5. \A s \in Section : rows'[s] <= fields[s]
      BY <2>7, <3>2, <3>3 DEF SettingsInv, CalmInv
    <3>6. ASSUME NEW g \in Handler, Saves(g)'
          PROVE  /\ rows'[handler'[g].what] <= handler'[g].value
                 /\ handler'[g].value <= fields[handler'[g].what]
      <4>1. CASE g = h
        BY <2>2, <2>7, <3>1, <3>2, <3>3, <4>1 DEF SettingsInv, CalmInv
      <4>2. CASE g # h
        <5>1. handler'[g] = handler[g] /\ Saves(g)
          BY <3>1, <3>6, <4>2 DEF Saves
        <5>2. handler[g].what # handler[h].what
          BY <2>7, <4>2, <5>1 DEF UniqueInv, Saves, Section
        <5> QED
          BY <3>2, <3>3, <5>1, <5>2 DEF SettingsInv, CalmInv, Saves
      <4> QED
        BY <4>1, <4>2
    <3> QED
      BY <2>2, <3>4, <3>5, <3>6 DEF CalmInv
  <2> QED
    BY <2>6, <2>7
<1>5. ASSUME ReadRows(h) PROVE SettingsInv'
  <2> DEFINE read == [handler[h] EXCEPT !.snapshot = rows]
  <2>1. /\ read \in HandlerState /\ read.what = handler[h].what /\ read.op = handler[h].op
        /\ read.value = handler[h].value /\ read.snapshot = rows
    BY DEF HandlerState
  <2>2. /\ ServedWith(h, read) /\ handler[h].op = "refresh" /\ UNCHANGED rows
    BY <1>5 DEF ReadRows
  <2> HIDE DEF read
  <2>3. PICK what \in HandlerState : Puts(h, what) /\ IsServed(read, what)
    BY <1>3, <2>1, <2>2
  <2>4. /\ what.what = handler[h].what /\ what.op = "refresh" /\ what.value = handler[h].value
        /\ what.snapshot = rows /\ UNCHANGED <<fields, loaded, story>>
    BY <2>1, <2>2, <2>3 DEF ServedWith, IsServed
  <2>5. SettingsTypeOK' /\ UniqueInv' /\ EditsInv'
    BY <2>2, <2>3, <2>4, PutKeeps DEF EditsInv, UniqueInv
  <2>6. CalmInv'
    BY <2>2, <2>3, <2>4, CalmKeeps
  <2> QED
    BY <2>5, <2>6 DEF SettingsInv
<1>6. ASSUME HandlerLost(h) PROVE SettingsInv'
  <2>1. handler' = [handler EXCEPT ![h] = [handler[h] EXCEPT !.stage = "failed"]]
        /\ UNCHANGED <<rows, fields, loaded, story>>
    BY <1>6 DEF HandlerLost
  <2> DEFINE what == [handler[h] EXCEPT !.stage = "failed"]
  <2>2. /\ what \in HandlerState /\ what.what = handler[h].what /\ what.op = handler[h].op
        /\ what.value = handler[h].value /\ what.snapshot = handler[h].snapshot
        /\ what.stage = "failed"
    BY DEF HandlerState
  <2>3. Puts(h, what)
    BY <2>1 DEF Puts
  <2> HIDE DEF what
  <2>4. SettingsTypeOK' /\ UniqueInv' /\ EditsInv'
    BY <2>1, <2>2, <2>3, PutKeeps DEF EditsInv, UniqueInv
  <2>5. CalmInv'
    BY <2>1, <2>2, <2>3, CalmKeeps DEF Saves
  <2> QED
    BY <2>4, <2>5 DEF SettingsInv
<1> QED
  BY <1>4, <1>5, <1>6

LEMMA SettingsStay ==
  ASSUME SettingsInv, UNCHANGED settingsVars PROVE SettingsInv'
BY DEF settingsVars, SettingsInv, SettingsTypeOK, UniqueInv, EditsInv, CalmInv, Saves

LEMMA SettingsKeep == SettingsSpec => []SettingsInv
<1>1. SettingsInit => SettingsInv
  BY SettingsStarts
<1>2. SettingsInv /\ [SettingsNext]_settingsVars => SettingsInv'
  BY EditKeeps, WritesStart, WritesEnd, WritesServedHere, SettingsStay
     DEF SettingsNext, HandlerStep
<1> QED
  BY <1>1, <1>2, PTL DEF SettingsSpec

(* What is saved of a section is never older than what the server has,      *)
(* although every load fills all the forms, unless a load crossed a write.  *)
THEOREM SavesForward == SettingsSpec => NothingReverts
<1>1. ASSUME SettingsInv, [SettingsNext]_settingsVars
      PROVE  [\A s \in Section : rows'[s] < rows[s] => story.crossed]_settingsVars
  <2> USE SettingsParts, SettingsHandler DEF SettingsInv
  <2>1. CASE UNCHANGED rows
    BY <1>1, <2>1
  <2>2. ASSUME NEW h \in Handler, UpdateRow(h)
        PROVE  \A s \in Section : rows'[s] < rows[s] => story.crossed
    BY <1>1, <2>2 DEF UpdateRow, CalmInv, Saves
  <2>3. \/ UNCHANGED rows
        \/ \E h \in Handler : UpdateRow(h)
    BY <1>1 DEF SettingsNext, HandlerStep, settingsVars, Edit, SaveSection, AddRow, WriteDone,
                RefreshDone, HandlerFailed, ReadRows, HandlerLost
  <2> QED
    BY <2>1, <2>2, <2>3
<1> QED
  BY <1>1, SettingsKeep, PTL DEF SettingsSpec, NothingReverts
-----------------------------------------------------------------------------
(* The pages side by side.                                                  *)

(* A step of the seller is one of the desk, of the setup or of the          *)
(* settings, or leaves what they own alone; so what is proved of each of    *)
(* them holds of the pages together.                                        *)
THEOREM PagesAreTheirs == Spec => DeskSpec /\ SetupSpec /\ SettingsSpec
<1>1. Init => DeskInit /\ SetupInit /\ SettingsInit
  BY DEF Init
<1>2. [Next]_vars => /\ [DeskNext]_deskVars
                     /\ [SetupNext]_setupVars
                     /\ [SettingsNext]_settingsVars
  BY DEF Next, vars
<1> QED
  BY <1>1, <1>2, PTL DEF Spec, DeskSpec, SetupSpec, SettingsSpec

(* Every reachable state of a seller's pages is well typed.                 *)
THEOREM PagesTypes == Spec => []TypeOK
<1> DEFINE AtOK == at \in {"desk", "setup", "settings"}
<1>1. Init => AtOK
  BY DEF Init
<1>2. AtOK /\ [Next]_vars => AtOK'
  BY DEF Next, vars
<1>3. Spec => []AtOK
  BY <1>1, <1>2, PTL DEF Spec
<1>4. (DeskInv => DeskTypeOK) /\ (SetupInv => SetupTypeOK) /\ (SettingsInv => SettingsTypeOK)
  BY DEF DeskInv, SetupInv, SettingsInv
<1>5. AtOK /\ DeskTypeOK /\ SetupTypeOK /\ SettingsTypeOK => TypeOK
  BY DEF TypeOK
<1> HIDE DEF AtOK
<1> QED
  BY <1>3, <1>4, <1>5, PagesAreTheirs, DeskKeeps, SetupKeeps, SettingsKeep, PTL
=============================================================================
