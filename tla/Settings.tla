------------------------------ MODULE Settings ------------------------------
(***************************************************************************)
(* The settings page of a store: forms for its details, its pickup spot and *)
(* its box, each saved by a button of its own, and forms that add a pickup  *)
(* window, a product or an offering.  All but two of the saves load the     *)
(* whole store again, and every load fills the texts of all forms anew.     *)
(***************************************************************************)
EXTENDS Naturals, FiniteSets

CONSTANTS
  Handler,         \* handlers of the page that can be under way at a time
  Edits,           \* bound: edits of a form
  Adds,            \* bound: rows added
  SettingsFaults   \* what may go wrong: subset of SettingsFault

SettingsFault == {"lost"}

ASSUME SettingsAssumption ==
  /\ Edits \in Nat
  /\ Adds \in Nat
  /\ SettingsFaults \subseteq SettingsFault

VARIABLES
  rows,     \* the value of each section at the server
  fields,   \* the value in the form of each section
  handler,  \* the handlers under way
  loaded,   \* the page has something to show
  story     \* history

settingsVars == <<rows, fields, handler, loaded, story>>

Section == {"store", "location", "box"}
Addition == {"window", "product", "offering"}

(* A value is named by the edit that first typed it; 0 is what was there.   *)
(* A text that was emptied is not among them: it is sent as null, and the   *)
(* server keeps the old one.                                                *)
Value == 0 .. Edits

(* Adding an offering and saving the details do not load the store again.   *)
Refreshes(what) == what \notin {"store", "offering"}

HandlerState == [what : {"none", "page"} \cup Section \cup Addition,
                 op : {"write", "refresh"}, stage : {"sent", "granted", "failed"},
                 value : Value, snapshot : [Section -> Value]]

Nothing == [s \in Section |-> 0]
NoHandler == [what |-> "none", op |-> "write", stage |-> "sent", value |-> 0,
              snapshot |-> Nothing]

(* crossed: the store was loaded while something was being written, or the  *)
(* other way round.                                                         *)
SettingsTypeOK ==
  /\ rows \in [Section -> Value]
  /\ fields \in [Section -> Value]
  /\ handler \in [Handler -> HandlerState]
  /\ loaded \in BOOLEAN
  /\ story \in [edits : Value, adds : 0 .. Adds, crossed : BOOLEAN]

(* The page is mounted and loads the store.                                 *)
SettingsInit ==
  /\ rows = Nothing
  /\ fields = Nothing
  /\ \E first \in Handler :
       handler = [h \in Handler |->
         IF h = first THEN [NoHandler EXCEPT !.what = "page", !.op = "refresh"] ELSE NoHandler]
  /\ loaded = FALSE
  /\ story = [edits |-> 0, adds |-> 0, crossed |-> FALSE]
-----------------------------------------------------------------------------
Under(op) == {h \in Handler : handler[h].what # "none" /\ handler[h].op = op}

Edit ==
  \E s \in Section :
    /\ loaded
    /\ story.edits < Edits
    /\ fields' = [fields EXCEPT ![s] = story.edits + 1]
    /\ story' = [story EXCEPT !.edits = @ + 1]
    /\ UNCHANGED <<rows, handler, loaded>>

(* Mutant of IdleForm: the button of a form is not disabled while it saves.     *)
IdleAlways(what) == TRUE

(* savingStore, savingLocation, savingBox, creatingWindow, ...: lowered     *)
(* when the load that follows has ended too.                                *)
IdleForm(what) == \A h \in Handler : handler[h].what # what

Writes(h, what, value) ==
  /\ loaded
  /\ handler[h].what = "none"
  /\ IdleForm(what)
  /\ handler' = [handler EXCEPT ![h] = [NoHandler EXCEPT !.what = what, !.value = value]]

(* saveStore, saveLocation, saveBox.                                        *)
SaveSection(h) ==
  \E s \in Section :
    /\ Writes(h, s, fields[s])
    /\ story' = [story EXCEPT !.crossed = @ \/ Under("refresh") # {}]
    /\ UNCHANGED <<rows, fields, loaded>>

(* createWindow, createProduct, createOffering.                             *)
AddRow(h) ==
  \E a \in Addition :
    /\ story.adds < Adds
    /\ Writes(h, a, 0)
    /\ story' = [story EXCEPT !.adds = @ + 1]
    /\ UNCHANGED <<rows, fields, loaded>>

Done(h) == handler' = [handler EXCEPT ![h] = NoHandler]

(* A write that was answered is followed by refreshAll, or by nothing.      *)
WriteDone(h) ==
  /\ handler[h].what # "none" /\ handler[h].op = "write" /\ handler[h].stage = "granted"
  /\ IF Refreshes(handler[h].what)
       THEN /\ handler' = [handler EXCEPT ![h] =
                 [NoHandler EXCEPT !.what = handler[h].what, !.op = "refresh"]]
            /\ story' = [story EXCEPT !.crossed =
                 @ \/ \E g \in Under("write") \ {h} : handler[g].what \in Section]
       ELSE Done(h) /\ UNCHANGED story
  /\ UNCHANGED <<rows, fields, loaded>>

(* The texts of every form are what was loaded, also of the one being typed *)
(* in; the coordinates of the pickup spot stay what they are.               *)
RefreshDone(h) ==
  /\ handler[h].op = "refresh" /\ handler[h].stage = "granted"
  /\ fields' = handler[h].snapshot
  /\ loaded' = TRUE
  /\ Done(h)
  /\ UNCHANGED <<rows, story>>

HandlerFailed(h) ==
  /\ handler[h].what # "none" /\ handler[h].stage = "failed"
  /\ Done(h)
  /\ UNCHANGED <<rows, fields, loaded, story>>
-----------------------------------------------------------------------------
(* The server.                                                              *)

ServedWith(h, what) ==
  /\ handler[h].what # "none" /\ handler[h].stage = "sent"
  /\ \/ handler' = [handler EXCEPT ![h] = [what EXCEPT !.stage = "granted"]]
     \/ "lost" \in SettingsFaults /\ handler' = [handler EXCEPT ![h] = [what EXCEPT !.stage = "failed"]]
  /\ UNCHANGED <<fields, loaded, story>>

(* UpdateStore, UpdatePickupLocation and UpdatePlan write all they are sent *)
(* that is not null.                                                        *)
UpdateRow(h) ==
  /\ handler[h].op = "write"
  /\ rows' = IF handler[h].what \in Section
               THEN [rows EXCEPT ![handler[h].what] = handler[h].value]
               ELSE rows
  /\ ServedWith(h, handler[h])

ReadRows(h) ==
  /\ handler[h].op = "refresh"
  /\ ServedWith(h, [handler[h] EXCEPT !.snapshot = rows])
  /\ UNCHANGED rows

HandlerLost(h) ==
  /\ "lost" \in SettingsFaults
  /\ handler[h].what # "none" /\ handler[h].stage = "sent"
  /\ handler' = [handler EXCEPT ![h].stage = "failed"]
  /\ UNCHANGED <<rows, fields, loaded, story>>

HandlerStep(h) ==
  \/ SaveSection(h) \/ AddRow(h)
  \/ WriteDone(h) \/ RefreshDone(h) \/ HandlerFailed(h)
  \/ UpdateRow(h) \/ ReadRows(h) \/ HandlerLost(h)

SettingsNext == Edit \/ \E h \in Handler : HandlerStep(h)

SettingsSpec == SettingsInit /\ [][SettingsNext]_settingsVars
-----------------------------------------------------------------------------
(* NothingReverts: a section never goes back to a value the seller had      *)
(* typed over, although every load fills the texts of all forms, unless a   *)
(* load and a write had crossed.                                            *)
NothingReverts ==
  [][\A s \in Section : rows'[s] < rows[s] => story.crossed]_settingsVars
=============================================================================
