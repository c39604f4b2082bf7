------------------------------- MODULE Setup --------------------------------
(***************************************************************************)
(* The pages that lead a new seller from a store without anything to one    *)
(* that is live: the dashboard, which sends a store that is not live to the *)
(* setup, the setup page, which finds the step to go on with, and the steps *)
(* location, box, payouts and review.  Every page loads what it shows when  *)
(* it is mounted; what it loads after it was left is dropped.               *)
(***************************************************************************)
EXTENDS Naturals, FiniteSets

CONSTANTS
  Saver,        \* handlers of these pages that can be under way at a time
  SavePresses,  \* bound: buttons pressed that write
  SetupFaults   \* what may go wrong: subset of SetupFault

SetupFault == {"lost"}

ASSUME SetupAssumption ==
  /\ SavePresses \in Nat
  /\ SetupFaults \subseteq SetupFault

VARIABLES
  store,    \* what the server has of the store
  wizard,   \* the page that is shown
  saver,    \* the handlers under way
  trail     \* history

setupVars == <<store, wizard, saver, trail>>

Step == {"location", "box", "payouts", "review"}
WizardPage == {"dashboard", "setup"} \cup Step
ConnectStatus == {"none", "onboarding", "active"}

StoreRow == [locations : 0 .. SavePresses, plans : 0 .. SavePresses, live : BOOLEAN,
             connect : ConnectStatus]

(* What the lists and the Connect status tell a page.                       *)
Facts == [location : BOOLEAN, plan : BOOLEAN, live : BOOLEAN, connect : ConnectStatus]
NoFacts == [location |-> FALSE, plan |-> FALSE, live |-> FALSE, connect |-> "none"]

(* existing: the form edits a row that is there; ready: the box's location, *)
(* or the plan to launch, is known; going: where the router was told to go. *)
Wizard == [at : WizardPage, load : {"sent", "granted", "failed", "done"}, saw : Facts,
           existing : BOOLEAN, ready : BOOLEAN, saving : BOOLEAN, launched : BOOLEAN,
           going : WizardPage \cup {"stay"}]

Mounted(p) ==
  [at |-> p, load |-> "sent", saw |-> NoFacts, existing |-> FALSE, ready |-> FALSE,
   saving |-> FALSE, launched |-> FALSE, going |-> "stay"]

(* own: the page that started the handler is still mounted.                 *)
SaverState == [at : {"none"} \cup Step, creates : BOOLEAN, own : BOOLEAN,
               stage : {"sent", "granted", "failed"}]
NoSaver == [at |-> "none", creates |-> FALSE, own |-> FALSE, stage |-> "sent"]

(* hops: pages the router has gone through on its own; excused: a write was *)
(* lost, or its page left before it was answered.                           *)
SetupTypeOK ==
  /\ store \in StoreRow
  /\ wizard \in Wizard
  /\ saver \in [Saver -> SaverState]
  /\ trail \in [presses : 0 .. SavePresses, hops : Nat, excused : BOOLEAN]

(* A store just made.                                                       *)
SetupInit ==
  /\ store = [locations |-> 0, plans |-> 0, live |-> FALSE, connect |-> "none"]
  /\ wizard = Mounted("setup")
  /\ saver = [s \in Saver |-> NoSaver]
  /\ trail = [presses |-> 0, hops |-> 0, excused |-> FALSE]
-----------------------------------------------------------------------------
(* Pages and their loads.                                                   *)

Orphaned == [s \in Saver |-> [saver[s] EXCEPT !.own = FALSE]]
Leaving == trail.excused \/ wizard.saving

(* The dashboard is for a store with a live plan.                           *)
GateOpen(saw) == saw.live

(* The setup page looks for a plan that is live, not one that is active.    *)
HasLive(saw) == saw.live

(* Mutant of Redirect: the setup page looks for the plan before the place.  *)
RedirectPlanFirst(at, saw) ==
  CASE at = "dashboard" -> IF GateOpen(saw) THEN "stay" ELSE "setup"
    [] at = "setup" -> IF ~saw.plan THEN "box"
                       ELSE IF ~saw.location THEN "location"
                       ELSE IF HasLive(saw) THEN "dashboard" ELSE "review"
    [] at \in {"box", "review"} /\ ~saw.location -> "location"
    [] at = "review" /\ saw.location /\ ~saw.plan -> "box"
    [] OTHER -> "stay"

(* Where a page sends the seller once it has loaded.                        *)
Redirect(at, saw) ==
  CASE at = "dashboard" -> IF GateOpen(saw) THEN "stay" ELSE "setup"
    [] at = "setup" -> IF ~saw.location THEN "location"
                       ELSE IF ~saw.plan THEN "box"
                       ELSE IF HasLive(saw) THEN "dashboard"
                       ELSE IF saw.connect # "active" THEN "payouts"
                       ELSE "review"
    [] at \in {"box", "review"} /\ ~saw.location -> "location"
    [] at = "review" /\ saw.location /\ ~saw.plan -> "box"
    [] OTHER -> "stay"

(* By a link, the browser's history or an address.                          *)
OpenWizard ==
  \E p \in WizardPage :
    /\ wizard' = Mounted(p)
    /\ saver' = Orphaned
    /\ trail' = [trail EXCEPT !.hops = 0, !.excused = Leaving]
    /\ UNCHANGED store

(* The router arrives where a load or a save has sent it.                   *)
Arrive ==
  /\ wizard.going # "stay"
  /\ wizard' = Mounted(wizard.going)
  /\ saver' = Orphaned
  /\ trail' = [trail EXCEPT !.hops = @ + 1, !.excused = Leaving]
  /\ UNCHANGED store

(* The lists and the status, asked for together, are read as of one moment. *)
(* A status of Connect that cannot be had counts as none.                   *)
LoadServed ==
  /\ wizard.load = "sent"
  /\ \E connect \in {store.connect} \cup (IF SetupFaults = {} THEN {} ELSE {"none"}) :
       wizard' = [wizard EXCEPT !.load = "granted",
         !.saw = [location |-> store.locations > 0, plan |-> store.plans > 0,
                  live |-> store.live, connect |-> connect]]
  /\ UNCHANGED <<store, saver, trail>>

LoadLost ==
  /\ "lost" \in SetupFaults
  /\ wizard.load = "sent"
  /\ wizard' = [wizard EXCEPT !.load = "failed"]
  /\ UNCHANGED <<store, saver, trail>>

(* The form takes the first row there is.                                   *)
Known(at, saw) == \/ at = "location" /\ saw.location
                  \/ at = "box" /\ saw.plan

LoadAnswered ==
  /\ wizard.load = "granted"
  /\ LET to == Redirect(wizard.at, wizard.saw)
     IN wizard' = [wizard EXCEPT !.load = "done", !.going = to,
          !.existing = Known(wizard.at, wizard.saw),
          !.ready = to = "stay"]
  /\ UNCHANGED <<store, saver, trail>>

(* Mutant of LoadFailed: a store that cannot be had does not count as one   *)
(* that is not live.                                                        *)
LoadFailedLive ==
  /\ wizard.load = "failed"
  /\ wizard' = [wizard EXCEPT !.load = "done", !.launched = wizard.at = "review"]
  /\ UNCHANGED <<store, saver, trail>>

(* The page shows its form with what it has, that is nothing.               *)
LoadFailed ==
  /\ wizard.load = "failed"
  /\ wizard' = [wizard EXCEPT !.load = "done"]
  /\ UNCHANGED <<store, saver, trail>>
-----------------------------------------------------------------------------
(* Writes.                                                                  *)

(* Mutant of Pressable: the button stays enabled while it saves.            *)
PressableTwice(at) ==
  /\ wizard.at = at
  /\ wizard.load = "done"

Pressable(at) ==
  /\ wizard.at = at
  /\ wizard.load = "done"
  /\ ~wizard.saving

Press(s, at, creates) ==
  /\ saver[s].at = "none"
  /\ trail.presses < SavePresses
  /\ saver' = [saver EXCEPT ![s] = [at |-> at, creates |-> creates, own |-> TRUE,
                                    stage |-> "sent"]]
  /\ wizard' = [wizard EXCEPT !.saving = TRUE]
  /\ trail' = [trail EXCEPT !.presses = @ + 1, !.hops = 0]
  /\ UNCHANGED store

(* The form works without the list it should have been filled from.         *)
SaveSpot(s) == Pressable("location") /\ Press(s, "location", ~wizard.existing)

SaveBox(s) == Pressable("box") /\ wizard.ready /\ Press(s, "box", ~wizard.existing)

(* The payouts page offers it to a seller who has not begun.                *)
Connect(s) == Pressable("payouts") /\ wizard.saw.connect = "none" /\ Press(s, "payouts", FALSE)

Launch(s) ==
  Pressable("review") /\ wizard.ready /\ ~wizard.launched /\ Press(s, "review", FALSE)

(* What a write does to the row.  A launch needs a plan and Connect.        *)
Written(w) ==
  CASE w.at = "location" -> [store EXCEPT !.locations = IF w.creates THEN @ + 1 ELSE @]
    [] w.at = "box" -> [store EXCEPT !.plans = IF w.creates THEN @ + 1 ELSE @]
    [] w.at = "payouts" -> [store EXCEPT !.connect = IF @ = "none" THEN "onboarding" ELSE @]
    [] OTHER -> [store EXCEPT !.live = TRUE]

Writable(w) == w.at = "review" => store.plans > 0 /\ store.connect = "active"

WriteServed(s) ==
  /\ saver[s].at # "none" /\ saver[s].stage = "sent"
  /\ Writable(saver[s])
  /\ store' = Written(saver[s])
  /\ \/ saver' = [saver EXCEPT ![s].stage = "granted"] /\ UNCHANGED trail
     \/ /\ "lost" \in SetupFaults
        /\ saver' = [saver EXCEPT ![s].stage = "failed"]
        /\ trail' = [trail EXCEPT !.excused = TRUE]
  /\ UNCHANGED wizard

WriteRefused(s) ==
  /\ saver[s].at # "none" /\ saver[s].stage = "sent"
  /\ ~Writable(saver[s]) \/ "lost" \in SetupFaults
  /\ saver' = [saver EXCEPT ![s].stage = "failed"]
  /\ UNCHANGED <<store, wizard, trail>>

(* Mutant of Pushed: a page that does not exist.                            *)
PushedUnknown(w) == IF w.at = "location" THEN "plan" ELSE wizard.going

(* The router is told where to go whatever page is shown by now; the rest   *)
(* is for the page that pressed.                                            *)
Pushed(w) ==
  CASE w.at = "location" -> "box"
    [] w.at = "box" /\ ~w.creates -> "payouts"
    [] OTHER -> wizard.going

WriteAnswered(s) ==
  LET w == saver[s] IN
  /\ w.at # "none" /\ w.stage = "granted"
  /\ wizard' = [wizard EXCEPT !.going = Pushed(w),
       !.saving = @ /\ ~w.own,
       !.saw.connect = IF w.own /\ w.at = "payouts" THEN "onboarding" ELSE @,
       !.existing = @ \/ (w.own /\ w.at = "box"),
       !.launched = @ \/ (w.own /\ w.at = "review")]
  /\ saver' = [saver EXCEPT ![s] = NoSaver]
  /\ trail' = [trail EXCEPT !.hops = 0]
  /\ UNCHANGED store

Unsaved(w) == wizard' = [wizard EXCEPT !.saving = @ /\ ~w.own]

WriteFailed(s) ==
  /\ saver[s].at # "none" /\ saver[s].stage = "failed"
  /\ Unsaved(saver[s])
  /\ saver' = [saver EXCEPT ![s] = NoSaver]
  /\ UNCHANGED <<store, trail>>

(* Stripe has what it needs (account.updated, or a status asked for).       *)
ConnectActivates ==
  /\ store.connect = "onboarding"
  /\ store' = [store EXCEPT !.connect = "active"]
  /\ UNCHANGED <<wizard, saver, trail>>

SaverStep(s) ==
  \/ SaveSpot(s) \/ SaveBox(s) \/ Connect(s) \/ Launch(s)
  \/ WriteServed(s) \/ WriteRefused(s) \/ WriteAnswered(s) \/ WriteFailed(s)

SetupNext ==
  \/ OpenWizard \/ Arrive \/ LoadServed \/ LoadLost \/ LoadAnswered \/ LoadFailed
  \/ \E s \in Saver : SaverStep(s)
  \/ ConnectActivates

SetupSpec == SetupInit /\ [][SetupNext]_setupVars
-----------------------------------------------------------------------------
(* Settles: the dashboard, the setup page and the steps do not send the     *)
(* seller round in circles: two pages at most follow each other on their    *)
(* own, whatever other handlers and Stripe change underneath.               *)
Settles == trail.hops <= 2

(* OneBox: the wizard makes one plan for the store, however often the       *)
(* seller goes back, forth and presses, unless a write was lost or its page *)
(* left while it was under way.                                             *)
OneBox == store.plans <= 1 \/ trail.excused

(* LaunchedIsLive: the page says "You're live!" only of a store that is.    *)
LaunchedIsLive == wizard.launched => store.live
=============================================================================
