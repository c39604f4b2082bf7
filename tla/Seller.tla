------------------------------- MODULE Seller -------------------------------
(***************************************************************************)
(* The pages of a seller, side by side: the dashboard with its order list,  *)
(* the pages that set a store up, and its settings.  Each mounts with a     *)
(* state of its own and shares nothing with the others but the server.      *)
(***************************************************************************)
EXTENDS Desk, Setup, Settings

VARIABLE at    \* the page of the visit

vars == <<at, deskVars, setupVars, settingsVars>>

TypeOK ==
  /\ at \in {"desk", "setup", "settings"}
  /\ DeskTypeOK
  /\ SetupTypeOK
  /\ SettingsTypeOK

Init ==
  /\ at \in {"desk", "setup", "settings"}
  /\ DeskInit
  /\ SetupInit
  /\ SettingsInit
  /\ at # "desk" => served = AllPlaced /\ active = {}

Next ==
  \/ at = "desk" /\ DeskNext /\ UNCHANGED <<at, setupVars, settingsVars>>
  \/ at = "setup" /\ SetupNext /\ UNCHANGED <<at, deskVars, settingsVars>>
  \/ at = "settings" /\ SettingsNext /\ UNCHANGED <<at, deskVars, setupVars>>

Spec == Init /\ [][Next]_vars
=============================================================================
