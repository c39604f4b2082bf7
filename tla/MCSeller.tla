------------------------------ MODULE MCSeller ------------------------------
(***************************************************************************)
(* Two orders of a pickup window, at most one of them a subscription's, and *)
(* three handlers started over them, two of which may overlap, and the      *)
(* phone; or four writes of the setup; or two edits and an added row in the *)
(* settings.  The handlers of the dashboard and of the setup have the same  *)
(* names, as a visit is to one of them.                                     *)
(***************************************************************************)
EXTENDS Seller, TLC

CONSTANTS o1, o2, s1, s2, h1, h2

TwoOrders == {o1, o2}
TwoScripts == {s1, s2}
TwoHandlers == {h1, h2}
AllDeskFaults == DeskFault
AllSetupFaults == SetupFault
AllSettingsFaults == SettingsFault

Interchangeable ==
  Permutations(TwoOrders) \cup Permutations(TwoScripts) \cup Permutations(TwoHandlers)
=============================================================================
