----------------------------- MODULE MCVisitor ------------------------------
(***************************************************************************)
(* One tab with two requests, which a page may send both at once as the     *)
(* dashboard does, and up to two ways of signing in under way; or one form  *)
(* that the server is asked to make an intent for up to three times, two of *)
(* which may be lost or left behind; or one subscription page with two      *)
(* handlers under way at a time, two changes of status and one of the card. *)
(***************************************************************************)
EXTENDS Visitor

CONSTANTS t1, r1, r2, s1, s2

OneTab == {t1}
TwoRequests == {r1, r2}
TwoScripts == {s1, s2}
AllNetFaults == NetFault
AllMishaps == Mishap
AllPageFaults == PageFault
=============================================================================
