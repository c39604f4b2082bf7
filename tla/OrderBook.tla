----------------------------- MODULE OrderBook ------------------------------
(***************************************************************************)
(* What the marketplace promises about orders, without counters, payments  *)
(* or handlers: each order goes through its statuses once, and the units   *)
(* of open and of collected orders together never exceed what the seller   *)
(* offered.  The paths are those that docs/domain.md and the comment of    *)
(* order_lifecycle_test.go allow, and no others: an order that is ready    *)
(* cannot be canceled.                                                     *)
(***************************************************************************)
EXTENDS Naturals, FiniteSets

CONSTANTS
  Order,
  Offering,
  Stock,      \* units offered
  Qty         \* units each order takes of each offering

VARIABLE status

(* The units of offering f that the orders of S take, one pair for each.    *)
Units(S, f) == UNION {{o} \X (1 .. Qty[o][f]) : o \in S}

Taking == {o \in Order : status[o] \in {"placed", "ready", "picked_up"}}

Init == status = [o \in Order |-> "none"]

Place(o) ==
  /\ status[o] = "none"
  /\ \A f \in Offering :
       Cardinality(Units(Taking, f)) + Qty[o][f] <= Stock[f]
  /\ status' = [status EXCEPT ![o] = "placed"]

Move(o, from, to) ==
  /\ status[o] \in from
  /\ status' = [status EXCEPT ![o] = to]

(* A farm-stand scan collects a placed order that was never marked ready.   *)
Next ==
  \E o \in Order :
     \/ Place(o)
     \/ Move(o, {"placed"}, "ready")
     \/ Move(o, {"placed", "ready"}, "picked_up")
     \/ Move(o, {"ready"}, "no_show")
     \/ Move(o, {"placed"}, "canceled")

Spec == Init /\ [][Next]_status
=============================================================================
