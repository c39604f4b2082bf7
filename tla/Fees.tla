-------------------------------- MODULE Fees --------------------------------
(***************************************************************************)
(* The fee charged for an order that was ready and not collected, and how  *)
(* it is split, in integer cents.                                           *)
(***************************************************************************)
EXTENDS Integers

(* NO_SHOW_FEE_CENTS as UpdateOrderStatus reads it: 500 unless positive.    *)
ConfiguredNoShowFee(configured) == IF configured <= 0 THEN 500 ELSE configured

(* The deposit of the order when it has one, else the configured fee; never *)
(* more than the total that was authorized.                                 *)
NoShowFee(deposit, configured, total) ==
  LET base == IF deposit > 0 THEN deposit ELSE ConfiguredNoShowFee(configured)
  IN  IF total < base THEN total ELSE base

(* The platform's part of a no-show fee, 30% unless configured, rounded     *)
(* down; the seller gets the rest.                                          *)
PlatformShare(captured, splitBps) ==
  (captured * (IF splitBps <= 0 THEN 3000 ELSE splitBps)) \div 10000
=============================================================================
