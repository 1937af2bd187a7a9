-------------------------- MODULE MCPaymentOrders --------------------------
(***************************************************************************)
(* Instances of PaymentOrders for TLC.  A client may also be the operator  *)
(* of the other kind of order, which no run mixes with its own kind.       *)
(***************************************************************************)
EXTENDS PaymentOrders, TLC

CONSTANTS p1, p2, k1, a1, a2

Anywhere == Label \ {"idle"}
=============================================================================
