----------------------------- MODULE MCPayments -----------------------------
(***************************************************************************)
(* A small instance of Payments: one order with two links under two        *)
(* overlapping requests.                                                   *)
(***************************************************************************)
EXTENDS Payments

CONSTANTS o1, h1, h2

OneOrder == {o1}
TwoHandlers == {h1, h2}
=============================================================================
