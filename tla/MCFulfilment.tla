---------------------------- MODULE MCFulfilment ----------------------------
(***************************************************************************)
(* A small instance of Fulfilment: two orders, each for all the stock of   *)
(* one listing, and two overlapping requests.  Nobody claims a butcher's   *)
(* job: no step of Fulfilment looks at who did.                            *)
(***************************************************************************)
EXTENDS Fulfilment, Boards, TLC

CONSTANTS l1, h1, h2

MCListings == {l1}
MCSupply == l1 :> 2
NoQassobs == {}
OneHandler == {h1}
TwoHandlers == {h1, h2}

Symmetry == Permutations(TwoHandlers)
=============================================================================
