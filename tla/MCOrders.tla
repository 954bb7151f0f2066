----------------------------- MODULE MCOrders -----------------------------
(***************************************************************************)
(* A small instance of Orders: two listings, l1 sold by weight with a      *)
(* minimum order of 2 and l2 by the head.                                  *)
(***************************************************************************)
EXTENDS Boards, TLC

CONSTANTS l1, l2, q1, q2

MCListings == {l1, l2}
MCSupply == (l1 :> 4) @@ (l2 :> 2)
MCByWeight == {l1}
MCLive == {l2}
MCQassobs == {q1, q2}

Symmetry == Permutations(MCQassobs)
===========================================================================
