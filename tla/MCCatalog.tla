----------------------------- MODULE MCCatalog -----------------------------
(***************************************************************************)
(* A small instance of Catalog: one listing, two orders, two editors.      *)
(***************************************************************************)
EXTENDS Catalog, TLC

CONSTANTS l1, q1, e1, e2

MCListings == {l1}
MCSupply == l1 :> 2
MCQassobs == {q1}
MCEditors == {e1, e2}

Symmetry == Permutations(MCEditors)
=============================================================================
