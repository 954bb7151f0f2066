---------------------------- MODULE StockLedger ----------------------------
(***************************************************************************)
(* What the order service promises about stock, with no order life cycle   *)
(* in sight: a reservation takes kilograms that are free, once; it is      *)
(* either kept for ever or given back whole, once; and nothing else moves  *)
(* stock.  Orders implements this specification.                           *)
(***************************************************************************)
EXTENDS Integers

CONSTANTS
    Listings,
    Reservations,   \* identities of reservations, each used at most once
    Supply,         \* kilograms free at the start, per listing
    Null

VARIABLES
    free,           \* free[l]:  kilograms of l that can still be reserved
    held,           \* held[r]:  kilograms r has taken, 0 before and after
    taken           \* taken[r]: the listing r has ever taken from, or Null

ledgerVars == <<free, held, taken>>

Init ==
    /\ free = Supply
    /\ held = [r \in Reservations |-> 0]
    /\ taken = [r \in Reservations |-> Null]

\* Take q free kilograms of l for a reservation never used before.
Reserve(r, l, q) ==
    /\ taken[r] = Null
    /\ 0 < q /\ q <= free[l]
    /\ free' = [free EXCEPT ![l] = @ - q]
    /\ held' = [held EXCEPT ![r] = q]
    /\ taken' = [taken EXCEPT ![r] = l]

\* Give a live reservation back, whole.
Return(r) ==
    /\ held[r] > 0
    /\ free' = [free EXCEPT ![taken[r]] = @ + held[r]]
    /\ held' = [held EXCEPT ![r] = 0]
    /\ UNCHANGED taken

Next ==
    \E r \in Reservations :
        \/ \E l \in Listings : \E q \in 1 .. free[l] : Reserve(r, l, q)
        \/ Return(r)

Spec == Init /\ [][Next]_ledgerVars
===========================================================================
