------------------------------- MODULE MCShop -------------------------------
(***************************************************************************)
(* Small instances of the parts of a shop that share no row with each      *)
(* other: a listing's photo files, a strip of photos, a price log, the     *)
(* cards, the addresses and the notices of a buyer, the markets, the       *)
(* choice of couriers, the payment of two orders.  Each behaviour is one   *)
(* of a single part, so that the state spaces add up instead of            *)
(* multiplying.                                                            *)
(***************************************************************************)
EXTENDS Photos, Gallery, PriceLog, Wallet, Notices, Markets, Dispatch, Payments, TLC

CONSTANTS c1, c2, o1, o2

TwoClients == {c1, c2}
TwoOrders == {o1, o2}

VARIABLE part

svars == <<part, phvars, gvars, plvars, cardvars, addressvars, nvars, mvars, dvars, vars>>

SInit ==
    /\ part \in {"photos", "strip", "prices", "cards", "addresses", "notices", "markets",
                "dispatch", "payments"}
    /\ PhInit /\ GaInit /\ PlInit /\ CardInit /\ AddressInit /\ NInit /\ MaInit /\ DInit /\ Init
    /\ part = "strip" \/ strip = "listing"
    /\ part = "prices" \/ price = 1

SNext ==
    /\ UNCHANGED part
    /\ \/ /\ part = "photos" /\ PhNext
          /\ UNCHANGED <<gvars, plvars, cardvars, addressvars, nvars, mvars, dvars, vars>>
       \/ /\ part = "strip" /\ GaNext
          /\ UNCHANGED <<phvars, plvars, cardvars, addressvars, nvars, mvars, dvars, vars>>
       \/ /\ part = "prices" /\ PlNext
          /\ UNCHANGED <<phvars, gvars, cardvars, addressvars, nvars, mvars, dvars, vars>>
       \/ /\ part = "cards" /\ CardNext
          /\ UNCHANGED <<phvars, gvars, plvars, addressvars, nvars, mvars, dvars, vars>>
       \/ /\ part = "addresses" /\ AddressNext
          /\ UNCHANGED <<phvars, gvars, plvars, cardvars, nvars, mvars, dvars, vars>>
       \/ /\ part = "notices" /\ NNext
          /\ UNCHANGED <<phvars, gvars, plvars, cardvars, addressvars, mvars, dvars, vars>>
       \/ /\ part = "markets" /\ MaNext
          /\ UNCHANGED <<phvars, gvars, plvars, cardvars, addressvars, nvars, dvars, vars>>
       \/ /\ part = "dispatch" /\ DNext
          /\ UNCHANGED <<phvars, gvars, plvars, cardvars, addressvars, nvars, mvars, vars>>
       \/ /\ part = "payments" /\ Next
          /\ UNCHANGED <<phvars, gvars, plvars, cardvars, addressvars, nvars, mvars, dvars>>

SSpec == SInit /\ [][SNext]_svars
=============================================================================
