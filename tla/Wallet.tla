------------------------------- MODULE Wallet -------------------------------
(***************************************************************************)
(* What a buyer saves for the next checkout, and which of it is the        *)
(* default: payment cards (backend/apps/payments/cards.py, models.py) and  *)
(* delivery addresses (backend/apps/buyers).  All the rows are one user's. *)
(*                                                                         *)
(* At most one card is the default by a partial unique index; for the      *)
(* addresses SavedAddress.save() clears the others.  Only make_default is  *)
(* a transaction: everything else is one step per statement, and a card    *)
(* request may die between two.                                            *)
(***************************************************************************)
EXTENDS Integers

CONSTANTS
    MaxRows,        \* BOUND: cards ever added, addresses ever added
    Phones          \* BOUND: requests of the user being served at a time

RowIds == 1 .. MaxRows

ASSUME MaxRowsAssumption == MaxRows \in Nat

VARIABLES
    card,           \* card[i]: "absent", "plain", "default" or "deleted"
    paying,         \* paying[p]: the card request of phone p
    address,        \* address[i]: like card[i]
    moving          \* moving[p]: the address request of phone p

cardvars == <<card, paying>>
addressvars == <<address, moving>>

Saved == {"plain", "default"}

SavedRows(rows) == {i \in RowIds : rows[i] \in Saved}

Defaults(rows) == {i \in RowIds : rows[i] = "default"}

\* UPDATE ... SET is_default = FALSE of the default rows but those in keep.
Cleared(rows, keep) ==
    [i \in RowIds |-> IF rows[i] = "default" /\ i \notin keep THEN "plain" ELSE rows[i]]

\* The next primary key.
NextRow(rows, i) == rows[i] = "absent" /\ \A j \in 1 .. i - 1 : rows[j] # "absent"

---------------------------------------------------------------------------
(* Cards *)

NoRequest == [at |-> "none", row |-> 0, is_default |-> FALSE, stale |-> FALSE]

Answer(p) == paying' = [paying EXCEPT ![p] = NoRequest]

\* CardListCreateView.post: the first card is the default, others on demand.
AddCardRead(p, make_default) ==
    /\ paying[p] = NoRequest
    /\ \E i \in RowIds : NextRow(card, i)
    /\ paying' = [paying EXCEPT ![p] = [NoRequest EXCEPT
           !.at = IF SavedRows(card) = {} \/ make_default THEN "clear" ELSE "create",
           !.is_default = SavedRows(card) = {} \/ make_default]]
    /\ UNCHANGED card

AddCardClear(p) ==
    /\ paying[p].at = "clear"
    /\ card' = Cleared(card, {})
    /\ paying' = [paying EXCEPT ![p].at = "create"]

\* The index refuses a second default: the request fails, the clearing stays.
AddCardCreate(p) ==
    /\ paying[p].at = "create"
    /\ \E i \in RowIds :
           /\ NextRow(card, i)
           /\ card' = IF paying[p].is_default /\ Defaults(card) # {} THEN card
                      ELSE [card EXCEPT ![i] = IF paying[p].is_default THEN "default" ELSE "plain"]
    /\ Answer(p)

\* The worker is killed or the database is lost: what was committed stays.
CardRequestDies(p) ==
    /\ paying[p] # NoRequest
    /\ Answer(p)
    /\ UNCHANGED card

\* CardSetDefaultView loads the card ...
SetDefaultRead(p, i) ==
    /\ paying[p] = NoRequest
    /\ card[i] \in Saved
    /\ paying' = [paying EXCEPT ![p] = [NoRequest EXCEPT
           !.at = "promote", !.row = i, !.is_default = card[i] = "default"]]
    /\ UNCHANGED card

\* Mutant of Promoted: the card is saved only if no other was the default.
Promoted_Unless(rows, i, was_default) ==
    IF was_default \/ Defaults(rows) # {} THEN Cleared(rows, {i})
    ELSE [Cleared(rows, {i}) EXCEPT ![i] = "default"]

\* ... and Card.make_default clears the others and saves it, unless the copy
\* says that it is the default already.
Promoted(rows, i, was_default) ==
    IF was_default THEN Cleared(rows, {i})
    ELSE [Cleared(rows, {i}) EXCEPT ![i] = "default"]

\* Rolled back if the card is gone, or if another request's default shows up
\* between the two statements.
SetDefaultWrite(p) ==
    /\ paying[p].at = "promote"
    /\ \/ /\ card[paying[p].row] \in Saved \/ paying[p].is_default
          /\ card' = Promoted(card, paying[p].row, paying[p].is_default)
       \/ /\ card[paying[p].row] \notin Saved \/ \E q \in Phones \ {p} : paying[q] # NoRequest
          /\ UNCHANGED card
    /\ Answer(p)

\* CardDeleteView.
DeleteCard(i) ==
    /\ card[i] \in Saved
    /\ card' = [card EXCEPT ![i] = "deleted"]
    /\ UNCHANGED paying

CardInit ==
    /\ card = [i \in RowIds |-> "absent"]
    /\ paying = [p \in Phones |-> NoRequest]

CardNext ==
    \/ \E p \in Phones :
           \/ \E make_default \in BOOLEAN : AddCardRead(p, make_default)
           \/ AddCardClear(p) \/ AddCardCreate(p)
           \/ \E i \in RowIds : SetDefaultRead(p, i)
           \/ SetDefaultWrite(p) \/ CardRequestDies(p)
    \/ \E i \in RowIds : DeleteCard(i)

CardSpec == CardInit /\ [][CardNext]_cardvars

---------------------------------------------------------------------------
(* Addresses *)

\* The request that saves an address: row 0 is a new one.  A PATCH saves every
\* column of the copy it loaded, whether or not is_default was posted.
LoadAddress(p, i, is_default) ==
    /\ moving[p] = NoRequest
    /\ i \in {0} \cup SavedRows(address)
    /\ moving' = [moving EXCEPT ![p] = [NoRequest EXCEPT
           !.at = IF is_default THEN "clear" ELSE "save", !.row = i, !.is_default = is_default]]
    /\ UNCHANGED address

\* Mutant of ClearOthers: the newest address is not looked for.
ClearOthers_First(p) ==
    /\ moving[p].at = "clear"
    /\ address' = [i \in RowIds |-> IF i # moving[p].row /\ address[i] = "default"
                                       /\ \A j \in 1 .. i - 1 : address[j] # "default"
                                    THEN "plain" ELSE address[i]]
    /\ moving' = [moving EXCEPT ![p].at = "save"]

\* SavedAddress.save() of a default: first the siblings are cleared ...
ClearOthers(p) ==
    /\ moving[p].at = "clear"
    /\ address' = Cleared(address, {moving[p].row})
    /\ moving' = [moving EXCEPT ![p].at = "save"]

\* ... then the row is written: inserted if it is new, and an UPDATE that finds
\* no row is followed by an INSERT, so a deleted address comes back.
SaveAddress(p) ==
    /\ moving[p].at = "save"
    /\ \E i \in RowIds :
           /\ IF moving[p].row = 0 THEN NextRow(address, i) ELSE i = moving[p].row
           /\ address' = [address EXCEPT ![i] = IF moving[p].is_default THEN "default" ELSE "plain"]
    /\ moving' = [q \in Phones |-> IF q = p THEN NoRequest
                                   ELSE [moving[q] EXCEPT !.stale = moving[q] # NoRequest]]

DeleteAddress(i) ==
    /\ address[i] \in Saved
    /\ address' = [address EXCEPT ![i] = "deleted"]
    /\ UNCHANGED moving

AddressInit == address = [i \in RowIds |-> "absent"] /\ moving = [p \in Phones |-> NoRequest]

AddressNext ==
    \/ \E p \in Phones :
           \/ \E i \in RowIds \cup {0}, is_default \in BOOLEAN : LoadAddress(p, i, is_default)
           \/ ClearOthers(p) \/ SaveAddress(p)
    \/ \E i \in RowIds : DeleteAddress(i)

AddressSpec == AddressInit /\ [][AddressNext]_addressvars

---------------------------------------------------------------------------
(* Properties *)

\* The request that has cleared the old default and not yet saved its own card.
Between(p) == paying[p].at = "create" /\ paying[p].is_default

NoDefault ==
    SavedRows(card) # {} /\ Defaults(card) = {} /\ ~\E p \in Phones : Between(p)

\* "Exactly one is_default" (payments/models.py).  The ways in which a user with
\* cards comes to have none: he deletes the default one; a request dies between
\* clearing the old default and creating the new card; a promotion whose copy
\* said that its card was the default already, which it no longer is; a card
\* added as one more is the only one, the others having been deleted since.
OnlyMishapsLoseTheDefault ==
    [][NoDefault' /\ ~NoDefault =>
           \/ \E i \in RowIds : DeleteCard(i) /\ card[i] = "default"
           \/ \E p \in Phones :
                  \/ CardRequestDies(p) /\ Between(p)
                  \/ /\ SetDefaultWrite(p)
                     /\ paying[p].is_default /\ card[paying[p].row] # "default"
                  \/ AddCardCreate(p) /\ ~paying[p].is_default /\ SavedRows(card) = {}]_cardvars

\* "At most one per user at save() time" (buyers/models.py): overlapping saves
\* can leave two default addresses, but whatever they left, the next save of a
\* default that no other save overtakes leaves exactly that one.
DefaultAddressHeals ==
    [][\A p \in Phones : SaveAddress(p) /\ moving[p].is_default /\ ~moving[p].stale
           => \E i \in RowIds : Defaults(address') = {i} /\ moving[p].row \in {0, i}]_addressvars
=============================================================================
