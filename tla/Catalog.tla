------------------------------ MODULE Catalog ------------------------------
(***************************************************************************)
(* Catalog edits (backend/apps/listings/views.py) beside the order service *)
(* layer: PATCH and DELETE of a listing, by API or admin form.             *)
(*                                                                         *)
(* Neither locks the row.  A PATCH loads the listing, sets the fields the  *)
(* client sent and saves ALL columns of its copy; a DELETE counts orders,  *)
(* asks whether there are any, and only then archives or deletes.  Orders  *)
(* are placed, cancelled and moved between these steps.                    *)
(***************************************************************************)
EXTENDS Orders

CONSTANTS
    Editors,        \* BOUND: edit requests being served at the same time
    StockLevels     \* the quantities an editor may type into the form

ASSUME StockLevelsAssumption == StockLevels \subseteq Nat

VARIABLES
    gone,           \* the listings whose row has been deleted
    edit            \* edit[e]: what editor e's request has read so far

cvars == <<listing, order, delivery, gone, edit>>

NoRow == [quantity_kg |-> 0, status |-> "ARCHIVED"]

NoEdit == [kind |-> "idle", listing |-> Null, seen |-> NoRow]

\* "counted": the DELETE has found no active order; "archive" and "delete":
\* it has found that there are orders in history, or none at all.
EditRequest ==
    {NoEdit}
    \cup [kind : {"patch"}, listing : Listings, seen : ListingRow]
    \cup [kind : {"counted", "archive", "delete"}, listing : Listings, seen : {NoRow}]

\* The fields of a PATCH; Null stands for a field that is not in the request.
Fields == [quantity_kg : StockLevels \cup {Null}, status : ListingStatus \cup {Null}]

OrdersOf(l) == {o \in OrderIds : order[o].listing = l}

---------------------------------------------------------------------------
(* PATCH *)

PatchRead(e, l) ==
    /\ edit[e] = NoEdit
    /\ l \notin gone
    /\ edit' = [edit EXCEPT ![e] = [kind |-> "patch", listing |-> l, seen |-> listing[l]]]
    /\ UNCHANGED <<listing, order, delivery, gone>>

\* The copy with the fields that were sent.
Patched(seen, f) ==
    [quantity_kg |-> IF f.quantity_kg = Null THEN seen.quantity_kg ELSE f.quantity_kg,
     status |-> IF f.status = Null THEN seen.status ELSE f.status]

\* save() updates every column; a row that is gone it inserts again.
PatchWrite(e, f) ==
    /\ edit[e].kind = "patch"
    /\ listing' = [listing EXCEPT ![edit[e].listing] = Patched(edit[e].seen, f)]
    /\ gone' = gone \ {edit[e].listing}
    /\ edit' = [edit EXCEPT ![e] = NoEdit]
    /\ UNCHANGED <<order, delivery>>

---------------------------------------------------------------------------
(* DELETE *)

\* NON_TERMINAL of perform_destroy.
NonTerminal == {"PENDING", "CONFIRMED", "PROCESSING", "PROCESSING_BUTCHER",
                "AWAITING_QASSOB", "IN_TRANSIT"}

DestroyCount(e, l) ==
    /\ edit[e] = NoEdit
    /\ l \notin gone
    /\ \A o \in OrdersOf(l) : order[o].status \notin NonTerminal
    /\ edit' = [edit EXCEPT ![e] = [NoEdit EXCEPT !.kind = "counted", !.listing = l]]
    /\ UNCHANGED <<listing, order, delivery, gone>>

DestroyDecide(e) ==
    /\ edit[e].kind = "counted"
    /\ edit' = [edit EXCEPT ![e].kind =
                   IF OrdersOf(edit[e].listing) # {} THEN "archive" ELSE "delete"]
    /\ UNCHANGED <<listing, order, delivery, gone>>

\* save(update_fields=("status", ...)): an error if the row is gone by now.
DestroyArchive(e) ==
    /\ edit[e].kind = "archive"
    /\ listing' = IF edit[e].listing \in gone THEN listing
                  ELSE [listing EXCEPT ![edit[e].listing].status = "ARCHIVED"]
    /\ edit' = [edit EXCEPT ![e] = NoEdit]
    /\ UNCHANGED <<order, delivery, gone>>

\* Mutant of DestroyDelete: the foreign key does not protect the row.
DestroyDelete_Cascade(e) ==
    /\ edit[e].kind = "delete"
    /\ gone' = gone \cup {edit[e].listing}
    /\ edit' = [edit EXCEPT ![e] = NoEdit]
    /\ UNCHANGED <<listing, order, delivery>>

\* Order.listing is PROTECT: deleting a row that an order has come to
\* reference in the meantime is an error.
DestroyDelete(e) ==
    /\ edit[e].kind = "delete"
    /\ gone' = IF OrdersOf(edit[e].listing) # {} THEN gone
               ELSE gone \cup {edit[e].listing}
    /\ edit' = [edit EXCEPT ![e] = NoEdit]
    /\ UNCHANGED <<listing, order, delivery>>

---------------------------------------------------------------------------

CInit ==
    /\ Init
    /\ gone = {}
    /\ edit = [e \in Editors |-> NoEdit]

\* The order service, which finds no listing that is gone.
OrderStep ==
    /\ Next
    /\ \A o \in OrderIds : order'[o].listing \in gone => order[o].listing \in gone
    /\ UNCHANGED <<gone, edit>>

EditStep(e) ==
    \/ \E l \in Listings : PatchRead(e, l) \/ DestroyCount(e, l)
    \/ \E f \in Fields : PatchWrite(e, f)
    \/ DestroyDecide(e)
    \/ DestroyArchive(e)
    \/ DestroyDelete(e)

CNext == OrderStep \/ \E e \in Editors : EditStep(e)

CSpec == CInit /\ [][CNext]_cvars

---------------------------------------------------------------------------
(* Properties *)

\* Types; in particular the stock of a listing stays non-negative although
\* edits overwrite it with numbers that orders have since made out of date.
CTypeOK ==
    /\ TypeOK
    /\ gone \subseteq Listings
    /\ edit \in [Editors -> EditRequest]

\* The listing of an order exists ("soft-delete ... the historical Order rows
\* keep their FK", listings/views.py), though the test for orders and the
\* deletion are separate steps and an order can be placed between them.
OrdersKeepTheirListing ==
    \A o \in OrderIds : Placed(o) => order[o].listing \notin gone

\* Orders never bring an archived listing back on sale: cancelling one returns
\* its kilograms but only an editor's PATCH can make the listing orderable.
OrdersDoNotUnarchive ==
    [][\A l \in Listings :
           /\ listing[l].status = "ARCHIVED"
           /\ \A e \in Editors : edit[e].kind = "patch" => edit[e].listing # l
           => listing'[l].status = "ARCHIVED"]_cvars

\* The shelf and the live orders of a listing stop adding up to its supply only
\* in a PATCH, and only one that writes another quantity than the row holds at
\* that moment: a restock, or a copy that an order has outdated.
Overwrites(e, f) ==
    /\ PatchWrite(e, f)
    /\ Patched(edit[e].seen, f).quantity_kg # listing[edit[e].listing].quantity_kg

OnlyPatchBreaksTheBooks ==
    [][StockConserved =>
           StockConserved' \/ \E e \in Editors, f \in Fields : Overwrites(e, f)]_cvars

---------------------------------------------------------------------------
(* What the repository says and the code does not do *)

\* listings/views.py: "Any NON-terminal order [...] 400".  A DELETE gets past its
\* count only when every order of the listing is terminal.
DestroyRefusesActiveOrders ==
    [][\A e \in Editors, l \in Listings :
           DestroyCount(e, l) => \A o \in OrdersOf(l) : order[o].status \in Terminal]_cvars
=============================================================================
