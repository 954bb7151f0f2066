--------------------------- MODULE CatalogProofs ---------------------------
(***************************************************************************)
(* Proofs about Catalog, for any catalog, any number of orders and any     *)
(* number of edits in flight.                                              *)
(***************************************************************************)
EXTENDS Catalog, OrdersProofs

\* QuantityInv (of OrdersProofs) is there for one of its parts: an order that is
\* not placed refers to no listing.
CInv == CTypeOK /\ QuantityInv /\ OrdersKeepTheirListing

\* What an edit request in flight is about.
LEMMA EditTypes ==
    ASSUME CTypeOK, NEW e \in Editors
    PROVE  /\ edit[e].kind # "idle" => edit[e].listing \in Listings
           /\ edit[e].kind = "patch" => edit[e].seen \in ListingRow
BY DEF CTypeOK, EditRequest, NoEdit

\* A PATCH stores a row of the right type, whatever it has read.
LEMMA PatchedIsRow ==
    ASSUME NEW seen \in ListingRow, NEW f \in Fields
    PROVE  Patched(seen, f) \in ListingRow
BY StockLevelsAssumption DEF Patched, Fields, ListingRow

\* Edits touch no order and no delivery.
LEMMA EditsLeaveOrders ==
    ASSUME NEW e \in Editors, EditStep(e)
    PROVE  order' = order /\ delivery' = delivery
BY DEF EditStep, PatchRead, PatchWrite, DestroyCount, DestroyDecide, DestroyArchive, DestroyDelete

\* Only a PATCH writes a quantity or brings a listing back.
LEMMA WhatEditsWrite ==
    ASSUME CTypeOK, NEW e \in Editors, EditStep(e),
           ~ \E f \in Fields : PatchWrite(e, f)
    PROVE  /\ \A l \in Listings : /\ listing'[l].quantity_kg = listing[l].quantity_kg
                                  /\ listing'[l].status \in {listing[l].status, "ARCHIVED"}
           /\ listing' \in [Listings -> ListingRow]
<1>1. CASE DestroyArchive(e)
  <2>1. edit[e].listing \in Listings
    BY <1>1, EditTypes DEF DestroyArchive
  <2> QED
    BY <1>1, <2>1 DEF DestroyArchive, CTypeOK, TypeOK, ListingRow, ListingStatus
<1>2. CASE ~DestroyArchive(e)
  BY <1>2 DEF EditStep, PatchRead, DestroyCount, DestroyDecide, DestroyDelete, CTypeOK, TypeOK
<1> QED
  BY <1>1, <1>2

\* The requests an edit step leaves behind, and the rows it removes.
LEMMA EditKeepsRequestTypes ==
    ASSUME CTypeOK, NEW e \in Editors, EditStep(e)
    PROVE  gone' \subseteq Listings /\ edit' \in [Editors -> EditRequest]
<1> edit[e] \in EditRequest
  BY DEF CTypeOK
<1>1. ASSUME NEW l \in Listings, PatchRead(e, l)
      PROVE  gone' \subseteq Listings /\ edit' \in [Editors -> EditRequest]
  BY <1>1 DEF PatchRead, CTypeOK, TypeOK, EditRequest
<1>2. ASSUME NEW l \in Listings, DestroyCount(e, l)
      PROVE  gone' \subseteq Listings /\ edit' \in [Editors -> EditRequest]
  BY <1>2 DEF DestroyCount, CTypeOK, EditRequest, NoEdit
<1>3. CASE DestroyDecide(e)
  <2>1. [edit[e] EXCEPT !.kind = "archive"] \in EditRequest
        /\ [edit[e] EXCEPT !.kind = "delete"] \in EditRequest
    BY <1>3 DEF DestroyDecide, EditRequest, NoEdit
  <2> QED
    BY <1>3, <2>1 DEF DestroyDecide, CTypeOK
<1>4. ASSUME NEW f \in Fields, PatchWrite(e, f)
      PROVE  gone' \subseteq Listings /\ edit' \in [Editors -> EditRequest]
  BY <1>4 DEF PatchWrite, CTypeOK, EditRequest
<1>5. CASE DestroyArchive(e)
  BY <1>5 DEF DestroyArchive, CTypeOK, EditRequest
<1>6. CASE DestroyDelete(e)
  <2>1. edit[e].listing \in Listings
    BY <1>6, EditTypes DEF DestroyDelete
  <2> QED
    BY <1>6, <2>1 DEF DestroyDelete, CTypeOK, EditRequest
<1> QED
  BY <1>1, <1>2, <1>3, <1>4, <1>5, <1>6 DEF EditStep

\* An edit keeps the types of the rows.
LEMMA EditTypeOK ==
    ASSUME CTypeOK, NEW e \in Editors, EditStep(e)
    PROVE  CTypeOK'
<1>1. listing' \in [Listings -> ListingRow]
  <2>1. ASSUME NEW f \in Fields, PatchWrite(e, f)
        PROVE  listing' \in [Listings -> ListingRow]
    <3>1. edit[e].listing \in Listings /\ edit[e].seen \in ListingRow
      BY <2>1, EditTypes DEF PatchWrite
    <3> QED
      BY <2>1, <3>1, PatchedIsRow DEF PatchWrite, CTypeOK, TypeOK
  <2> QED
    BY <2>1, WhatEditsWrite
<1>2. TypeOK'
  BY <1>1, EditsLeaveOrders DEF CTypeOK, TypeOK, Placed
<1> QED
  BY <1>2, EditKeepsRequestTypes DEF CTypeOK

\* An edit never deletes the row of a listing that an order refers to.
LEMMA EditKeepsListings ==
    ASSUME CInv, NEW e \in Editors, EditStep(e)
    PROVE  OrdersKeepTheirListing'
<1>1. ASSUME NEW l \in gone', l \notin gone
      PROVE  OrdersOf(l) = {}
  BY <1>1 DEF EditStep, PatchRead, PatchWrite, DestroyCount, DestroyDecide, DestroyArchive,
              DestroyDelete
<1> QED
  BY <1>1, EditsLeaveOrders DEF CInv, OrdersKeepTheirListing, OrdersOf, Placed

\* The order service keeps the invariant: a new order finds its listing.
LEMMA OrderStepCInv ==
    ASSUME CInv, OrderStep
    PROVE  CInv'
<1>1. CTypeOK' /\ QuantityInv'
  BY NextTypeOK, NextQuantityInv DEF CInv, CTypeOK, OrderStep
<1>2. OrdersKeepTheirListing'
  <2> SUFFICES ASSUME NEW o \in OrderIds, order'[o].listing \in gone
               PROVE  FALSE
    BY DEF OrdersKeepTheirListing, OrderStep
  <2>1. order[o].listing \in gone
    BY DEF OrderStep
  <2>2. Placed(o)
    BY <2>1, NullAssumption DEF CInv, CTypeOK, QuantityInv
  <2> QED
    BY <2>1, <2>2 DEF CInv, OrdersKeepTheirListing
<1> QED
  BY <1>1, <1>2 DEF CInv

\* CInv is an invariant.
LEMMA CInvariant == CSpec => []CInv
<1>1. CInit => CInv
  <2> SUFFICES ASSUME CInit PROVE CInv
    OBVIOUS
  <2>1. CTypeOK
    BY InitTypeOK DEF CInit, CTypeOK, EditRequest
  <2>2. QuantityInv /\ OrdersKeepTheirListing
    BY DEF CInit, Init, QuantityInv, OrdersKeepTheirListing, Placed, NoOrder
  <2> QED
    BY <2>1, <2>2 DEF CInv
<1>2. CInv /\ [CNext]_cvars => CInv'
  <2> SUFFICES ASSUME CInv, [CNext]_cvars PROVE CInv'
    OBVIOUS
  <2>1. ASSUME NEW e \in Editors, EditStep(e)
        PROVE  CInv'
    <3>1. QuantityInv'
      BY <2>1, EditsLeaveOrders DEF CInv, QuantityInv, Placed
    <3> QED
      BY <2>1, <3>1, EditTypeOK, EditKeepsListings DEF CInv
  <2>2. CASE UNCHANGED cvars
    BY <2>2 DEF cvars, CInv, CTypeOK, TypeOK, QuantityInv, OrdersKeepTheirListing, Placed
  <2> QED
    BY <2>1, <2>2, OrderStepCInv DEF CNext
<1> QED
  BY <1>1, <1>2, PTL DEF CSpec

---------------------------------------------------------------------------
(* The theorems *)

\* Rows and requests keep their types; stock stays non-negative.
THEOREM CTypeCorrect == CSpec => []CTypeOK
BY CInvariant, PTL DEF CInv

\* The row of a listing outlives its orders, whatever DELETEs race with them.
THEOREM ListingsOutliveTheirOrders == CSpec => []OrdersKeepTheirListing
BY CInvariant, PTL DEF CInv

\* The service layer leaves archived listings archived.
LEMMA ServiceKeepsArchived ==
    ASSUME TypeOK, Next, NEW l \in Listings, listing[l].status = "ARCHIVED"
    PROVE  listing'[l].status = "ARCHIVED"
<1>1. ASSUME NEW k \in Listings, NEW q \in Quantities, NEW fee \in Fees, CreateOrder(k, q, fee)
      PROVE  listing'[l].status = "ARCHIVED"
  <2>1. k # l
    BY <1>1 DEF CreateOrder, Orderable
  <2> QED
    BY <1>1, <2>1 DEF CreateOrder, TypeOK
<1>2. ASSUME NEW o \in OrderIds, NEW by, CancelOrder(o, by)
      PROVE  listing'[l].status = "ARCHIVED"
  BY <1>2 DEF CancelOrder, Returned, TypeOK
<1> QED
  BY <1>1, <1>2, EndpointsAreServiceCalls DEF ServiceCall, MoveOrder, ClaimOrder

\* Only an editor's PATCH puts an archived listing back on sale.
THEOREM ArchivedStaysOffSale == CSpec => OrdersDoNotUnarchive
<1> DEFINE A == \A l \in Listings :
                    /\ listing[l].status = "ARCHIVED"
                    /\ \A e \in Editors : edit[e].kind = "patch" => edit[e].listing # l
                    => listing'[l].status = "ARCHIVED"
<1>1. CInv /\ [CNext]_cvars => A
  <2> SUFFICES ASSUME CInv, [CNext]_cvars, NEW l \in Listings,
                      listing[l].status = "ARCHIVED",
                      \A e \in Editors : edit[e].kind = "patch" => edit[e].listing # l
               PROVE  listing'[l].status = "ARCHIVED"
    OBVIOUS
  <2>1. ASSUME NEW e \in Editors, EditStep(e)
        PROVE  listing'[l].status = "ARCHIVED"
    <3>1. ASSUME NEW f \in Fields, PatchWrite(e, f)
          PROVE  listing'[l] = listing[l]
      BY <3>1 DEF PatchWrite, CInv, CTypeOK, TypeOK
    <3> QED
      BY <2>1, <3>1, WhatEditsWrite DEF CInv
  <2>2. CASE OrderStep
    BY <2>2, ServiceKeepsArchived DEF OrderStep, CInv, CTypeOK
  <2> QED
    BY <2>1, <2>2 DEF CNext, cvars
<1>2. CInv /\ [CNext]_cvars => [A]_cvars
  BY <1>1
<1> QED
  BY <1>2, CInvariant, PTL DEF CSpec, OrdersDoNotUnarchive

\* The books of the catalog are only ever put wrong by a PATCH that writes a
\* quantity other than the row's.
THEOREM OnlyPatchLosesStock == CSpec => OnlyPatchBreaksTheBooks
<1> DEFINE Patch == \E e \in Editors, f \in Fields : Overwrites(e, f)
           A == StockConserved => StockConserved' \/ Patch
<1>1. CInv /\ [CNext]_cvars => A
  <2> SUFFICES ASSUME CInv, [CNext]_cvars, StockConserved, ~Patch
               PROVE  StockConserved'
    OBVIOUS
  <2>1. ASSUME order' = order,
               \A l \in Listings : listing'[l].quantity_kg = listing[l].quantity_kg
        PROVE  StockConserved'
    BY <2>1, SameHoldings DEF Held
  <2>2. ASSUME NEW e \in Editors, EditStep(e)
        PROVE  StockConserved'
    <3>1. ASSUME NEW f \in Fields, PatchWrite(e, f)
          PROVE  \A l \in Listings : listing'[l].quantity_kg = listing[l].quantity_kg
      <4>1. Patched(edit[e].seen, f).quantity_kg = listing[edit[e].listing].quantity_kg
        BY <3>1 DEF Overwrites
      <4> QED
        BY <3>1, <4>1 DEF PatchWrite, CInv, CTypeOK, TypeOK
    <3> QED
      BY <2>1, <2>2, <3>1, WhatEditsWrite, EditsLeaveOrders DEF CInv
  <2>3. CASE OrderStep
    BY <2>3, NextStockConserved DEF OrderStep, CInv, CTypeOK
  <2> QED
    BY <2>1, <2>2, <2>3 DEF CNext, cvars
<1>2. CInv /\ [CNext]_cvars => [A]_cvars
  BY <1>1
<1> QED
  BY <1>2, CInvariant, PTL DEF CSpec, OnlyPatchBreaksTheBooks
=============================================================================
