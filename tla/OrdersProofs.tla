--------------------------- MODULE OrdersProofs ---------------------------
(***************************************************************************)
(* Proofs about Orders, for every catalog, supply, number of orders and    *)
(* set of qassobs.  The endpoints all go through four service calls, so    *)
(* each proof first reduces Next to those (EndpointsAreServiceCalls) and   *)
(* then has one step per service call.                                     *)
(***************************************************************************)
EXTENDS Orders, WellFoundedInduction, TLAPS

USE DEF OrderIds

\* The part of TransitionOrderStatus that is not a cancellation.
MoveOrder(o, new) ==
    /\ new # "CANCELLED"
    /\ <<order[o].status, new>> \in SupplierTransitions
    /\ order' = [order EXCEPT ![o].status = new]
    /\ AutoAssignDelivery(o, new)
    /\ UNCHANGED listing

ServiceCall ==
    \/ \E l \in Listings, q \in Quantities, fee \in Fees : CreateOrder(l, q, fee)
    \/ \E o \in OrderIds, by \in {"buyer", "operator"} : CancelOrder(o, by)
    \/ \E o \in OrderIds, new \in Status : MoveOrder(o, new)
    \/ \E o \in OrderIds, q \in Qassobs : ClaimOrder(o, q)

\* Every endpoint's step is a step of one of the four service calls.
LEMMA EndpointsAreServiceCalls == Next => ServiceCall
<1> SUFFICES ASSUME Next PROVE ServiceCall
  OBVIOUS
<1>1. ASSUME NEW o \in OrderIds, NEW new \in Status, TransitionOrderStatus(o, new)
      PROVE ServiceCall
  BY <1>1 DEF TransitionOrderStatus, MoveOrder, ServiceCall
<1>2. ASSUME NEW o \in OrderIds, BuyerCancels(o) \/ RejectOrder(o)
      PROVE ServiceCall
  BY <1>2 DEF BuyerCancels, RejectOrder, ServiceCall
<1>3. ASSUME NEW o \in OrderIds, AcceptOrder(o)
      PROVE ServiceCall
  BY <1>1, <1>3 DEF AcceptOrder, Status
<1>4. ASSUME NEW o \in OrderIds, NEW new \in Status,
             AdvanceStatus(o, new) \/ BulkTransition(o, new)
      PROVE ServiceCall
  BY <1>1, <1>4 DEF AdvanceStatus, BulkTransition
<1>5. ASSUME NEW o \in OrderIds, NEW q \in Qassobs, ClaimOrder(o, q)
      PROVE ServiceCall
  BY <1>5 DEF ServiceCall
<1>6. ASSUME NEW l \in Listings, NEW q \in Quantities, NEW fee \in Fees,
             CreateOrder(l, q, fee)
      PROVE ServiceCall
  BY <1>6 DEF ServiceCall
<1> QED
  BY <1>2, <1>3, <1>4, <1>5, <1>6 DEF Next

---------------------------------------------------------------------------
(* Type correctness *)

\* The state machine only ever leads to states of the model's enumeration.
LEMMA TransitionsStayInStatus ==
    ASSUME NEW s, NEW t, <<s, t>> \in SupplierTransitions
    PROVE  s \in Status \ Terminal /\ t \in Status \ {"PENDING", "DELIVERED"}
BY DEF SupplierTransitions, Status, Terminal

\* A qassob's payout is a natural number, like the fee it is computed from.
LEMMA PayoutIsNat == \A fee \in Nat : QassobPayout(fee) \in Nat
BY SMT DEF QassobPayout

\* The initial rows are typed.
LEMMA InitTypeOK == Init => TypeOK
BY SupplyAssumption
DEF Init, TypeOK, ListingRow, ListingStatus, OrderRow, NoOrder, DeliveryRow,
    NoDelivery, Placed

\* Placing an order keeps the types: the quantity taken is at most what there is.
LEMMA CreateTypeOK ==
    ASSUME TypeOK, NEW l \in Listings, NEW q \in Quantities, NEW fee \in Fees,
           CreateOrder(l, q, fee)
    PROVE  TypeOK'
<1> q \in Nat /\ fee \in Nat
  BY QuantitiesAssumption, FeesAssumption
<1> PICK o \in OrderIds :
        /\ q <= listing[l].quantity_kg
        /\ order' = [order EXCEPT ![o] =
               [NoOrder EXCEPT !.status = "PENDING", !.listing = l,
                               !.quantity_kg = q, !.fee = fee]]
        /\ listing' = [listing EXCEPT ![l] = Taken(@, q)]
        /\ UNCHANGED delivery
  BY DEF CreateOrder, Orderable
<1>1. listing' \in [Listings -> ListingRow]
  BY DEF Taken, TypeOK, ListingRow, ListingStatus
<1>2. order' \in [OrderIds -> OrderRow]
  BY DEF TypeOK, OrderRow, NoOrder, Status
<1>3. \A p \in OrderIds : Placed(p)' => order'[p].listing \in Listings
  BY DEF TypeOK, OrderRow, NoOrder, Placed
<1> QED
  BY <1>1, <1>2, <1>3 DEF TypeOK

\* Cancelling keeps the types: kilograms are only added to the shelf.
LEMMA CancelTypeOK ==
    ASSUME TypeOK, NEW o \in OrderIds, NEW by, CancelOrder(o, by)
    PROVE  TypeOK'
<1> DEFINE l == order[o].listing
<1> l \in Listings /\ order[o] \in OrderRow /\ listing[l] \in ListingRow
  BY DEF CancelOrder, TypeOK
<1>1. listing' \in [Listings -> ListingRow]
  BY DEF CancelOrder, Returned, TypeOK, ListingRow, ListingStatus, OrderRow
<1>2. order' \in [OrderIds -> OrderRow]
  BY DEF CancelOrder, TypeOK, OrderRow, Status
<1>3. \A p \in OrderIds : Placed(p)' => order'[p].listing \in Listings
  BY DEF CancelOrder, TypeOK, OrderRow, Placed
<1> QED
  BY <1>1, <1>2, <1>3 DEF TypeOK, CancelOrder

\* A move of the status, with the delivery it may create, keeps the types.
LEMMA MoveTypeOK ==
    ASSUME TypeOK, NEW o \in OrderIds, NEW new \in Status, MoveOrder(o, new)
    PROVE  TypeOK'
<1>1. order' \in [OrderIds -> OrderRow]
  BY DEF MoveOrder, TypeOK, OrderRow
<1>2. delivery' \in [OrderIds -> DeliveryRow]
  BY DEF MoveOrder, AutoAssignDelivery, TypeOK, DeliveryRow, DeliveryStatus,
         NewDelivery, NoDelivery
<1>3. order[o].status \in Status
  BY TransitionsStayInStatus DEF MoveOrder
<1>4. \A p \in OrderIds : Placed(p)' => order'[p].listing \in Listings
  BY <1>3 DEF MoveOrder, TypeOK, OrderRow, Placed, Status
<1> QED
  BY <1>1, <1>2, <1>4 DEF TypeOK, MoveOrder

\* A qassob's claim keeps the types: the payout is a natural number.
LEMMA ClaimTypeOK ==
    ASSUME TypeOK, NEW o \in OrderIds, NEW q \in Qassobs, ClaimOrder(o, q)
    PROVE  TypeOK'
<1> order[o] \in OrderRow /\ QassobPayout(order[o].fee) \in Nat
  BY PayoutIsNat DEF TypeOK, OrderRow
<1>1. order' \in [OrderIds -> OrderRow]
  BY DEF ClaimOrder, TypeOK, OrderRow, Status
<1>2. \A p \in OrderIds : Placed(p)' => order'[p].listing \in Listings
  BY DEF ClaimOrder, TypeOK, OrderRow, Placed
<1> QED
  BY <1>1, <1>2 DEF TypeOK, ClaimOrder

\* So does every step of the service layer and its endpoints.
LEMMA NextTypeOK == TypeOK /\ [Next]_vars => TypeOK'
<1> SUFFICES ASSUME TypeOK, [Next]_vars PROVE TypeOK'
  OBVIOUS
<1>1. CASE ServiceCall
  BY <1>1, CreateTypeOK, CancelTypeOK, MoveTypeOK, ClaimTypeOK DEF ServiceCall
<1>2. CASE UNCHANGED vars
  BY <1>2 DEF TypeOK, vars, Placed
<1> QED
  BY <1>1, <1>2, EndpointsAreServiceCalls

\* The rows keep the types their models declare: stock never goes negative
\* and every placed order points at a listing, for any catalog.
THEOREM TypeCorrect == Spec => []TypeOK
BY InitTypeOK, NextTypeOK, PTL DEF Spec

---------------------------------------------------------------------------
(* Conservation of stock.  When one summand of the running totals changes,  *)
(* every later total moves by the same amount and has to stay within        *)
(* 0 .. Supply.  It does because the totals never decrease, which is shown  *)
(* by induction: here, by looking at the least counterexample.              *)

\* Every non-empty set of natural numbers has a least element.
LEMMA LeastNatural ==
    ASSUME NEW S, S \subseteq Nat, S # {}
    PROVE  \E m \in S : \A n \in S : m <= n
<1> DEFINE R == OpToRel(<, Nat)
<1>1. \A m, n \in Nat : <<n, m>> \in R <=> n < m
  BY DEF OpToRel
<1>2. IsWellFoundedOn(R, Nat)
  BY NatLessThanWellFounded
<1> HIDE DEF R
<1>3. PICK m \in S : \A n \in S : ~(<<n, m>> \in R)
  BY <1>2, WFMin
<1>4. ASSUME NEW n \in S PROVE m <= n
  <2>1. m \in Nat /\ n \in Nat /\ ~(<<n, m>> \in R)
    BY <1>3
  <2>2. ~(n < m)
    BY <1>1, <2>1
  <2> QED
    BY <2>1, <2>2
<1> QED
  BY <1>4

\* Running totals of natural numbers never decrease.
LEMMA RunningTotalsGrow ==
    ASSUME NEW N \in Nat, NEW a, NEW h,
           \A i \in 0 .. N : a[i] \in Int,
           \A i \in 1 .. N : h[i] \in Nat /\ a[i] = a[i - 1] + h[i]
    PROVE  \A i, j \in 0 .. N : i <= j => a[i] <= a[j]
<1> SUFFICES ASSUME NEW i \in 0 .. N PROVE \A j \in 0 .. N : i <= j => a[i] <= a[j]
  OBVIOUS
<1> DEFINE Bad == {j \in 0 .. N : i <= j /\ ~(a[i] <= a[j])}
<1> SUFFICES ASSUME Bad # {} PROVE FALSE
  OBVIOUS
<1> Bad \subseteq Nat
  OBVIOUS
<1> HIDE DEF Bad
<1>1. PICK j \in Bad : \A k \in Bad : j <= k
  BY LeastNatural
<1> USE DEF Bad
<1>2. j \in 0 .. N /\ i < j /\ a[j] < a[i]
  BY <1>1
<1>3. j \in 1 .. N /\ j - 1 \in 0 .. N /\ i <= j - 1
  BY <1>2
<1>4. a[i] <= a[j - 1]
  BY <1>1, <1>3
<1>5. a[j] = a[j - 1] + h[j] /\ h[j] \in Nat
  BY <1>3
<1>6. a[i] \in Int /\ a[j] \in Int /\ a[j - 1] \in Int
  BY <1>2, <1>3
<1> QED
  BY <1>2, <1>4, <1>5, <1>6

\* If one order's holding of l changes by d and the stock of l by -d, and the
\* stock stays non-negative, the books of l still balance.
LEMMA ShiftOneHolding ==
    ASSUME NEW l \in Listings, NEW o \in OrderIds, NEW d \in Int,
           NEW acc \in HeldTotals(l),
           listing[l].quantity_kg \in Nat,
           listing[l].quantity_kg + acc[MaxOrders] = Supply[l],
           \A p \in OrderIds : Held(p, l) \in Nat /\ Held(p, l)' \in Nat,
           \A p \in OrderIds \ {o} : Held(p, l)' = Held(p, l),
           Held(o, l)' = Held(o, l) + d,
           listing'[l].quantity_kg = listing[l].quantity_kg - d,
           listing'[l].quantity_kg \in Nat
    PROVE  \E new \in HeldTotals(l)' :
               listing'[l].quantity_kg + new[MaxOrders] = Supply[l]
<1> DEFINE new == [i \in 0 .. MaxOrders |-> IF i >= o THEN acc[i] + d ELSE acc[i]]
<1> MaxOrders \in Nat /\ Supply[l] \in Nat
  BY MaxOrdersAssumption, SupplyAssumption
<1>1. /\ acc \in [0 .. MaxOrders -> 0 .. Supply[l]]
      /\ acc[0] = 0
      /\ \A p \in OrderIds : acc[p] = acc[p - 1] + Held(p, l)
  BY DEF HeldTotals
<1>a. \A i \in 0 .. MaxOrders : acc[i] \in Int /\ 0 <= acc[i] /\ acc[i] <= Supply[l]
  <2>1. \A i \in 0 .. MaxOrders : acc[i] \in 0 .. Supply[l]
    BY <1>1
  <2> QED
    BY <2>1
<1>b. \A p \in OrderIds : p \in 0 .. MaxOrders /\ p - 1 \in 0 .. MaxOrders /\ p \in Int
  OBVIOUS
<1>c. \A i, j \in 0 .. MaxOrders : i <= j => acc[i] <= acc[j]
  <2> DEFINE h == [p \in OrderIds |-> Held(p, l)]
  <2>1. \A i \in 1 .. MaxOrders : h[i] \in Nat /\ acc[i] = acc[i - 1] + h[i]
    BY <1>1
  <2>2. \A i \in 0 .. MaxOrders : acc[i] \in Int
    BY <1>a
  <2> HIDE DEF h
  <2> QED
    BY <2>1, <2>2, RunningTotalsGrow
<1>2. \A i \in 0 .. MaxOrders : i >= o => acc[i] + d \in 0 .. Supply[l]
  <2> SUFFICES ASSUME NEW i \in 0 .. MaxOrders, i >= o
               PROVE  acc[i] + d \in 0 .. Supply[l]
    OBVIOUS
  <2>1. acc[o] <= acc[i] /\ acc[i] <= acc[MaxOrders] /\ acc[i] \in Int
    BY <1>a, <1>b, <1>c
  <2>2. acc[o] + d >= 0
    BY <1>1, <1>a, <1>b
  <2>3. acc[MaxOrders] + d <= Supply[l]
    BY <1>a
  <2> QED
    BY <2>1, <2>2, <2>3, <1>a, <1>b
<1>3. new \in [0 .. MaxOrders -> 0 .. Supply[l]]
  BY <1>1, <1>2
<1>4. new[0] = 0
  BY <1>1
<1>5. \A p \in OrderIds : new[p] = new[p - 1] + Held(p, l)'
  <2> SUFFICES ASSUME NEW p \in OrderIds
               PROVE  new[p] = new[p - 1] + Held(p, l)'
    OBVIOUS
  <2>1. acc[p] = acc[p - 1] + Held(p, l) /\ acc[p] \in Int /\ acc[p - 1] \in Int
    BY <1>1, <1>a, <1>b
  <2>2. CASE p = o
    BY <2>1, <2>2
  <2>3. CASE p # o
    <3>1. Held(p, l)' = Held(p, l)
      BY <2>3
    <3> QED
      BY <2>1, <2>3, <3>1
  <2> QED
    BY <2>2, <2>3
<1>6. new[MaxOrders] = acc[MaxOrders] + d
  OBVIOUS
<1>7. listing'[l].quantity_kg + new[MaxOrders] = Supply[l]
  <2>1. acc[MaxOrders] \in Int
    BY <1>1
  <2> QED
    BY <1>6, <2>1
<1>8. new \in HeldTotals(l)'
  BY <1>3, <1>4, <1>5 DEF HeldTotals
<1> HIDE DEF new
<1> QED
  BY <1>7, <1>8

\* What an order holds is a natural number.
LEMMA HeldIsNat ==
    ASSUME TypeOK PROVE \A o \in OrderIds, l \in Listings : Held(o, l) \in Nat
BY DEF TypeOK, OrderRow, Held

\* Under TypeOK a step that keeps every holding and all stock keeps the books.
LEMMA SameHoldings ==
    ASSUME StockConserved,
           \A o \in OrderIds, l \in Listings : Held(o, l)' = Held(o, l),
           \A l \in Listings : listing'[l].quantity_kg = listing[l].quantity_kg
    PROVE  StockConserved'
<1> SUFFICES ASSUME NEW l \in Listings
             PROVE  \E acc \in HeldTotals(l)' :
                           listing'[l].quantity_kg + acc[MaxOrders] = Supply[l]
  BY DEF StockConserved
<1>1. PICK acc \in HeldTotals(l) :
          listing[l].quantity_kg + acc[MaxOrders] = Supply[l]
  BY DEF StockConserved
<1>2. acc \in HeldTotals(l)'
  BY <1>1 DEF HeldTotals
<1> QED
  BY <1>1, <1>2

\* At the start all of the supply is on the shelf and no order holds any.
LEMMA InitStockConserved == Init => StockConserved
<1> SUFFICES ASSUME Init, NEW l \in Listings
             PROVE  \E acc \in HeldTotals(l) :
                        listing[l].quantity_kg + acc[MaxOrders] = Supply[l]
  BY DEF StockConserved
<1> DEFINE zero == [i \in 0 .. MaxOrders |-> 0]
<1> MaxOrders \in Nat /\ Supply[l] \in Nat
  BY MaxOrdersAssumption, SupplyAssumption
<1>1. \A o \in OrderIds : Held(o, l) = 0
  BY DEF Init, Held, NoOrder
<1>2. zero \in HeldTotals(l)
  BY <1>1 DEF HeldTotals
<1>3. listing[l].quantity_kg + zero[MaxOrders] = Supply[l]
  BY DEF Init
<1> QED
  BY <1>2, <1>3

\* A step that only touches order o and its listing k, where what o holds of k
\* moves opposite to the stock of k, keeps every listing's books.
LEMMA MoveBetweenShelfAndOrder ==
    ASSUME TypeOK, TypeOK', StockConserved,
           NEW o \in OrderIds, NEW k \in Listings, NEW d \in Int,
           \A p \in OrderIds \ {o} : order'[p] = order[p],
           \A l \in Listings \ {k} : /\ listing'[l] = listing[l]
                                     /\ Held(o, l)' = Held(o, l),
           Held(o, k)' = Held(o, k) + d,
           listing'[k].quantity_kg = listing[k].quantity_kg - d
    PROVE  StockConserved'
<1> SUFFICES ASSUME NEW l \in Listings
             PROVE  \E acc \in HeldTotals(l)' :
                           listing'[l].quantity_kg + acc[MaxOrders] = Supply[l]
  BY DEF StockConserved
<1>1. PICK acc \in HeldTotals(l) :
          listing[l].quantity_kg + acc[MaxOrders] = Supply[l]
  BY DEF StockConserved
<1>2. /\ \A p \in OrderIds : Held(p, l) \in Nat /\ Held(p, l)' \in Nat
      /\ \A p \in OrderIds \ {o} : Held(p, l)' = Held(p, l)
      /\ listing[l].quantity_kg \in Nat /\ listing'[l].quantity_kg \in Nat
  <2>1. \A p \in OrderIds : Held(p, l) \in Nat /\ Held(p, l)' \in Nat
    BY DEF TypeOK, OrderRow, Held
  <2>2. \A p \in OrderIds \ {o} : Held(p, l)' = Held(p, l)
    BY DEF Held
  <2> QED
    BY <2>1, <2>2 DEF TypeOK, ListingRow
<1>3. CASE l = k
  BY <1>1, <1>2, <1>3, ShiftOneHolding
<1>4. CASE l # k
  <2>1. Held(o, l)' = Held(o, l) + 0
    BY <1>2, <1>4
  <2>2. listing'[l].quantity_kg = listing[l].quantity_kg - 0
    BY <1>2, <1>4
  <2> QED
    BY <1>1, <1>2, <2>1, <2>2, ShiftOneHolding
<1> QED
  BY <1>3, <1>4

\* Every step moves stock between shelf and one order, or moves none.
LEMMA NextStockConserved == TypeOK /\ StockConserved /\ [Next]_vars => StockConserved'
<1> SUFFICES ASSUME TypeOK, StockConserved, [Next]_vars PROVE StockConserved'
  OBVIOUS
<1> TypeOK'
  BY NextTypeOK
<1>1. ASSUME NEW k \in Listings, NEW q \in Quantities, NEW fee \in Fees,
             CreateOrder(k, q, fee)
      PROVE  StockConserved'
  <2> q \in Nat
    BY QuantitiesAssumption
  <2>1. PICK o \in OrderIds :
          /\ ~Placed(o)
          /\ order' = [order EXCEPT ![o] =
                 [NoOrder EXCEPT !.status = "PENDING", !.listing = k,
                                 !.quantity_kg = q, !.fee = fee]]
          /\ listing' = [listing EXCEPT ![k] = Taken(@, q)]
    BY <1>1 DEF CreateOrder
  <2>2. \A l \in Listings : Held(o, l) = 0
    BY <2>1 DEF Held, Placed
  <2>3. \A l \in Listings : Held(o, l)' = IF l = k THEN q ELSE 0
    BY <2>1 DEF Held, NoOrder, TypeOK
  <2>4. listing'[k].quantity_kg = listing[k].quantity_kg - q
    BY <2>1 DEF Taken, TypeOK
  <2>5. /\ \A p \in OrderIds \ {o} : order'[p] = order[p]
        /\ \A l \in Listings \ {k} : listing'[l] = listing[l]
    BY <2>1 DEF TypeOK
  <2> QED
    BY <2>2, <2>3, <2>4, <2>5, MoveBetweenShelfAndOrder
<1>2. ASSUME NEW o \in OrderIds, NEW by, CancelOrder(o, by)
      PROVE  StockConserved'
  <2>1. /\ order[o].listing \in Listings /\ order[o].quantity_kg \in Nat
        /\ order[o].status \notin {"ABSENT", "CANCELLED"}
    BY <1>2 DEF CancelOrder, MayCancel, Placed, Terminal, TypeOK, OrderRow
  <2>2. PICK k \in Listings, q \in Nat : k = order[o].listing /\ q = order[o].quantity_kg
    BY <2>1
  <2>3. \A l \in Listings : Held(o, l) = IF l = k THEN q ELSE 0
    BY <2>1, <2>2 DEF Held
  <2>4. \A l \in Listings : Held(o, l)' = 0
    BY <1>2 DEF CancelOrder, Held, TypeOK, OrderRow
  <2>5. listing'[k].quantity_kg = listing[k].quantity_kg - (0 - q)
    <3>1. listing'[k].quantity_kg = listing[k].quantity_kg + q
      BY <1>2, <2>2 DEF CancelOrder, Returned, TypeOK
    <3>2. listing[k].quantity_kg \in Nat
      BY DEF TypeOK, ListingRow
    <3> QED
      BY <3>1, <3>2
  <2>6. /\ \A p \in OrderIds \ {o} : order'[p] = order[p]
        /\ \A l \in Listings \ {k} : listing'[l] = listing[l]
    BY <1>2, <2>2 DEF CancelOrder, TypeOK
  <2>7. Held(o, k)' = Held(o, k) + (0 - q)
    BY <2>3, <2>4
  <2>8. \A l \in Listings \ {k} : Held(o, l)' = Held(o, l)
    BY <2>3, <2>4
  <2> QED
    BY <2>5, <2>6, <2>7, <2>8, MoveBetweenShelfAndOrder
<1>3. ASSUME NEW o \in OrderIds, NEW new \in Status, MoveOrder(o, new)
      PROVE  StockConserved'
  <2>1. \A p \in OrderIds, l \in Listings : Held(p, l)' = Held(p, l)
    BY <1>3, TransitionsStayInStatus DEF MoveOrder, Held, TypeOK, OrderRow, Status, Terminal
  <2> QED
    BY <1>3, <2>1, SameHoldings DEF MoveOrder
<1>4. ASSUME NEW o \in OrderIds, NEW q \in Qassobs, ClaimOrder(o, q)
      PROVE  StockConserved'
  <2>1. \A p \in OrderIds, l \in Listings : Held(p, l)' = Held(p, l)
    BY <1>4 DEF ClaimOrder, Held, TypeOK, OrderRow
  <2> QED
    BY <1>4, <2>1, SameHoldings DEF ClaimOrder
<1>5. CASE UNCHANGED vars
  <2>1. \A p \in OrderIds, l \in Listings : Held(p, l)' = Held(p, l)
    BY <1>5 DEF vars, Held
  <2> QED
    BY <1>5, <2>1, SameHoldings DEF vars
<1> QED
  BY <1>1, <1>2, <1>3, <1>4, <1>5, EndpointsAreServiceCalls DEF ServiceCall

\* services.py: "concurrent order placements can't oversell stock".  Shelf and
\* live orders together are the supply, whatever the sequence of calls.
THEOREM StockIsConserved == Spec => []StockConserved
<1>1. Init => TypeOK /\ StockConserved
  BY InitTypeOK, InitStockConserved
<1>2. (TypeOK /\ StockConserved) /\ [Next]_vars => (TypeOK /\ StockConserved)'
  BY NextTypeOK, NextStockConserved
<1> QED
  BY <1>1, <1>2, PTL DEF Spec

---------------------------------------------------------------------------
(* Listing status, dispatch and claims *)

LifecycleInv ==
    OrderableIffInStock /\ DispatchedOrdersHaveDelivery /\ ClaimedJobsLeftThePool

\* The status invariants hold of the initial rows.
LEMMA InitLifecycleInv == Init => LifecycleInv
BY SupplyAssumption
DEF Init, LifecycleInv, OrderableIffInStock, DispatchedOrdersHaveDelivery,
    ClaimedJobsLeftThePool, NoOrder, NoDelivery

\* They are inductive together, over the three kinds of service call.
LEMMA NextLifecycleInv == TypeOK /\ LifecycleInv /\ [Next]_vars => LifecycleInv'
<1> SUFFICES ASSUME TypeOK, LifecycleInv, [Next]_vars PROVE LifecycleInv'
  OBVIOUS
<1> USE DEF LifecycleInv
<1>1. ASSUME NEW k \in Listings, NEW q \in Quantities, NEW fee \in Fees,
             CreateOrder(k, q, fee)
      PROVE  LifecycleInv'
  <2> q \in Nat
    BY QuantitiesAssumption
  <2>1. PICK o \in OrderIds :
          /\ ~Placed(o)
          /\ listing[k].status = "ACTIVE"
          /\ q <= listing[k].quantity_kg
          /\ order' = [order EXCEPT ![o] =
                 [NoOrder EXCEPT !.status = "PENDING", !.listing = k,
                                 !.quantity_kg = q, !.fee = fee]]
          /\ listing' = [listing EXCEPT ![k] = Taken(@, q)]
          /\ delivery' = delivery
    BY <1>1 DEF CreateOrder, Orderable
  <2>2. OrderableIffInStock'
    BY <2>1 DEF Taken, OrderableIffInStock, TypeOK, ListingRow
  <2>3. DispatchedOrdersHaveDelivery'
    BY <2>1 DEF DispatchedOrdersHaveDelivery, TypeOK, NoOrder, Placed
  <2>4. ClaimedJobsLeftThePool'
    BY <2>1 DEF ClaimedJobsLeftThePool, TypeOK, NoOrder
  <2> QED
    BY <2>2, <2>3, <2>4
<1>2. ASSUME NEW o \in OrderIds, NEW by, CancelOrder(o, by)
      PROVE  LifecycleInv'
  <2>1. order[o].listing \in Listings /\ order[o].quantity_kg \in Nat
    BY <1>2 DEF CancelOrder, TypeOK, OrderRow
  <2>2. OrderableIffInStock'
    BY <1>2, <2>1 DEF CancelOrder, Returned, OrderableIffInStock, TypeOK, ListingRow, ListingStatus
  <2>3. DispatchedOrdersHaveDelivery'
    BY <1>2 DEF CancelOrder, DispatchedOrdersHaveDelivery, TypeOK, OrderRow
  <2>4. ClaimedJobsLeftThePool'
    BY <1>2 DEF CancelOrder, ClaimedJobsLeftThePool, TypeOK, OrderRow
  <2> QED
    BY <2>2, <2>3, <2>4
<1>3. ASSUME NEW o \in OrderIds, NEW new \in Status, MoveOrder(o, new)
      PROVE  LifecycleInv'
  <2>1. OrderableIffInStock'
    BY <1>3 DEF MoveOrder, OrderableIffInStock
  <2>2. DispatchedOrdersHaveDelivery'
    BY <1>3 DEF MoveOrder, AutoAssignDelivery, DispatchedOrdersHaveDelivery, TypeOK,
       OrderRow, DeliveryRow, NoDelivery, NewDelivery, SupplierTransitions
  <2>3. ClaimedJobsLeftThePool'
    BY <1>3 DEF MoveOrder, ClaimedJobsLeftThePool, TypeOK, OrderRow, SupplierTransitions
  <2> QED
    BY <2>1, <2>2, <2>3
<1>4. ASSUME NEW o \in OrderIds, NEW q \in Qassobs, ClaimOrder(o, q)
      PROVE  LifecycleInv'
  <2>1. OrderableIffInStock'
    BY <1>4 DEF ClaimOrder, OrderableIffInStock
  <2>2. DispatchedOrdersHaveDelivery'
    BY <1>4 DEF ClaimOrder, DispatchedOrdersHaveDelivery, TypeOK, OrderRow
  <2>3. ClaimedJobsLeftThePool'
    BY <1>4 DEF ClaimOrder, ClaimedJobsLeftThePool, TypeOK, OrderRow
  <2> QED
    BY <2>1, <2>2, <2>3
<1>5. CASE UNCHANGED vars
  BY <1>5 DEF vars, OrderableIffInStock, DispatchedOrdersHaveDelivery, ClaimedJobsLeftThePool
<1> QED
  BY <1>1, <1>2, <1>3, <1>4, <1>5, EndpointsAreServiceCalls DEF ServiceCall

\* The status invariants of the service layer, for every behaviour.
LEMMA LifecycleInvariant == Spec => [](TypeOK /\ LifecycleInv)
<1>1. Init => TypeOK /\ LifecycleInv
  BY InitTypeOK, InitLifecycleInv
<1>2. (TypeOK /\ LifecycleInv) /\ [Next]_vars => (TypeOK /\ LifecycleInv)'
  BY NextTypeOK, NextLifecycleInv
<1> QED
  BY <1>1, <1>2, PTL DEF Spec

\* create_order and cancel_order keep "orderable" and "in stock" together.
THEOREM OrderableStaysInStock == Spec => []OrderableIffInStock
<1>1. LifecycleInv => OrderableIffInStock
  BY DEF LifecycleInv
<1> QED
  BY <1>1, LifecycleInvariant, PTL

\* The couriers' signal creates the Delivery row exactly when one is needed.
THEOREM DispatchIsComplete == Spec => []DispatchedOrdersHaveDelivery
<1>1. LifecycleInv => DispatchedOrdersHaveDelivery
  BY DEF LifecycleInv
<1> QED
  BY <1>1, LifecycleInvariant, PTL

\* A claimed butcher job is never back in the pool.
THEOREM ClaimsLeaveThePool == Spec => []ClaimedJobsLeftThePool
<1>1. LifecycleInv => ClaimedJobsLeftThePool
  BY DEF LifecycleInv
<1> QED
  BY <1>1, LifecycleInvariant, PTL

---------------------------------------------------------------------------
(* What no step of the service layer may do *)

\* A service call leaves every order that is terminal alone.
LEMMA TerminalRowsStay ==
    ASSUME TypeOK, [Next]_vars, NEW o \in OrderIds, order[o].status \in Terminal
    PROVE  order'[o] = order[o]
<1>1. ASSUME NEW l \in Listings, NEW q \in Quantities, NEW fee \in Fees,
             CreateOrder(l, q, fee)
      PROVE  order'[o] = order[o]
  BY <1>1 DEF CreateOrder, TypeOK, Placed, Terminal
<1>2. ASSUME NEW p \in OrderIds, NEW by, CancelOrder(p, by)
      PROVE  order'[o] = order[o]
  BY <1>2 DEF CancelOrder, MayCancel, TypeOK
<1>3. ASSUME NEW p \in OrderIds, NEW new \in Status, MoveOrder(p, new)
      PROVE  order'[o] = order[o]
  BY <1>3, TransitionsStayInStatus DEF MoveOrder, TypeOK
<1>4. ASSUME NEW p \in OrderIds, NEW q \in Qassobs, ClaimOrder(p, q)
      PROVE  order'[o] = order[o]
  BY <1>4 DEF ClaimOrder, TypeOK, Terminal
<1>5. CASE UNCHANGED vars
  BY <1>5 DEF vars
<1> QED
  BY <1>1, <1>2, <1>3, <1>4, <1>5, EndpointsAreServiceCalls DEF ServiceCall

\* orders/models.py: "DELIVERED & CANCELLED are terminal".
THEOREM TerminalOrdersStay == Spec => TerminalIsFinal
<1> DEFINE A == \A o \in OrderIds :
                    order[o].status \in Terminal => order'[o].status = order[o].status
<1>1. TypeOK /\ [Next]_vars => [A]_vars
  BY TerminalRowsStay
<1> QED
  BY <1>1, TypeCorrect, PTL DEF Spec, TerminalIsFinal

\* orders/models.py on qassob_payout: "Frozen at assignment time".
THEOREM ClaimsAreFrozen == Spec => ClaimIsFrozen
<1> DEFINE A == \A o \in OrderIds : order[o].assigned_qassob # Null =>
                    /\ order'[o].assigned_qassob = order[o].assigned_qassob
                    /\ order'[o].qassob_payout = order[o].qassob_payout
<1>1. TypeOK /\ LifecycleInv /\ [Next]_vars => A
  <2> SUFFICES ASSUME TypeOK, LifecycleInv, [Next]_vars,
                      NEW o \in OrderIds, order[o].assigned_qassob # Null
               PROVE  /\ order'[o].assigned_qassob = order[o].assigned_qassob
                      /\ order'[o].qassob_payout = order[o].qassob_payout
    OBVIOUS
  <2>1. ASSUME NEW l \in Listings, NEW q \in Quantities, NEW fee \in Fees,
               CreateOrder(l, q, fee)
        PROVE  order'[o] = order[o]
    BY <2>1 DEF CreateOrder, TypeOK, Placed, LifecycleInv, ClaimedJobsLeftThePool
  <2>2. ASSUME NEW p \in OrderIds, NEW by, CancelOrder(p, by)
        PROVE  order'[o] = [order[o] EXCEPT !.status = order'[o].status]
    BY <2>2 DEF CancelOrder, TypeOK, OrderRow
  <2>3. ASSUME NEW p \in OrderIds, NEW new \in Status, MoveOrder(p, new)
        PROVE  order'[o] = [order[o] EXCEPT !.status = order'[o].status]
    BY <2>3 DEF MoveOrder, TypeOK, OrderRow
  <2>4. ASSUME NEW p \in OrderIds, NEW q \in Qassobs, ClaimOrder(p, q)
        PROVE  order'[o] = order[o]
    BY <2>4 DEF ClaimOrder, TypeOK
  <2>5. CASE UNCHANGED vars
    BY <2>5 DEF vars
  <2>6. order[o] \in OrderRow
    BY DEF TypeOK
  <2> QED
    BY <2>1, <2>2, <2>3, <2>4, <2>5, <2>6, EndpointsAreServiceCalls DEF ServiceCall, OrderRow
<1>2. TypeOK /\ LifecycleInv /\ [Next]_vars => [A]_vars
  BY <1>1
<1> QED
  BY <1>2, LifecycleInvariant, PTL DEF Spec, ClaimIsFrozen

---------------------------------------------------------------------------
(* Refinement *)

\* An order that has been placed holds a positive quantity.
QuantityInv == \A o \in OrderIds :
    /\ Placed(o) => order[o].quantity_kg > 0
    /\ ~Placed(o) => order[o].quantity_kg = 0 /\ order[o].listing = Null

\* The service layer keeps it.
LEMMA NextQuantityInv == TypeOK /\ QuantityInv /\ [Next]_vars => QuantityInv'
<1> SUFFICES ASSUME TypeOK, QuantityInv, [Next]_vars PROVE QuantityInv'
  OBVIOUS
<1>1. ASSUME NEW l \in Listings, NEW q \in Quantities, NEW fee \in Fees,
             CreateOrder(l, q, fee)
      PROVE  QuantityInv'
  <2> q \in Nat \ {0}
    BY QuantitiesAssumption
  <2> QED
    BY <1>1 DEF CreateOrder, QuantityInv, TypeOK, NoOrder, Placed
<1>2. ASSUME NEW p \in OrderIds, NEW by, CancelOrder(p, by)
      PROVE  QuantityInv'
  BY <1>2 DEF CancelOrder, QuantityInv, TypeOK, OrderRow, Placed
<1>3. ASSUME NEW p \in OrderIds, NEW new \in Status, MoveOrder(p, new)
      PROVE  QuantityInv'
  BY <1>3, TransitionsStayInStatus
  DEF MoveOrder, QuantityInv, TypeOK, OrderRow, Placed, Status
<1>4. ASSUME NEW p \in OrderIds, NEW q \in Qassobs, ClaimOrder(p, q)
      PROVE  QuantityInv'
  BY <1>4 DEF ClaimOrder, QuantityInv, TypeOK, OrderRow, Placed
<1>5. CASE UNCHANGED vars
  BY <1>5 DEF vars, QuantityInv, Placed
<1> QED
  BY <1>1, <1>2, <1>3, <1>4, <1>5, EndpointsAreServiceCalls DEF ServiceCall

\* It is an invariant.
LEMMA QuantityInvariant == Spec => [](TypeOK /\ QuantityInv)
<1>1. Init => TypeOK /\ QuantityInv
  BY InitTypeOK DEF Init, QuantityInv, Placed, NoOrder
<1> QED
  BY <1>1, NextTypeOK, NextQuantityInv, PTL DEF Spec

\* The order service implements the stock ledger.
THEOREM OrdersImplementLedger == Spec => ImplementsLedger
<1> USE DEF Ledger!ledgerVars
<1>1. Init => Ledger!Init
  <2> SUFFICES ASSUME Init PROVE Ledger!Init
    OBVIOUS
  <2>1. [l \in Listings |-> listing[l].quantity_kg] = Supply
    BY SupplyAssumption DEF Init
  <2>2. [o \in OrderIds |-> IF order[o].status = "CANCELLED"
                            THEN 0 ELSE order[o].quantity_kg] = [r \in OrderIds |-> 0]
    BY DEF Init, NoOrder
  <2>3. [o \in OrderIds |-> order[o].listing] = [r \in OrderIds |-> Null]
    BY DEF Init, NoOrder
  <2> QED
    BY <2>1, <2>2, <2>3 DEF Ledger!Init
<1>2. TypeOK /\ QuantityInv /\ [Next]_vars => [Ledger!Next]_(Ledger!ledgerVars)
  <2> SUFFICES ASSUME TypeOK, QuantityInv, [Next]_vars
               PROVE  Ledger!Next \/ UNCHANGED Ledger!ledgerVars
    OBVIOUS
  <2>1. ASSUME NEW l \in Listings, NEW q \in Quantities, NEW fee \in Fees,
               CreateOrder(l, q, fee)
        PROVE  Ledger!Next
    <3> q \in Nat \ {0} /\ Null # l
      BY QuantitiesAssumption, NullAssumption
    <3>1. PICK o \in OrderIds :
            /\ ~Placed(o)
            /\ q <= listing[l].quantity_kg
            /\ order' = [order EXCEPT ![o] =
                   [NoOrder EXCEPT !.status = "PENDING", !.listing = l,
                                   !.quantity_kg = q, !.fee = fee]]
            /\ listing' = [listing EXCEPT ![l] = Taken(@, q)]
      BY <2>1 DEF CreateOrder, Orderable
    <3>2. Ledger!Reserve(o, l, q)
      <4>1. [p \in OrderIds |-> order[p].listing][o] = Null
        BY <3>1 DEF QuantityInv
      <4>2. 0 < q /\ q <= [k \in Listings |-> listing[k].quantity_kg][l]
        BY <3>1
      <4>3. [k \in Listings |-> listing[k].quantity_kg]' =
              [[k \in Listings |-> listing[k].quantity_kg] EXCEPT ![l] = @ - q]
        BY <3>1 DEF Taken, TypeOK
      <4>4. [p \in OrderIds |-> IF order[p].status = "CANCELLED"
                                THEN 0 ELSE order[p].quantity_kg]' =
              [[p \in OrderIds |-> IF order[p].status = "CANCELLED"
                                   THEN 0 ELSE order[p].quantity_kg] EXCEPT ![o] = q]
        BY <3>1 DEF TypeOK, NoOrder
      <4>5. [p \in OrderIds |-> order[p].listing]' =
              [[p \in OrderIds |-> order[p].listing] EXCEPT ![o] = l]
        BY <3>1 DEF TypeOK, NoOrder
      <4> QED
        BY <4>1, <4>2, <4>3, <4>4, <4>5 DEF Ledger!Reserve
    <3>3. q \in 1 .. [k \in Listings |-> listing[k].quantity_kg][l]
      BY <3>1 DEF TypeOK, ListingRow
    <3> QED
      BY <3>2, <3>3 DEF Ledger!Next
  <2>2. ASSUME NEW o \in OrderIds, NEW by, CancelOrder(o, by)
        PROVE  Ledger!Next
    <3>1. order[o].listing \in Listings /\ order[o].status # "CANCELLED"
          /\ order[o].quantity_kg > 0
      BY <2>2 DEF CancelOrder, MayCancel, QuantityInv, TypeOK, Terminal
    <3>2. Ledger!Return(o)
      BY <2>2, <3>1 DEF CancelOrder, Returned, Ledger!Return, TypeOK, OrderRow, ListingRow
    <3> QED
      BY <3>2 DEF Ledger!Next
  <2>3. ASSUME NEW o \in OrderIds, NEW new \in Status, MoveOrder(o, new)
        PROVE  UNCHANGED Ledger!ledgerVars
    BY <2>3, TransitionsStayInStatus DEF MoveOrder, TypeOK, OrderRow, Terminal
  <2>4. ASSUME NEW o \in OrderIds, NEW q \in Qassobs, ClaimOrder(o, q)
        PROVE  UNCHANGED Ledger!ledgerVars
    BY <2>4 DEF ClaimOrder, TypeOK, OrderRow
  <2>5. CASE UNCHANGED vars
    BY <2>5 DEF vars
  <2> QED
    BY <2>1, <2>2, <2>3, <2>4, <2>5, EndpointsAreServiceCalls DEF ServiceCall
<1> QED
  BY <1>1, <1>2, QuantityInvariant, PTL DEF Spec, ImplementsLedger, Ledger!Spec
===========================================================================
