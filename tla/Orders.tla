------------------------------ MODULE Orders ------------------------------
(***************************************************************************)
(* The order service layer (backend/apps/orders/services.py) and the       *)
(* endpoints that go through it: placing an order against a listing's      *)
(* stock, cancelling it, the operator's status transitions with the        *)
(* courier dispatch they trigger, and the qassob's claim of a butcher job. *)
(*                                                                         *)
(* Every one of these runs inside transaction.atomic() and takes the order *)
(* and listing rows with SELECT ... FOR UPDATE, so each is ONE action      *)
(* here.  The handlers that bypass this layer are in Fulfilment and        *)
(* Catalog, which extend this module.                                      *)
(*                                                                         *)
(* A request that an early return or an exception refuses changes nothing  *)
(* and is not a step.  Left out, because nothing here reads it: who the    *)
(* buyer is, prices, addresses, the preferred qassob, notifications.       *)
(***************************************************************************)
EXTENDS Integers, FiniteSets

CONSTANTS
    Listings,       \* the catalog rows
    MaxOrders,      \* BOUND: how many orders are ever placed
    Quantities,     \* the kilograms (or heads) a buyer may ask for
    Fees,           \* butcher service fees a client may send
    Qassobs,        \* butchers who can claim a job
    Supply,         \* kilograms each listing starts with
    ByWeight,       \* the listings with sale_type BY_WEIGHT
    MinOrderKg,     \* the wholesale minimum for those
    Null            \* SQL NULL

OrderIds == 1 .. MaxOrders

ASSUME MaxOrdersAssumption == MaxOrders \in Nat
ASSUME QuantitiesAssumption == Quantities \subseteq Nat \ {0}
ASSUME FeesAssumption == Fees \subseteq Nat
ASSUME SupplyAssumption == Supply \in [Listings -> Nat \ {0}]
ASSUME ByWeightAssumption == ByWeight \subseteq Listings /\ MinOrderKg \in Nat
ASSUME NullAssumption == Null \notin Listings /\ Null \notin Qassobs

VARIABLES
    listing,        \* listing[l]:  the stock columns of a Listing row
    order,          \* order[o]:    an Order row, NoOrder until it is placed
    delivery        \* delivery[o]: the Delivery row of o, NoDelivery before dispatch

vars == <<listing, order, delivery>>

---------------------------------------------------------------------------
(* Rows *)

Status == {"PENDING", "CONFIRMED", "PROCESSING", "AWAITING_QASSOB",
           "PROCESSING_BUTCHER", "IN_TRANSIT",
           "DELIVERED_PENDING_CONFIRMATION", "DELIVERED", "CANCELLED"}

Terminal == {"DELIVERED", "CANCELLED"}

ListingStatus == {"ACTIVE", "OUT_OF_STOCK", "ARCHIVED"}

DeliveryStatus == {"ASSIGNED", "PICKED_UP", "EN_ROUTE", "ARRIVED",
                   "DELIVERED", "CANCELLED"}

ListingRow == [quantity_kg : Nat, status : ListingStatus]

OrderRow == [status : Status \cup {"ABSENT"}, listing : Listings \cup {Null},
             quantity_kg : Nat, fee : Nat,
             assigned_qassob : Qassobs \cup {Null}, qassob_payout : Nat]

NoOrder == [status |-> "ABSENT", listing |-> Null, quantity_kg |-> 0,
            fee |-> 0, assigned_qassob |-> Null, qassob_payout |-> 0]

\* proof and paid: is there a proof photo, has payout_uzs been computed.
DeliveryRow == [status : DeliveryStatus \cup {"ABSENT"},
                proof : BOOLEAN, paid : BOOLEAN]

NoDelivery == [status |-> "ABSENT", proof |-> FALSE, paid |-> FALSE]

NewDelivery == [NoDelivery EXCEPT !.status = "ASSIGNED"]

Placed(o) == order[o].status # "ABSENT"

---------------------------------------------------------------------------
(* The state machine of the service layer *)

\* SUPPLIER_TRANSITIONS, as the set of its edges.
SupplierTransitions ==
    ({"PENDING"} \X {"CONFIRMED", "CANCELLED"})
    \cup ({"CONFIRMED"} \X {"PROCESSING", "AWAITING_QASSOB",
                            "PROCESSING_BUTCHER", "CANCELLED"})
    \cup ({"AWAITING_QASSOB"} \X {"PROCESSING_BUTCHER", "CANCELLED"})
    \cup ({"PROCESSING", "PROCESSING_BUTCHER"} \X {"IN_TRANSIT", "CANCELLED"})
    \cup ({"IN_TRANSIT"} \X {"DELIVERED_PENDING_CONFIRMATION", "CANCELLED"})
    \cup {<<"DELIVERED_PENDING_CONFIRMATION", "CANCELLED">>}

BuyerCancellableFrom == {"PENDING"}

\* Mutant of Orderable: status and quantity are tested before the row is
\* locked, so that they say nothing of it any more.
Orderable_Stale(l, q) == listing[l].status # "ARCHIVED" /\ (l \in ByWeight => q >= MinOrderKg)

\* What create_order asks of the listing: it is ACTIVE, has the quantity, and
\* the quantity reaches the wholesale minimum where there is one.
Orderable(l, q) ==
    /\ listing[l].status = "ACTIVE"
    /\ q <= listing[l].quantity_kg
    /\ l \in ByWeight => q >= MinOrderKg

\* The listing row after q kilograms have been taken from it ...
Taken(row, q) ==
    [quantity_kg |-> row.quantity_kg - q,
     status |-> IF row.quantity_kg - q <= 0 THEN "OUT_OF_STOCK" ELSE row.status]

\* Mutants of Returned: the listing is not made orderable again; or it is, but
\* the kilograms are forgotten.
Returned_NoFlip(row, q) == [row EXCEPT !.quantity_kg = @ + q]
Returned_FlipOnly(row, q) == [row EXCEPT !.status = "ACTIVE"]

\* ... and after q have been given back.
Returned(row, q) ==
    [quantity_kg |-> row.quantity_kg + q,
     status |-> IF row.status = "OUT_OF_STOCK" /\ row.quantity_kg + q > 0
                THEN "ACTIVE" ELSE row.status]

\* create_order: insert the order and take its kilograms.
CreateOrder(l, q, fee) ==
    \E o \in OrderIds :
        /\ ~Placed(o) /\ \A p \in 1 .. o - 1 : Placed(p)    \* next primary key
        /\ Orderable(l, q)
        /\ order' = [order EXCEPT ![o] =
               [NoOrder EXCEPT !.status = "PENDING", !.listing = l,
                               !.quantity_kg = q, !.fee = fee]]
        /\ listing' = [listing EXCEPT ![l] = Taken(@, q)]
        /\ UNCHANGED delivery

\* Mutant of MayCancel: the test of is_terminal and the transition table's are
\* both forgotten for operators.
MayCancel_Always(o, by) ==
    by = "buyer" => order[o].status \in BuyerCancellableFrom

\* Whether cancel_order lets by_user through.
MayCancel(o, by) ==
    /\ order[o].status \notin Terminal
    /\ \/ by = "buyer" /\ order[o].status \in BuyerCancellableFrom
       \/ by = "operator" /\ <<order[o].status, "CANCELLED">> \in SupplierTransitions

\* cancel_order: mark the order and give its kilograms back to the listing.
CancelOrder(o, by) ==
    /\ Placed(o)
    /\ MayCancel(o, by)
    /\ order' = [order EXCEPT ![o].status = "CANCELLED"]
    /\ listing' = [listing EXCEPT ![order[o].listing] = Returned(@, order[o].quantity_kg)]
    /\ UNCHANGED delivery

\* Mutant of AutoAssignDelivery: dispatch after a butcher is forgotten.
AutoAssignDelivery_NotForButcher(o, new) ==
    delivery' = IF new = "IN_TRANSIT" /\ order[o].status = "PROCESSING"
                THEN [delivery EXCEPT ![o] = NewDelivery]
                ELSE delivery

\* The post_save signal of the couriers app: an order that has just become
\* IN_TRANSIT gets its Delivery row, unless it has one.
AutoAssignDelivery(o, new) ==
    delivery' = IF new = "IN_TRANSIT" /\ delivery[o].status = "ABSENT"
                THEN [delivery EXCEPT ![o] = NewDelivery]
                ELSE delivery

\* Mutant of TransitionOrderStatus: SUPPLIER_TRANSITIONS is not consulted.
TransitionOrderStatus_Unchecked(o, new) ==
    /\ Placed(o) /\ new # "CANCELLED"
    /\ order' = [order EXCEPT ![o].status = new]
    /\ AutoAssignDelivery(o, new)
    /\ UNCHANGED listing

\* transition_order_status by a catalog operator; CANCELLED is delegated.
TransitionOrderStatus(o, new) ==
    \/ new = "CANCELLED" /\ CancelOrder(o, "operator")
    \/ /\ new # "CANCELLED"
       /\ <<order[o].status, new>> \in SupplierTransitions
       /\ order' = [order EXCEPT ![o].status = new]
       /\ AutoAssignDelivery(o, new)
       /\ UNCHANGED listing

\* 60 percent of a fee counted in hundredths of a soum, to the nearest one:
\* the fraction is a multiple of 1/5, so there is never a tie to break.
QassobPayout(fee) == (3 * fee + 2) \div 5

\* Mutants of ClaimOrder: the order stays in the pool; or a second claim of a
\* job already with the butcher goes through.
ClaimOrder_StaysOpen(o, q) ==
    /\ order[o].status = "AWAITING_QASSOB" /\ order[o].assigned_qassob = Null
    /\ order' = [order EXCEPT ![o].assigned_qassob = q,
                              ![o].qassob_payout = QassobPayout(order[o].fee)]
    /\ UNCHANGED <<listing, delivery>>
ClaimOrder_LastWins(o, q) ==
    /\ order[o].status \in {"AWAITING_QASSOB", "PROCESSING_BUTCHER"}
    /\ order' = [order EXCEPT ![o].assigned_qassob = q,
                              ![o].qassob_payout = QassobPayout(order[o].fee),
                              ![o].status = "PROCESSING_BUTCHER"]
    /\ UNCHANGED <<listing, delivery>>

\* The qassob branch of AcceptOrderView: the first to lock the row gets the job.
ClaimOrder(o, q) ==
    /\ order[o].status = "AWAITING_QASSOB"
    /\ order[o].assigned_qassob = Null
    /\ order' = [order EXCEPT ![o].assigned_qassob = q,
                              ![o].qassob_payout = QassobPayout(order[o].fee),
                              ![o].status = "PROCESSING_BUTCHER"]
    /\ UNCHANGED <<listing, delivery>>

---------------------------------------------------------------------------
(* The endpoints *)

\* The operator branch of AcceptOrderView.
AcceptOrder(o) == TransitionOrderStatus(o, "CONFIRMED")

\* RejectOrderView: an operator cancels; a qassob's rejection changes nothing.
RejectOrder(o) == CancelOrder(o, "operator")

\* OrderCancelView.
BuyerCancels(o) == CancelOrder(o, "buyer")

\* SupplierOrderStatusView and the partner app's AdvanceStatusView.
AdvanceStatus(o, new) == TransitionOrderStatus(o, new)

\* The bulk actions of Django Admin, which act as the listing's supplier.
BulkTransition(o, new) ==
    /\ new \in {"CONFIRMED", "PROCESSING", "IN_TRANSIT", "DELIVERED", "CANCELLED"}
    /\ TransitionOrderStatus(o, new)

Init ==
    /\ listing = [l \in Listings |-> [quantity_kg |-> Supply[l], status |-> "ACTIVE"]]
    /\ order = [o \in OrderIds |-> NoOrder]
    /\ delivery = [o \in OrderIds |-> NoDelivery]

Next ==
    \/ \E l \in Listings, q \in Quantities, fee \in Fees : CreateOrder(l, q, fee)
    \/ \E o \in OrderIds :
           \/ BuyerCancels(o)
           \/ AcceptOrder(o)
           \/ RejectOrder(o)
           \/ \E new \in Status : AdvanceStatus(o, new) \/ BulkTransition(o, new)
           \/ \E q \in Qassobs : ClaimOrder(o, q)

Spec == Init /\ [][Next]_vars

---------------------------------------------------------------------------
(* Properties *)

\* Types: every row has the columns and the values its model declares; in
\* particular stock is never negative and a placed order names a listing.
TypeOK ==
    /\ listing \in [Listings -> ListingRow]
    /\ order \in [OrderIds -> OrderRow]
    /\ delivery \in [OrderIds -> DeliveryRow]
    /\ \A o \in OrderIds : Placed(o) => order[o].listing \in Listings

\* The kilograms of listing l that order o keeps off the shelf.
Held(o, l) ==
    IF order[o].listing = l /\ order[o].status \notin {"ABSENT", "CANCELLED"}
    THEN order[o].quantity_kg ELSE 0

\* The running total of what orders 1, 2, ... hold of l, if it stays within
\* the supply of l.  (A sum stated without recursion: acc[MaxOrders] is it.)
HeldTotals(l) ==
    {acc \in [0 .. MaxOrders -> 0 .. Supply[l]] :
        /\ acc[0] = 0
        /\ \A o \in OrderIds : acc[o] = acc[o - 1] + Held(o, l)}

\* No overselling and no lost stock (the claim of the header of services.py):
\* what is on the shelf and what live orders hold always make up exactly the
\* supply, through every order placed, cancelled, refused or delivered.
StockConserved ==
    \A l \in Listings : \E acc \in HeldTotals(l) :
        listing[l].quantity_kg + acc[MaxOrders] = Supply[l]

\* create_order and cancel_order flip the listing's status by two different
\* tests; together they keep a listing orderable exactly while it has stock.
OrderableIffInStock ==
    \A l \in Listings : /\ listing[l].status = "ACTIVE" <=> listing[l].quantity_kg > 0
                        /\ listing[l].status # "ARCHIVED"

\* The Delivery row of the couriers' signal exists exactly when the order
\* needs one: never before dispatch, always while it is on its way or awaits
\* the buyer; only an order cancelled on the way may leave one behind.
DispatchedOrdersHaveDelivery ==
    \A o \in OrderIds :
        /\ order[o].status \in {"IN_TRANSIT", "DELIVERED_PENDING_CONFIRMATION"}
               => delivery[o].status # "ABSENT"
        /\ order[o].status \notin {"IN_TRANSIT", "DELIVERED_PENDING_CONFIRMATION",
                                   "CANCELLED"}
               => delivery[o].status = "ABSENT"

\* A job stays open to every qassob until one claims it, and a claimed job is
\* past the pool: the claim cannot be lost by a later move of the order back
\* to a state in which someone else could claim it.
ClaimedJobsLeftThePool ==
    \A o \in OrderIds : order[o].assigned_qassob # Null =>
        order[o].status \in {"PROCESSING_BUTCHER", "IN_TRANSIT",
                             "DELIVERED_PENDING_CONFIRMATION", "CANCELLED"}

\* "DELIVERED & CANCELLED are terminal" (orders/models.py): within the service
\* layer no sequence of calls takes an order out of them, so its stock is
\* given back at most once.
TerminalIsFinal ==
    [][\A o \in OrderIds : order[o].status \in Terminal => order'[o].status = order[o].status]_vars

\* Payout "frozen at assignment time" (orders/models.py): the qassob who wins
\* a job keeps it, at the payout computed from the fee of the order, whatever
\* is done to the order afterwards.
ClaimIsFrozen ==
    [][\A o \in OrderIds : order[o].assigned_qassob # Null =>
           /\ order'[o].assigned_qassob = order[o].assigned_qassob
           /\ order'[o].qassob_payout = order[o].qassob_payout]_vars

\* The order service implements the stock ledger: an order is a reservation
\* of its listing's stock that only its cancellation returns, whole and once.
Ledger == INSTANCE StockLedger WITH
    Reservations <- OrderIds,
    free <- [l \in Listings |-> listing[l].quantity_kg],
    held <- [o \in OrderIds |-> IF order[o].status = "CANCELLED"
                                THEN 0 ELSE order[o].quantity_kg],
    taken <- [o \in OrderIds |-> order[o].listing]

ImplementsLedger == Ledger!Spec
===========================================================================
