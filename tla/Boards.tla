------------------------------- MODULE Boards -------------------------------
(***************************************************************************)
(* What each party is shown of the orders: the partner app's inbox and     *)
(* dashboard, a qassob's calendar, a courier's queue and totals, the tiles *)
(* of buyers and suppliers.  They are views: each is computed from the     *)
(* rows on every request and keeps nothing, so this module adds operators  *)
(* to Orders and no variable.  Its properties are checked of Orders and of *)
(* Fulfilment, whose requests overlap.                                     *)
(*                                                                         *)
(* Abstracted: sums of money by the set of rows that are summed, periods   *)
(* by one that holds everything, and the fields shown of an order.         *)
(***************************************************************************)
EXTENDS Orders

CONSTANTS
    PageSize,       \* the most orders the inbox returns: 50
    Live            \* the listings with is_live_animal

ASSUME BoardsAssumption == PageSize \in Nat \ {0} /\ Live \subseteq Listings

With(statuses) == {o \in OrderIds : order[o].status \in statuses}

Mine(q) == {o \in OrderIds : Placed(o) /\ order[o].assigned_qassob = q}

---------------------------------------------------------------------------
(* InboxView: what is new, active and done *)

Buckets == {"new", "active", "done"}

\* Mutant of OperatorInbox: the state that waits for the buyer, which was added
\* last, is forgotten.
OperatorInbox_Old(bucket) ==
    CASE bucket = "new" -> With({"PENDING"})
      [] bucket = "active" -> With({"CONFIRMED", "PROCESSING", "PROCESSING_BUTCHER",
                                    "AWAITING_QASSOB", "IN_TRANSIT"})
      [] bucket = "done" -> With(Terminal)

OperatorInbox(bucket) ==
    CASE bucket = "new" -> With({"PENDING"})
      [] bucket = "active" -> With({"CONFIRMED", "PROCESSING", "PROCESSING_BUTCHER",
                                    "AWAITING_QASSOB", "IN_TRANSIT",
                                    "DELIVERED_PENDING_CONFIRMATION"})
      [] bucket = "done" -> With(Terminal)

\* animals: whether the qassob's profile lists any animals.
QassobInbox(q, animals, bucket) ==
    CASE bucket = "new" -> {o \in With({"AWAITING_QASSOB"}) : animals => order[o].listing \in Live}
      [] bucket = "active" -> Mine(q) \cap With({"PROCESSING_BUTCHER", "IN_TRANSIT"})
      [] bucket = "done" -> Mine(q) \cap With(Terminal)

\* order_by("-created_at")[:50]: the newest; there is no second page.
Page(orders) ==
    {o \in orders : Cardinality({p \in orders : p > o}) < PageSize}

\* _courier_info: is there a courier to show beside the order?
CourierShown(o) == delivery[o].status # "ABSENT"

---------------------------------------------------------------------------
(* Dashboards and totals *)

\* open_orders of DashboardView.
OpenOrders(by) == IF by = "operator" THEN With({"PENDING"}) ELSE With({"AWAITING_QASSOB"})

\* The orders that fill a qassob's days in QassobCalendarView.
Booked(q) == Mine(q) \cap With({"PROCESSING_BUTCHER", "IN_TRANSIT", "DELIVERED"})

\* CourierQueueView; couriers do not share deliveries, so one courier's board
\* is this one restricted to the deliveries that are his.
CourierQueue(bucket) ==
    {o \in OrderIds : delivery[o].status \in
        CASE bucket = "queue" -> {"ASSIGNED"}
          [] bucket = "active" -> {"PICKED_UP", "EN_ROUTE", "ARRIVED"}
          [] bucket = "done" -> {"DELIVERED", "CANCELLED"}}

\* Mutant of Earned: cancelled deliveries count too.
Earned_Done == CourierQueue("done")

\* The deliveries whose payouts CourierDashboardView and CourierEarningsView sum.
Earned == {o \in OrderIds : delivery[o].status = "DELIVERED"}

\* The orders behind the four tiles of BuyerDashboardView and of
\* SupplierDashboardView.
Tiles == With({"PENDING"}) \cup With({"CONFIRMED", "PROCESSING", "IN_TRANSIT"})
         \cup With({"DELIVERED"}) \cup With({"CANCELLED"})

---------------------------------------------------------------------------
(* Properties *)

\* Nothing that is under way gets lost between the boards.  Operators have
\* each order in one bucket, and on its page unless PageSize newer ones push
\* it off; who reads the dashboard's number of new orders finds them in the
\* inbox; an order in a qassob's inbox can be claimed by him or is his, and
\* his work leaves it only while it awaits the buyer; an order on no tile is
\* with a butcher or awaits the buyer.
BoardsMissNothing ==
    /\ \A o \in OrderIds : Placed(o) =>
           \E b \in Buckets :
               /\ o \in OperatorInbox(b)
               /\ \A c \in Buckets \ {b} : o \notin OperatorInbox(c)
               /\ o \notin Page(OperatorInbox(b)) =>
                      Cardinality({p \in OperatorInbox(b) : p > o}) >= PageSize
    /\ OpenOrders("operator") = OperatorInbox("new")
    /\ \A q \in Qassobs, animals \in BOOLEAN :
           /\ QassobInbox(q, animals, "new") \subseteq OpenOrders("qassob")
           /\ \A o \in QassobInbox(q, animals, "new") : order[o].assigned_qassob = Null
           /\ \A o \in Mine(q) :
                  \/ \E b \in {"active", "done"} : o \in QassobInbox(q, animals, b)
                  \/ order[o].status = "DELIVERED_PENDING_CONFIRMATION"
           /\ QassobInbox(q, animals, "active") \subseteq Booked(q)
    /\ \A o \in OrderIds : Placed(o) /\ o \notin Tiles =>
           order[o].status \in {"AWAITING_QASSOB", "PROCESSING_BUTCHER",
                                "DELIVERED_PENDING_CONFIRMATION"}

\* What the boards of two parties say of one order agrees, though the rows
\* behind them are written by requests that overlap: an order an operator sees
\* on its way or arrived shows a courier; a delivery that a courier is paid
\* for belongs to an order that arrived, or was cancelled, never to one still
\* under way; a delivery the courier has yet to make, to no order that
\* operators have yet to send.
BoardsAgree ==
    \A o \in OrderIds :
        /\ order[o].status \in {"IN_TRANSIT", "DELIVERED_PENDING_CONFIRMATION", "DELIVERED"}
               => CourierShown(o)
        /\ o \in Earned =>
               /\ delivery[o].paid
               /\ order[o].status \in {"DELIVERED_PENDING_CONFIRMATION",
                                       "DELIVERED", "CANCELLED"}
        /\ o \in CourierQueue("queue") \cup CourierQueue("active") =>
               o \notin OperatorInbox("new") /\ (o \in OperatorInbox("active") =>
                   order[o].status \in {"IN_TRANSIT", "DELIVERED_PENDING_CONFIRMATION"})
=============================================================================
