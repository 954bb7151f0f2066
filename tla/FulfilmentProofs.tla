-------------------------- MODULE FulfilmentProofs --------------------------
(***************************************************************************)
(* Proofs about Fulfilment, for any number of orders and of requests in    *)
(* flight, and about the boards computed from its rows.  The inductive     *)
(* invariant says what a request in flight may rely on although it holds   *)
(* no lock: the delivery it read about is not taken away again, and a      *)
(* courier's copy of the row is one that its transition may leave, so      *)
(* never one already paid.                                                 *)
(***************************************************************************)
EXTENDS Fulfilment, Boards, OrdersProofs, FiniteSetTheorems

\* A request about an order is only ever started after its dispatch, and a
\* courier's request only along an edge of the state machine, so from a
\* delivery that is not paid.
InFlightInv ==
    \A h \in Handlers :
        /\ req[h].kind # "idle" => delivery[req[h].order].status # "ABSENT"
        /\ req[h].kind = "courier" => /\ ~req[h].seen.paid
                                      /\ <<req[h].seen.status, req[h].to>> \in CourierTransitions

\* No delivery without an order, no proof photo without a delivery.
DeliveriesHaveOrders ==
    \A o \in OrderIds : /\ delivery[o].status # "ABSENT" => Placed(o)
                        /\ delivery[o].proof => delivery[o].status # "ABSENT"

FInv ==
    /\ FTypeOK
    /\ InFlightInv
    /\ DeliveriesHaveOrders
    /\ CompletedWasDispatched
    /\ PaidIffDelivered

\* What the kinds of request carry.
LEMMA RequestTypes ==
    ASSUME FTypeOK, NEW h \in Handlers
    PROVE  /\ req[h].kind \in {"idle", "confirm", "courier"}
           /\ req[h].kind # "idle" => req[h].order \in OrderIds
           /\ req[h].kind = "courier" => /\ req[h].seen \in DeliveryRow
                                         /\ req[h].to \in DeliveryStatus
BY DEF FTypeOK, Request, Idle

\* Every order and delivery has a row of its type.
LEMMA RowTypes ==
    ASSUME TypeOK
    PROVE  \A o \in OrderIds : /\ order[o] \in OrderRow /\ delivery[o] \in DeliveryRow
                               /\ order[o].status \in Status \cup {"ABSENT"}
                               /\ order = [order EXCEPT ![o] = @]
BY DEF TypeOK, OrderRow

---------------------------------------------------------------------------
(* The steps, one kind at a time *)

\* What a handler step or an upload does, in terms of the rows it writes.
RowsKept == listing' = listing /\ order' = order /\ delivery' = delivery

\* Initially nothing is dispatched, paid or in flight.
LEMMA InitFInv == FInit => FInv
<1> SUFFICES ASSUME FInit PROVE FInv
  OBVIOUS
<1>1. FTypeOK
  BY InitTypeOK DEF FInit, FTypeOK, Request
<1>2. InFlightInv
  BY DEF FInit, InFlightInv, Idle
<1>3. DeliveriesHaveOrders /\ CompletedWasDispatched /\ PaidIffDelivered
  BY DEF FInit, Init, NoOrder, NoDelivery, DeliveriesHaveOrders, CompletedWasDispatched,
         PaidIffDelivered
<1> QED
  BY <1>1, <1>2, <1>3 DEF FInv

\* The service layer adds deliveries and never removes or pays one.
LEMMA ServiceKeepsDeliveries ==
    ASSUME TypeOK, Next
    PROVE  \A o \in OrderIds :
               \/ delivery'[o] = delivery[o]
               \/ /\ delivery[o].status = "ABSENT" /\ delivery'[o] = NewDelivery
                  /\ order'[o].status = "IN_TRANSIT"
<1>1. ASSUME NEW o \in OrderIds, NEW new \in Status, MoveOrder(o, new)
      PROVE  \A p \in OrderIds :
               \/ delivery'[p] = delivery[p]
               \/ /\ delivery[p].status = "ABSENT" /\ delivery'[p] = NewDelivery
                  /\ order'[p].status = "IN_TRANSIT"
  BY <1>1 DEF MoveOrder, AutoAssignDelivery, TypeOK, OrderRow
<1> QED
  BY <1>1, EndpointsAreServiceCalls
  DEF ServiceCall, CreateOrder, CancelOrder, ClaimOrder

\* The service layer keeps placed orders placed, and leads no order past
\* dispatch unless it has a delivery by then.
LEMMA ServiceKeepsCompletion ==
    ASSUME TypeOK, CompletedWasDispatched, DeliveriesHaveOrders, Next
    PROVE  CompletedWasDispatched' /\ DeliveriesHaveOrders'
<1>1. ASSUME NEW l \in Listings, NEW q \in Quantities, NEW fee \in Fees,
             CreateOrder(l, q, fee)
      PROVE  CompletedWasDispatched' /\ DeliveriesHaveOrders'
  BY <1>1 DEF CreateOrder, NoOrder, TypeOK, CompletedWasDispatched, DeliveriesHaveOrders, Placed
<1>2. ASSUME NEW o \in OrderIds, NEW by, CancelOrder(o, by)
      PROVE  CompletedWasDispatched' /\ DeliveriesHaveOrders'
  BY <1>2 DEF CancelOrder, TypeOK, OrderRow, CompletedWasDispatched, DeliveriesHaveOrders, Placed
<1>3. ASSUME NEW o \in OrderIds, NEW new \in Status, MoveOrder(o, new)
      PROVE  CompletedWasDispatched' /\ DeliveriesHaveOrders'
  <2>1. order[o].status \in Status /\ new # "DELIVERED"
    BY <1>3, TransitionsStayInStatus DEF MoveOrder
  <2>2. new = "DELIVERED_PENDING_CONFIRMATION" => order[o].status = "IN_TRANSIT"
    BY <1>3 DEF MoveOrder, SupplierTransitions
  <2>3. order' = [order EXCEPT ![o].status = new]
    BY <1>3 DEF MoveOrder
  <2>4. new = "IN_TRANSIT" => delivery'[o].status # "ABSENT"
    BY <1>3 DEF MoveOrder, AutoAssignDelivery, TypeOK, NewDelivery, NoDelivery
  <2>5. \A p \in OrderIds : delivery[p].status # "ABSENT" => delivery'[p] = delivery[p]
    BY <1>3 DEF MoveOrder, AutoAssignDelivery, TypeOK
  <2>6. \A p \in OrderIds \ {o} : delivery'[p] = delivery[p] /\ order'[p] = order[p]
    BY <1>3 DEF MoveOrder, AutoAssignDelivery, TypeOK
  <2>7. order'[o].status = new /\ new # "ABSENT"
    BY <2>3 DEF TypeOK, OrderRow, Status
  <2>8. CompletedWasDispatched'
    BY <2>1, <2>2, <2>4, <2>5, <2>6, <2>7 DEF CompletedWasDispatched
  <2>9. DeliveriesHaveOrders'
    <3>1. delivery'[o] = delivery[o] \/ delivery'[o] = NewDelivery
      BY <1>3 DEF MoveOrder, AutoAssignDelivery, TypeOK
    <3> QED
      BY <2>6, <2>7, <3>1 DEF DeliveriesHaveOrders, Placed, NewDelivery, NoDelivery
  <2> QED
    BY <2>8, <2>9
<1>4. ASSUME NEW o \in OrderIds, NEW q \in Qassobs, ClaimOrder(o, q)
      PROVE  CompletedWasDispatched' /\ DeliveriesHaveOrders'
  BY <1>4 DEF ClaimOrder, TypeOK, OrderRow, CompletedWasDispatched, DeliveriesHaveOrders, Placed
<1> QED
  BY <1>1, <1>2, <1>3, <1>4, EndpointsAreServiceCalls DEF ServiceCall

\* A step of the service layer keeps the invariant.
LEMMA ServiceStepFInv ==
    ASSUME FInv, ServiceStep
    PROVE  FInv'
<1> TypeOK /\ Next /\ req' = req
  BY DEF FInv, FTypeOK, ServiceStep
<1>1. TypeOK' /\ FTypeOK'
  BY NextTypeOK DEF FInv, FTypeOK, ServiceStep
<1>2. InFlightInv'
  <2> SUFFICES ASSUME NEW h \in Handlers
               PROVE  /\ req[h].kind # "idle" => delivery'[req[h].order].status # "ABSENT"
                      /\ req[h].kind = "courier" =>
                             /\ ~req[h].seen.paid
                             /\ <<req[h].seen.status, req[h].to>> \in CourierTransitions
    BY DEF InFlightInv
  <2>1. req[h].kind # "idle" => req[h].order \in OrderIds
    BY RequestTypes DEF FInv
  <2> QED
    BY <2>1, ServiceKeepsDeliveries DEF FInv, InFlightInv
<1>3. CompletedWasDispatched' /\ DeliveriesHaveOrders'
  BY ServiceKeepsCompletion DEF FInv
<1>4. PaidIffDelivered'
  BY ServiceKeepsDeliveries DEF FInv, PaidIffDelivered, NewDelivery, NoDelivery
<1> QED
  BY <1>1, <1>2, <1>3, <1>4 DEF FInv

\* A read changes no row and starts a request that may rely on what it saw.
LEMMA ReadFInv ==
    ASSUME FInv, NEW h \in Handlers, NEW o \in OrderIds, NEW to \in DeliveryStatus,
           ConfirmRead(h, o) \/ CourierRead(h, o, to)
    PROVE  FInv'
<1>1. RowsKept
  BY DEF ConfirmRead, CourierRead, RowsKept
<1>2. \A g \in Handlers \ {h} : req'[g] = req[g]
  BY DEF ConfirmRead, CourierRead, FInv, FTypeOK
<1>3. delivery[o].status # "ABSENT"
  BY DEF ConfirmRead, CourierRead, BuyerConfirmableFrom, FInv, CompletedWasDispatched,
         CourierTransitions, CourierAdvances, CourierCancels
<1>4. /\ req'[h] \in Request /\ req'[h].order = o
      /\ req'[h].kind = "courier" =>
             /\ req'[h].seen = delivery[o] /\ delivery[o].status # "DELIVERED"
             /\ <<req'[h].seen.status, req'[h].to>> \in CourierTransitions
  <2>1. CASE ConfirmRead(h, o)
    BY <2>1 DEF ConfirmRead, Idle, Request, FInv, FTypeOK
  <2>2. CASE CourierRead(h, o, to)
    <3>1. delivery[o] \in DeliveryRow
      BY RowTypes DEF FInv, FTypeOK
    <3> QED
      BY <2>2, <3>1 DEF CourierRead, Request, FInv, FTypeOK, CourierTransitions,
         CourierAdvances, CourierCancels
  <2> QED
    BY <2>1, <2>2
<1>5. TypeOK'
  BY <1>1 DEF FInv, FTypeOK, TypeOK, RowsKept, Placed
<1>6. FTypeOK'
  BY <1>2, <1>4, <1>5 DEF FInv, FTypeOK, ConfirmRead, CourierRead
<1>7. InFlightInv'
  BY <1>1, <1>2, <1>3, <1>4 DEF FInv, InFlightInv, PaidIffDelivered, RowsKept
<1>8. DeliveriesHaveOrders' /\ CompletedWasDispatched' /\ PaidIffDelivered'
  BY <1>1 DEF FInv, DeliveriesHaveOrders, CompletedWasDispatched, PaidIffDelivered, RowsKept, Placed
<1> QED
  BY <1>6, <1>7, <1>8 DEF FInv

\* A write ends its request; what it stores is an order or a delivery past
\* dispatch, paid exactly when DELIVERED.
LEMMA WriteFInv ==
    ASSUME FInv, NEW h \in Handlers, ConfirmWrite(h) \/ CourierWrite(h)
    PROVE  FInv'
<1>1. PICK o \in OrderIds : o = req[h].order
  BY RequestTypes DEF FInv, ConfirmWrite, CourierWrite
<1> order[o] \in OrderRow /\ delivery[o] \in DeliveryRow /\ delivery[o].status # "ABSENT"
  BY <1>1, RowTypes DEF FInv, FTypeOK, InFlightInv, ConfirmWrite, CourierWrite
<1>2. /\ listing' = listing
      /\ \A p \in OrderIds \ {o} : order'[p] = order[p] /\ delivery'[p] = delivery[p]
      /\ \A g \in Handlers \ {h} : req'[g] = req[g]
      /\ req'[h] = Idle
  BY <1>1 DEF ConfirmWrite, CourierWrite, FInv, FTypeOK, TypeOK
<1>3. \/ order'[o] = order[o]
      \/ \E s \in {"DELIVERED_PENDING_CONFIRMATION", "DELIVERED"} :
             order'[o] = [order[o] EXCEPT !.status = s]
  BY <1>1 DEF ConfirmWrite, CourierWrite, FInv, FTypeOK, TypeOK
<1>4. /\ delivery'[o] \in DeliveryRow /\ delivery'[o].status # "ABSENT"
      /\ delivery'[o].paid <=> delivery'[o].status = "DELIVERED"
  <2>1. CASE ConfirmWrite(h)
    BY <2>1, <1>1 DEF ConfirmWrite, FInv, PaidIffDelivered
  <2>2. CASE CourierWrite(h)
    <3>1. req[h].seen \in DeliveryRow /\ req[h].to \in DeliveryStatus /\ ~req[h].seen.paid
      BY <2>2, RequestTypes DEF CourierWrite, FInv, InFlightInv
    <3>2. delivery'[o] = Stored(req[h])
      BY <2>2, <1>1 DEF CourierWrite, FInv, FTypeOK, TypeOK
    <3> QED
      BY <3>1, <3>2 DEF Stored, DeliveryRow, DeliveryStatus
  <2> QED
    BY <2>1, <2>2
<1>5. order'[o] \in OrderRow /\ (order'[o].listing = order[o].listing)
      /\ (order'[o].status # "ABSENT")
  BY <1>3 DEF OrderRow, Status, FInv, DeliveriesHaveOrders, Placed
<1>6. TypeOK'
  <2>1. order' \in [OrderIds -> OrderRow]
    <3>1. DOMAIN order' = OrderIds /\ order' = [p \in OrderIds |-> order'[p]]
      BY DEF ConfirmWrite, CourierWrite, FInv, FTypeOK, TypeOK
    <3>2. \A p \in OrderIds : order'[p] \in OrderRow
      BY <1>2, <1>5, RowTypes DEF FInv, FTypeOK
    <3> QED
      BY <3>1, <3>2
  <2>2. delivery' \in [OrderIds -> DeliveryRow]
    <3>1. DOMAIN delivery' = OrderIds /\ delivery' = [p \in OrderIds |-> delivery'[p]]
      BY DEF ConfirmWrite, CourierWrite, FInv, FTypeOK, TypeOK
    <3>2. \A p \in OrderIds : delivery'[p] \in DeliveryRow
      BY <1>2, <1>4, RowTypes DEF FInv, FTypeOK
    <3> QED
      BY <3>1, <3>2
  <2>3. \A p \in OrderIds : Placed(p)' => order'[p].listing \in Listings
    BY <1>2, <1>5 DEF FInv, FTypeOK, TypeOK, DeliveriesHaveOrders, Placed
  <2> QED
    BY <1>2, <2>1, <2>2, <2>3 DEF FInv, FTypeOK, TypeOK
<1>7. FTypeOK'
  BY <1>6 DEF FTypeOK, FInv, ConfirmWrite, CourierWrite, Request
<1>8. InFlightInv'
  <2> SUFFICES ASSUME NEW g \in Handlers
               PROVE  /\ req'[g].kind # "idle" => delivery'[req'[g].order].status # "ABSENT"
                      /\ req'[g].kind = "courier" =>
                             /\ ~req'[g].seen.paid
                             /\ <<req'[g].seen.status, req'[g].to>> \in CourierTransitions
    BY DEF InFlightInv
  <2>1. CASE g = h
    BY <2>1, <1>2 DEF Idle
  <2>2. CASE g # h
    <3>1. req'[g] = req[g] /\ (req[g].kind # "idle" => req[g].order \in OrderIds)
      BY <2>2, <1>2, RequestTypes DEF FInv
    <3> QED
      BY <3>1, <1>2, <1>4 DEF FInv, InFlightInv
  <2> QED
    BY <2>1, <2>2
<1>9. DeliveriesHaveOrders' /\ CompletedWasDispatched' /\ PaidIffDelivered'
  BY <1>2, <1>4, <1>5 DEF FInv, DeliveriesHaveOrders, CompletedWasDispatched, PaidIffDelivered, Placed
<1> QED
  BY <1>7, <1>8, <1>9 DEF FInv

\* Uploading a photo changes one column of one delivery.
LEMMA UploadFInv ==
    ASSUME FInv, NEW o \in OrderIds, UploadProof(o)
    PROVE  FInv'
<1>1. \A p \in OrderIds : /\ delivery'[p].status = delivery[p].status
                          /\ delivery'[p].paid = delivery[p].paid
  BY RowTypes DEF UploadProof, FInv, FTypeOK, TypeOK, DeliveryRow
<1>2. listing' = listing /\ order' = order /\ req' = req
  BY DEF UploadProof
<1>3. delivery' \in [OrderIds -> DeliveryRow]
  BY DEF UploadProof, FInv, FTypeOK, TypeOK, DeliveryRow
<1>4. FTypeOK'
  BY <1>2, <1>3 DEF FInv, FTypeOK, TypeOK, Placed
<1>5. InFlightInv'
  BY <1>1, <1>2, RequestTypes DEF FInv, InFlightInv
<1>6. \A p \in OrderIds : delivery'[p].proof => delivery'[p].status # "ABSENT"
  BY <1>1, RowTypes DEF UploadProof, FInv, FTypeOK, TypeOK, DeliveryRow, DeliveriesHaveOrders
<1>7. DeliveriesHaveOrders' /\ CompletedWasDispatched' /\ PaidIffDelivered'
  BY <1>1, <1>2, <1>6
  DEF FInv, DeliveriesHaveOrders, CompletedWasDispatched, PaidIffDelivered, Placed
<1> QED
  BY <1>4, <1>5, <1>7 DEF FInv

\* FInv is an invariant.
LEMMA FInvariant == FSpec => []FInv
<1>1. FInv /\ [FNext]_fvars => FInv'
  <2> SUFFICES ASSUME FInv, [FNext]_fvars PROVE FInv'
    OBVIOUS
  <2>1. CASE UNCHANGED fvars
    BY <2>1 DEF fvars, FInv, FTypeOK, TypeOK, InFlightInv, DeliveriesHaveOrders,
       CompletedWasDispatched, PaidIffDelivered, Placed
  <2>2. CASE FNext
    <3> (\E d \in DeliveryStatus : TRUE)
      BY DEF DeliveryStatus
    <3> QED
      BY <2>2, ServiceStepFInv, ReadFInv, WriteFInv, UploadFInv DEF FNext, HandlerStep
  <2> QED
    BY <2>1, <2>2
<1> QED
  BY <1>1, InitFInv, PTL DEF FSpec

---------------------------------------------------------------------------
(* The theorems *)

\* Rows and requests keep their types, with any number of requests in flight.
THEOREM FTypeCorrect == FSpec => []FTypeOK
BY FInvariant, PTL DEF FInv

\* No interleaving completes an order that was never dispatched.
THEOREM CompletionNeedsDispatch == FSpec => []CompletedWasDispatched
BY FInvariant, PTL DEF FInv

\* No interleaving pays a courier for a delivery that does not stand.
THEOREM PayFollowsDelivery == FSpec => []PaidIffDelivered
BY FInvariant, PTL DEF FInv

\* The rows a write leaves alone: all but those of the order it is about.
LEMMA WriteIsLocal ==
    ASSUME FInv, NEW h \in Handlers, ConfirmWrite(h) \/ CourierWrite(h),
           NEW o \in OrderIds, o # req[h].order
    PROVE  order'[o] = order[o] /\ delivery'[o] = delivery[o]
BY RequestTypes DEF ConfirmWrite, CourierWrite, FInv, FTypeOK, TypeOK

\* Reads and uploads change neither an order nor the status of a delivery.
LEMMA ReadsAndUploadsKeepStatus ==
    ASSUME FInv, NEW p \in OrderIds,
           \/ UploadProof(p)
           \/ \E h \in Handlers : ConfirmRead(h, p)
           \/ \E h \in Handlers, to \in DeliveryStatus : CourierRead(h, p, to)
    PROVE  /\ listing' = listing /\ order' = order
           /\ \A o \in OrderIds : delivery'[o].status = delivery[o].status
<1>1. CASE UploadProof(p)
  BY <1>1, RowTypes DEF UploadProof, FInv, FTypeOK, TypeOK, DeliveryRow
<1> QED
  BY <1>1 DEF ConfirmRead, CourierRead

\* A cancellation before dispatch is final whatever is in flight.
THEOREM EarlyCancellationStays == FSpec => CancelledBeforeDispatchStays
<1> DEFINE Early(o) == order[o].status = "CANCELLED" /\ delivery[o].status = "ABSENT"
           A == \A o \in OrderIds : Early(o) =>
                    order'[o].status = "CANCELLED" /\ delivery'[o].status = "ABSENT"
<1>1. FInv /\ [FNext]_fvars => A
  <2> SUFFICES ASSUME FInv, [FNext]_fvars, NEW o \in OrderIds, Early(o)
               PROVE  order'[o].status = "CANCELLED" /\ delivery'[o].status = "ABSENT"
    OBVIOUS
  <2>1. CASE ServiceStep
    <3>1. order'[o] = order[o]
      BY <2>1, TerminalRowsStay DEF ServiceStep, FInv, FTypeOK, Terminal
    <3>2. delivery'[o] = delivery[o]
      BY <2>1, <3>1, ServiceKeepsDeliveries DEF ServiceStep, FInv, FTypeOK
    <3> QED
      BY <3>1, <3>2
  <2>2. ASSUME NEW h \in Handlers, ConfirmWrite(h) \/ CourierWrite(h)
        PROVE  order'[o] = order[o] /\ delivery'[o] = delivery[o]
    <3>1. o # req[h].order
      BY <2>2 DEF FInv, InFlightInv, ConfirmWrite, CourierWrite
    <3> QED
      BY <2>2, <3>1, WriteIsLocal
  <2>3. ASSUME NEW p \in OrderIds,
               \/ UploadProof(p)
               \/ \E h \in Handlers : ConfirmRead(h, p)
               \/ \E h \in Handlers, to \in DeliveryStatus : CourierRead(h, p, to)
        PROVE  order'[o].status = "CANCELLED" /\ delivery'[o].status = "ABSENT"
    BY <2>3, ReadsAndUploadsKeepStatus
  <2>4. CASE UNCHANGED fvars
    BY <2>4 DEF fvars
  <2> QED
    BY <2>1, <2>2, <2>3, <2>4 DEF FNext, HandlerStep
<1>2. FInv /\ [FNext]_fvars => [A]_fvars
  BY <1>1
<1> QED
  BY <1>2, FInvariant, PTL DEF FSpec, CancelledBeforeDispatchStays

\* An order and a delivery that are both over, with no request about them in
\* flight, stay over.
THEOREM SettledOrdersStay == FSpec => SettledIsFinal
<1> DEFINE A == \A o \in OrderIds : Settled(o) =>
                    /\ Settled(o)'
                    /\ order'[o].status = order[o].status
                    /\ delivery'[o].status = delivery[o].status
<1>1. FInv /\ [FNext]_fvars => A
  <2> SUFFICES ASSUME FInv, [FNext]_fvars, NEW o \in OrderIds, Settled(o)
               PROVE  /\ order'[o].status = order[o].status
                      /\ delivery'[o].status = delivery[o].status
                      /\ ~Busy(o)'
    BY DEF Settled
  <2> USE DEF Settled, Busy
  <2>1. CASE ServiceStep
    <3>1. order'[o] = order[o]
      BY <2>1, TerminalRowsStay DEF ServiceStep, FInv, FTypeOK
    <3>2. delivery'[o] = delivery[o]
      BY <2>1, <3>1, ServiceKeepsDeliveries DEF ServiceStep, FInv, FTypeOK, Terminal
    <3> QED
      BY <2>1, <3>1, <3>2 DEF ServiceStep
  <2>2. ASSUME NEW h \in Handlers, ConfirmWrite(h) \/ CourierWrite(h)
        PROVE  order'[o] = order[o] /\ delivery'[o] = delivery[o] /\ ~Busy(o)'
    <3>1. o # req[h].order
      BY <2>2 DEF ConfirmWrite, CourierWrite
    <3>2. ~Busy(o)'
      BY <2>2 DEF ConfirmWrite, CourierWrite, Idle, FInv, FTypeOK
    <3> QED
      BY <2>2, <3>1, <3>2, WriteIsLocal
  <2>3. ASSUME NEW p \in OrderIds, NEW h \in Handlers, NEW to \in DeliveryStatus,
               ConfirmRead(h, p) \/ CourierRead(h, p, to)
        PROVE  p # o /\ ~Busy(o)'
    <3>1. p # o
      BY <2>3 DEF ConfirmRead, CourierRead, BuyerConfirmableFrom, CourierTransitions,
         CourierAdvances, CourierCancels, Terminal, DeliveryTerminal
    <3>2. \A g \in Handlers \ {h} : req'[g] = req[g]
      BY <2>3 DEF ConfirmRead, CourierRead, FInv, FTypeOK
    <3>3. req'[h].order = p
      <4>1. CASE ConfirmRead(h, p)
        BY <4>1 DEF ConfirmRead, FInv, FTypeOK, Idle
      <4>2. CASE CourierRead(h, p, to)
        BY <4>2 DEF CourierRead, FInv, FTypeOK
      <4> QED
        BY <2>3, <4>1, <4>2
    <3> QED
      BY <3>1, <3>2, <3>3
  <2>4. CASE UNCHANGED fvars
    BY <2>4 DEF fvars
  <2>5. ASSUME NEW p \in OrderIds, UploadProof(p)
        PROVE  ~Busy(o)'
    BY <2>5 DEF UploadProof
  <2>6. \E d \in DeliveryStatus : TRUE
    BY DEF DeliveryStatus
  <2> QED
    BY <2>1, <2>2, <2>3, <2>4, <2>5, <2>6, ReadsAndUploadsKeepStatus DEF FNext, HandlerStep
<1>2. FInv /\ [FNext]_fvars => [A]_fvars
  BY <1>1
<1> QED
  BY <1>2, FInvariant, PTL DEF FSpec, SettledIsFinal

\* What a delivery has reached, its end or its proof photo, is lost only when
\* an outdated copy of it is saved.
THEOREM OnlyStaleCopiesUndoDeliveries == FSpec => OnlyStaleCopiesUndo
<1> DEFINE Undone(o) ==
               \/ delivery[o].status \in DeliveryTerminal /\ delivery'[o].status # delivery[o].status
               \/ delivery[o].proof /\ ~delivery'[o].proof
           A == \A o \in OrderIds : Undone(o) => \E h \in Handlers : SavesStaleCopy(h, o)
<1>1. FInv /\ [FNext]_fvars => A
  <2> SUFFICES ASSUME FInv, [FNext]_fvars, NEW o \in OrderIds, Undone(o)
               PROVE  \E h \in Handlers : SavesStaleCopy(h, o)
    OBVIOUS
  <2>1. CASE ServiceStep
    BY <2>1, ServiceKeepsDeliveries DEF ServiceStep, FInv, FTypeOK, DeliveryTerminal,
       DeliveriesHaveOrders
  <2>2. ASSUME NEW h \in Handlers, CourierWrite(h)
        PROVE  SavesStaleCopy(h, o)
    <3>1. o = req[h].order
      BY <2>2, WriteIsLocal
    <3>2. delivery'[o] = Stored(req[h])
      BY <2>2, <3>1 DEF CourierWrite, FInv, FTypeOK, TypeOK
    <3>3. req[h].seen \in DeliveryRow
      BY <2>2, RequestTypes DEF CourierWrite, FInv
    <3>4. delivery'[o].proof = req[h].seen.proof
      BY <3>2, <3>3 DEF Stored, DeliveryRow
    <3>5. req[h].seen.status \notin DeliveryTerminal
      BY <2>2 DEF FInv, InFlightInv, CourierWrite, CourierTransitions, CourierAdvances,
         CourierCancels, DeliveryTerminal
    <3> QED
      BY <2>2, <3>1, <3>4, <3>5 DEF SavesStaleCopy, CourierWrite
  <2>3. \A h \in Handlers : ~ConfirmWrite(h)
    BY DEF ConfirmWrite
  <2>4. ASSUME NEW p \in OrderIds, UploadProof(p)
        PROVE  FALSE
    BY <2>4, RowTypes DEF UploadProof, FInv, FTypeOK, TypeOK, DeliveryRow
  <2> QED
    BY <2>1, <2>2, <2>3, <2>4 DEF FNext, HandlerStep, ConfirmRead, CourierRead, fvars
<1>2. FInv /\ [FNext]_fvars => [A]_fvars
  BY <1>1
<1> QED
  BY <1>2, FInvariant, PTL DEF FSpec, OnlyStaleCopiesUndo

\* Every step but the revival of a cancelled order keeps shelf and live orders
\* adding up to the supply.
THEOREM OnlyRevivalLosesStock == FSpec => OnlyRevivalBreaksTheBooks
<1> DEFINE Revival == \E o \in OrderIds :
                          order[o].status = "CANCELLED" /\ order'[o].status # "CANCELLED"
           A == StockConserved => StockConserved' \/ Revival
<1>1. FInv /\ [FNext]_fvars => A
  <2> SUFFICES ASSUME FInv, [FNext]_fvars, StockConserved, ~Revival
               PROVE  StockConserved'
    OBVIOUS
  <2>1. CASE ServiceStep
    BY <2>1, NextStockConserved DEF ServiceStep, FInv, FTypeOK
  <2>2. ASSUME NEW h \in Handlers, ConfirmWrite(h) \/ CourierWrite(h)
        PROVE  StockConserved'
    <3>1. PICK o \in OrderIds : o = req[h].order
      BY <2>2, RequestTypes DEF FInv, ConfirmWrite, CourierWrite
    <3>2. order[o].status # "ABSENT"
      BY <2>2, <3>1 DEF FInv, InFlightInv, DeliveriesHaveOrders, Placed, ConfirmWrite, CourierWrite
    <3>3. \/ order'[o] = order[o]
          \/ /\ order[o].status # "CANCELLED"
             /\ \E s \in {"DELIVERED_PENDING_CONFIRMATION", "DELIVERED"} :
                    order'[o] = [order[o] EXCEPT !.status = s]
      BY <2>2, <3>1, RowTypes DEF ConfirmWrite, CourierWrite, FInv, FTypeOK, TypeOK, OrderRow
    <3>4. \A p \in OrderIds, l \in Listings : Held(p, l)' = Held(p, l)
      <4>1. \A l \in Listings : Held(o, l)' = Held(o, l)
        BY <3>2, <3>3, RowTypes DEF Held, FInv, FTypeOK, OrderRow
      <4>2. \A p \in OrderIds \ {o} : order'[p] = order[p]
        BY <2>2, <3>1, WriteIsLocal
      <4> QED
        BY <4>1, <4>2 DEF Held
    <3> QED
      BY <2>2, <3>4, SameHoldings DEF ConfirmWrite, CourierWrite
  <2>3. ASSUME order' = order, listing' = listing
        PROVE  StockConserved'
    BY <2>3, SameHoldings DEF Held
  <2> QED
    BY <2>1, <2>2, <2>3, ReadsAndUploadsKeepStatus DEF FNext, HandlerStep, fvars
<1>2. FInv /\ [FNext]_fvars => [A]_fvars
  BY <1>1
<1> QED
  BY <1>2, FInvariant, PTL DEF FSpec, OnlyRevivalBreaksTheBooks

---------------------------------------------------------------------------
(* The boards *)

\* Any orders are finitely many, so that a page can be counted.
LEMMA OrdersAreCounted ==
    ASSUME NEW S \in SUBSET OrderIds
    PROVE  Cardinality(S) \in Nat
<1>1. IsFiniteSet(OrderIds)
  <2>1. 1 \in Int /\ MaxOrders \in Int
    BY MaxOrdersAssumption
  <2> QED
    BY <2>1, FS_Interval, Zenon DEF OrderIds
<1>2. IsFiniteSet(S)
  BY <1>1, FS_Subset, Zenon
<1> QED
  BY <1>2, FS_CardinalityType

\* An order that is not on its page has a full page of newer ones before it.
LEMMA PushedOffByNewer ==
    ASSUME NEW S \in SUBSET OrderIds, NEW o \in S, o \notin Page(S)
    PROVE  Cardinality({p \in S : p > o}) >= PageSize
<1>1. Cardinality({p \in S : p > o}) \in Nat
  BY OrdersAreCounted
<1>2. ~(Cardinality({p \in S : p > o}) < PageSize)
  BY DEF Page
<1> QED
  BY <1>1, <1>2, BoardsAssumption

\* The operators' buckets divide the statuses among them.
LEMMA OneBucketEach ==
    ASSUME TypeOK, NEW o \in OrderIds, Placed(o)
    PROVE  \E b \in Buckets :
               o \in OperatorInbox(b) /\ \A c \in Buckets \ {b} : o \notin OperatorInbox(c)
<1> order[o].status \in Status
  BY RowTypes DEF Placed
<1>1. CASE order[o].status = "PENDING"
  <2>1. o \in OperatorInbox("new") /\ o \notin OperatorInbox("active") /\ o \notin OperatorInbox("done")
    BY <1>1 DEF OperatorInbox, With, Terminal
  <2> QED
    BY <2>1 DEF Buckets
<1>2. CASE order[o].status \in Terminal
  <2>1. o \notin OperatorInbox("new") /\ o \notin OperatorInbox("active") /\ o \in OperatorInbox("done")
    BY <1>2 DEF OperatorInbox, With, Terminal
  <2> QED
    BY <2>1 DEF Buckets
<1>3. CASE order[o].status \notin {"PENDING"} \cup Terminal
  <2>1. o \notin OperatorInbox("new") /\ o \in OperatorInbox("active") /\ o \notin OperatorInbox("done")
    BY <1>3 DEF OperatorInbox, With, Terminal, Status
  <2> QED
    BY <2>1 DEF Buckets
<1> QED
  BY <1>1, <1>2, <1>3

\* Nothing under way is lost between the boards of the partner app: a state
\* added to the machine would have to be added to every list of them.
THEOREM BoardsAreComplete == Spec => []BoardsMissNothing
<1>1. TypeOK /\ LifecycleInv => BoardsMissNothing
  <2> SUFFICES ASSUME TypeOK, ClaimedJobsLeftThePool PROVE BoardsMissNothing
    BY DEF LifecycleInv
  <2>1. ASSUME NEW o \in OrderIds, Placed(o)
        PROVE  \E b \in Buckets :
                   /\ o \in OperatorInbox(b)
                   /\ \A c \in Buckets \ {b} : o \notin OperatorInbox(c)
                   /\ o \notin Page(OperatorInbox(b)) =>
                          Cardinality({p \in OperatorInbox(b) : p > o}) >= PageSize
    <3>1. PICK b \in Buckets :
              o \in OperatorInbox(b) /\ \A c \in Buckets \ {b} : o \notin OperatorInbox(c)
      BY <2>1, OneBucketEach
    <3>2. OperatorInbox(b) \subseteq OrderIds
      BY <3>1 DEF OperatorInbox, With, Buckets
    <3> QED
      BY <3>1, <3>2, PushedOffByNewer
  <2>2. OpenOrders("operator") = OperatorInbox("new")
    BY DEF OpenOrders, OperatorInbox
  <2>3. ASSUME NEW q \in Qassobs, NEW animals \in BOOLEAN
        PROVE  /\ QassobInbox(q, animals, "new") \subseteq OpenOrders("qassob")
               /\ \A o \in QassobInbox(q, animals, "new") : order[o].assigned_qassob = Null
               /\ \A o \in Mine(q) :
                      \/ \E b \in {"active", "done"} : o \in QassobInbox(q, animals, b)
                      \/ order[o].status = "DELIVERED_PENDING_CONFIRMATION"
               /\ QassobInbox(q, animals, "active") \subseteq Booked(q)
    <3>1. QassobInbox(q, animals, "new") \subseteq With({"AWAITING_QASSOB"})
      BY DEF QassobInbox
    <3>2. /\ QassobInbox(q, animals, "active") = Mine(q) \cap With({"PROCESSING_BUTCHER", "IN_TRANSIT"})
          /\ QassobInbox(q, animals, "done") = Mine(q) \cap With(Terminal)
      BY DEF QassobInbox
    <3>3. \A o \in Mine(q) : order[o].status \in {"PROCESSING_BUTCHER", "IN_TRANSIT",
                                 "DELIVERED_PENDING_CONFIRMATION", "CANCELLED"}
      BY NullAssumption DEF Mine, ClaimedJobsLeftThePool
    <3>4. Mine(q) \subseteq OrderIds
      BY DEF Mine
    <3>5. \A o \in Mine(q) :
              \/ o \in QassobInbox(q, animals, "active") \/ o \in QassobInbox(q, animals, "done")
              \/ order[o].status = "DELIVERED_PENDING_CONFIRMATION"
      BY <3>2, <3>3, <3>4 DEF With, Terminal
    <3>6. QassobInbox(q, animals, "new") \subseteq OpenOrders("qassob")
      BY <3>1 DEF OpenOrders
    <3>7. \A o \in QassobInbox(q, animals, "new") : order[o].assigned_qassob = Null
      BY <3>1 DEF With, ClaimedJobsLeftThePool
    <3>8. QassobInbox(q, animals, "active") \subseteq Booked(q)
      BY <3>2 DEF Booked, With
    <3> QED
      BY <3>5, <3>6, <3>7, <3>8
  <2>4. ASSUME NEW o \in OrderIds, Placed(o), o \notin Tiles
        PROVE  order[o].status \in {"AWAITING_QASSOB", "PROCESSING_BUTCHER",
                                    "DELIVERED_PENDING_CONFIRMATION"}
    <3>1. order[o].status \in Status
      BY <2>4, RowTypes DEF Placed
    <3> QED
      BY <2>4, <3>1 DEF Tiles, With, Status
  <2> QED
    BY <2>1, <2>2, <2>3, <2>4 DEF BoardsMissNothing
<1> QED
  BY <1>1, LifecycleInvariant, PTL

\* What the boards rely on: an order with a delivery is past its dispatch for
\* good, whatever overlaps, and one whose delivery stands as made has arrived.
DispatchIsBehind ==
    \A o \in OrderIds :
        /\ delivery[o].status # "ABSENT" =>
               order[o].status \in {"IN_TRANSIT", "DELIVERED_PENDING_CONFIRMATION"} \cup Terminal
        /\ delivery[o].status = "DELIVERED" =>
               order[o].status \in {"DELIVERED_PENDING_CONFIRMATION"} \cup Terminal

\* The service layer leads an order that was dispatched on, or cancels it.
LEMMA ServiceKeepsDispatch ==
    ASSUME FInv, DispatchIsBehind, Next
    PROVE  DispatchIsBehind'
<1> TypeOK /\ DeliveriesHaveOrders
  BY DEF FInv, FTypeOK
<1>1. ASSUME NEW l \in Listings, NEW q \in Quantities, NEW fee \in Fees,
             CreateOrder(l, q, fee)
      PROVE  DispatchIsBehind'
  BY <1>1 DEF CreateOrder, TypeOK, DispatchIsBehind, DeliveriesHaveOrders, Placed
<1>2. ASSUME NEW o \in OrderIds, NEW by, CancelOrder(o, by)
      PROVE  DispatchIsBehind'
  BY <1>2 DEF CancelOrder, TypeOK, OrderRow, DispatchIsBehind, Terminal
<1>3. ASSUME NEW o \in OrderIds, NEW new \in Status, MoveOrder(o, new)
      PROVE  DispatchIsBehind'
  <2>1. order'[o].status = new /\ \A p \in OrderIds \ {o} :
            order'[p] = order[p] /\ delivery'[p] = delivery[p]
    BY <1>3 DEF MoveOrder, AutoAssignDelivery, TypeOK, OrderRow
  <2>2. \/ delivery'[o] = delivery[o]
        \/ delivery[o].status = "ABSENT" /\ delivery'[o] = NewDelivery /\ new = "IN_TRANSIT"
    BY <1>3 DEF MoveOrder, AutoAssignDelivery, TypeOK
  <2>3. delivery[o].status # "ABSENT" =>
            order[o].status = "IN_TRANSIT" /\ new = "DELIVERED_PENDING_CONFIRMATION"
    BY <1>3 DEF MoveOrder, DispatchIsBehind, SupplierTransitions, Terminal
  <2>4. NewDelivery.status = "ASSIGNED"
    BY DEF NewDelivery, NoDelivery
  <2> QED
    BY <2>1, <2>2, <2>3, <2>4 DEF DispatchIsBehind
<1>4. ASSUME NEW o \in OrderIds, NEW q \in Qassobs, ClaimOrder(o, q)
      PROVE  DispatchIsBehind'
  BY <1>4 DEF ClaimOrder, TypeOK, OrderRow, DispatchIsBehind, Terminal
<1> QED
  BY <1>1, <1>2, <1>3, <1>4, EndpointsAreServiceCalls DEF ServiceCall

\* A stale save writes the status of an order only to where dispatched orders
\* end up, and a delivery only as the copy's transition says.
LEMMA WriteKeepsDispatch ==
    ASSUME FInv, DispatchIsBehind, NEW h \in Handlers, ConfirmWrite(h) \/ CourierWrite(h)
    PROVE  DispatchIsBehind'
<1>1. PICK o \in OrderIds : o = req[h].order
  BY RequestTypes DEF FInv, ConfirmWrite, CourierWrite
<1> order[o] \in OrderRow /\ delivery[o] \in DeliveryRow /\ delivery[o].status # "ABSENT"
  BY <1>1, RowTypes DEF FInv, FTypeOK, InFlightInv, ConfirmWrite, CourierWrite
<1>2. \A p \in OrderIds \ {o} : order'[p] = order[p] /\ delivery'[p] = delivery[p]
  BY <1>1, WriteIsLocal
<1>3. CASE ConfirmWrite(h)
  <2>1. order'[o].status = "DELIVERED" /\ delivery'[o] = delivery[o]
    BY <1>1, <1>3 DEF ConfirmWrite, FInv, FTypeOK, TypeOK, OrderRow
  <2> QED
    BY <1>2, <2>1 DEF DispatchIsBehind, Terminal
<1>4. CASE CourierWrite(h)
  <2>1. req[h].seen \in DeliveryRow /\ req[h].to \in DeliveryStatus
    BY <1>4, RequestTypes DEF CourierWrite, FInv
  <2>2. delivery'[o].status = req[h].to
    BY <1>1, <1>4, <2>1 DEF CourierWrite, Stored, DeliveryRow, FInv, FTypeOK, TypeOK
  <2>3. order'[o].status = IF req[h].to = "DELIVERED" THEN "DELIVERED_PENDING_CONFIRMATION"
                           ELSE order[o].status
    BY <1>1, <1>4 DEF CourierWrite, FInv, FTypeOK, TypeOK, OrderRow
  <2> QED
    BY <1>2, <2>2, <2>3 DEF DispatchIsBehind
<1> QED
  BY <1>3, <1>4

\* Whatever overlaps, the boards of operator, courier and buyer agree.
THEOREM BoardsOfAllAgree == FSpec => []BoardsAgree
<1>1. FInit => DispatchIsBehind
  BY DEF FInit, Init, NoDelivery, DispatchIsBehind
<1>2. FInv /\ DispatchIsBehind /\ [FNext]_fvars => DispatchIsBehind'
  <2> SUFFICES ASSUME FInv, DispatchIsBehind, [FNext]_fvars PROVE DispatchIsBehind'
    OBVIOUS
  <2>1. CASE ServiceStep
    BY <2>1, ServiceKeepsDispatch DEF ServiceStep
  <2>2. ASSUME NEW h \in Handlers, HandlerStep(h) PROVE DispatchIsBehind'
    BY <2>2, WriteKeepsDispatch DEF HandlerStep, ConfirmRead, CourierRead, DispatchIsBehind
  <2>3. ASSUME NEW o \in OrderIds, UploadProof(o) PROVE DispatchIsBehind'
    <3>1. order' = order /\ \A p \in OrderIds : delivery'[p].status = delivery[p].status
      BY <2>3, RowTypes DEF UploadProof, FInv, FTypeOK, TypeOK, DeliveryRow
    <3> QED
      BY <3>1 DEF DispatchIsBehind
  <2>4. CASE UNCHANGED fvars
    BY <2>4 DEF fvars, DispatchIsBehind
  <2> QED
    BY <2>1, <2>2, <2>3, <2>4 DEF FNext
<1>3. FInv /\ DispatchIsBehind => BoardsAgree
  <2> SUFFICES ASSUME FInv, DispatchIsBehind, NEW o \in OrderIds
               PROVE  /\ order[o].status \in {"IN_TRANSIT", "DELIVERED_PENDING_CONFIRMATION",
                                              "DELIVERED"} => CourierShown(o)
                      /\ o \in Earned =>
                             /\ delivery[o].paid
                             /\ order[o].status \in {"DELIVERED_PENDING_CONFIRMATION",
                                                     "DELIVERED", "CANCELLED"}
                      /\ o \in CourierQueue("queue") \cup CourierQueue("active") =>
                             o \notin OperatorInbox("new") /\ (o \in OperatorInbox("active") =>
                                 order[o].status \in {"IN_TRANSIT", "DELIVERED_PENDING_CONFIRMATION"})
    BY DEF BoardsAgree
  <2>1. order[o].status \in {"IN_TRANSIT", "DELIVERED_PENDING_CONFIRMATION", "DELIVERED"}
            => CourierShown(o)
    BY DEF FInv, CompletedWasDispatched, CourierShown
  <2>2. o \in Earned => delivery[o].paid /\ order[o].status \in
                            {"DELIVERED_PENDING_CONFIRMATION", "DELIVERED", "CANCELLED"}
    BY DEF Earned, FInv, PaidIffDelivered, DispatchIsBehind, Terminal
  <2>3. o \in CourierQueue("queue") \cup CourierQueue("active") => delivery[o].status # "ABSENT"
    BY DEF CourierQueue
  <2>4. o \in OperatorInbox("new") => order[o].status = "PENDING"
    BY DEF OperatorInbox, With
  <2>5. o \in OperatorInbox("active") => order[o].status \notin Terminal
    BY DEF OperatorInbox, With, Terminal
  <2> QED
    BY <2>1, <2>2, <2>3, <2>4, <2>5 DEF DispatchIsBehind, Terminal
<1> QED
  BY <1>1, <1>2, <1>3, FInvariant, PTL DEF FSpec
=============================================================================
