----------------------------- MODULE Fulfilment -----------------------------
(***************************************************************************)
(* The last mile: the couriers' endpoints and the buyer's confirmation,    *)
(* running beside the service layer of Orders on the same rows.            *)
(*                                                                         *)
(* These handlers do not lock what they read.  Under READ COMMITTED and    *)
(* without ATOMIC_REQUESTS, a SELECT, the test of what it returned and the *)
(* later UPDATE of a request are separate steps, and the steps of other    *)
(* requests come between them.  So each such handler is a Read step, which *)
(* passes the test and keeps the row it saw, and a Write step, which       *)
(* stores from that copy.                                                  *)
(***************************************************************************)
EXTENDS Orders

CONSTANT Handlers       \* BOUND: requests being served at the same time

VARIABLE req            \* req[h]: what handler h has read and not yet written

fvars == <<listing, order, delivery, req>>

\* COURIER_TRANSITIONS, as the set of its edges.
CourierAdvances ==
    {<<"ASSIGNED", "PICKED_UP">>, <<"PICKED_UP", "EN_ROUTE">>,
     <<"EN_ROUTE", "ARRIVED">>, <<"ARRIVED", "DELIVERED">>}
CourierCancels == {"ASSIGNED", "PICKED_UP", "EN_ROUTE", "ARRIVED"} \X {"CANCELLED"}

\* Mutant of CourierTransitions: a cancelled delivery can be taken up again.
CourierTransitions_Reopen ==
    CourierAdvances \cup CourierCancels \cup {<<"CANCELLED", "ASSIGNED">>}

CourierTransitions == CourierAdvances \cup CourierCancels

DeliveryTerminal == {"DELIVERED", "CANCELLED"}

\* Mutant of BuyerConfirmableFrom: a buyer may confirm any order under way.
BuyerConfirmableFrom_Any == Status \ Terminal

BuyerConfirmableFrom == {"DELIVERED_PENDING_CONFIRMATION"}

Idle == [kind |-> "idle", order |-> Null, seen |-> NoDelivery, to |-> "ABSENT"]

Request ==
    {Idle}
    \cup [kind : {"confirm"}, order : OrderIds, seen : {NoDelivery}, to : {"ABSENT"}]
    \cup [kind : {"courier"}, order : OrderIds, seen : DeliveryRow, to : DeliveryStatus]

Busy(o) == \E h \in Handlers : req[h].kind # "idle" /\ req[h].order = o

---------------------------------------------------------------------------
(* OrderConfirmDeliveryView: the buyer's last tap. *)

ConfirmRead(h, o) ==
    /\ req[h] = Idle
    /\ order[o].status \in BuyerConfirmableFrom
    /\ req' = [req EXCEPT ![h] = [Idle EXCEPT !.kind = "confirm", !.order = o]]
    /\ UNCHANGED <<listing, order, delivery>>

\* save(update_fields=("status", ...)) of the copy: the status column only,
\* whatever the row says by now.
ConfirmWrite(h) ==
    /\ req[h].kind = "confirm"
    /\ order' = [order EXCEPT ![req[h].order].status = "DELIVERED"]
    /\ req' = [req EXCEPT ![h] = Idle]
    /\ UNCHANGED <<listing, delivery>>

---------------------------------------------------------------------------
(* CourierDeliveryStatusView: the courier moves the delivery along. *)

CourierRead(h, o, to) ==
    /\ req[h] = Idle
    /\ <<delivery[o].status, to>> \in CourierTransitions
    /\ req' = [req EXCEPT ![h] =
           [kind |-> "courier", order |-> o, seen |-> delivery[o], to |-> to]]
    /\ UNCHANGED <<listing, order, delivery>>

\* Mutant of Stored: only the columns that changed are saved.
Stored_Partial(r) ==
    [delivery[r.order] EXCEPT !.status = r.to, !.paid = @ \/ r.to = "DELIVERED"]

\* The row stored by delivery.save(): every column, from the copy, with the
\* new status and, on delivery, the payout.
Stored(r) == [r.seen EXCEPT !.status = r.to, !.paid = @ \/ r.to = "DELIVERED"]

\* One transaction: on DELIVERED the order goes to the buyer for
\* confirmation, without a look at its status; then the delivery is saved.
CourierWrite(h) ==
    LET r == req[h] IN
    /\ r.kind = "courier"
    /\ order' = IF r.to = "DELIVERED"
                THEN [order EXCEPT ![r.order].status = "DELIVERED_PENDING_CONFIRMATION"]
                ELSE order
    /\ delivery' = [delivery EXCEPT ![r.order] = Stored(r)]
    /\ req' = [req EXCEPT ![h] = Idle]
    /\ UNCHANGED listing

\* CourierDeliveryProofView writes the proof_photo column and nothing else.
UploadProof(o) ==
    /\ delivery[o].status # "ABSENT"
    /\ delivery' = [delivery EXCEPT ![o].proof = TRUE]
    /\ UNCHANGED <<listing, order, req>>

---------------------------------------------------------------------------

FInit == Init /\ req = [h \in Handlers |-> Idle]

ServiceStep == Next /\ UNCHANGED req

HandlerStep(h) ==
    \/ \E o \in OrderIds : ConfirmRead(h, o)
    \/ ConfirmWrite(h)
    \/ \E o \in OrderIds, to \in DeliveryStatus : CourierRead(h, o, to)
    \/ CourierWrite(h)

FNext ==
    \/ ServiceStep
    \/ \E h \in Handlers : HandlerStep(h)
    \/ \E o \in OrderIds : UploadProof(o)

FSpec == FInit /\ [][FNext]_fvars

---------------------------------------------------------------------------
(* Properties the code has in spite of the races *)

FTypeOK == TypeOK /\ req \in [Handlers -> Request]

\* No order reaches the buyer's confirmation, or is confirmed, that was never
\* dispatched: neither a stale confirmation nor a late courier can complete
\* an order that has no delivery.
CompletedWasDispatched ==
    \A o \in OrderIds :
        order[o].status \in {"IN_TRANSIT", "DELIVERED_PENDING_CONFIRMATION", "DELIVERED"}
            => delivery[o].status # "ABSENT"

\* The courier is paid exactly for deliveries that stand as DELIVERED: a late
\* write of another status takes the payout back with it, because it stores
\* the whole row of one snapshot.
PaidIffDelivered ==
    \A o \in OrderIds : delivery[o].paid <=> delivery[o].status = "DELIVERED"

\* A cancellation before dispatch is final: no request in flight, of buyer,
\* courier or operator, can bring the order back.
CancelledBeforeDispatchStays ==
    [][\A o \in OrderIds :
           order[o].status = "CANCELLED" /\ delivery[o].status = "ABSENT"
               => order'[o].status = "CANCELLED" /\ delivery'[o].status = "ABSENT"]_fvars

\* Once the order is terminal, its courier too, and no request about it is in
\* flight, both stay as they are for ever.
Settled(o) ==
    /\ order[o].status \in Terminal
    /\ delivery[o].status \in DeliveryTerminal \cup {"ABSENT"}
    /\ ~Busy(o)

SettledIsFinal ==
    [][\A o \in OrderIds : Settled(o) =>
           /\ Settled(o)'
           /\ order'[o].status = order[o].status
           /\ delivery'[o].status = delivery[o].status]_fvars

\* The only way for stock and orders to stop adding up to the supply is a
\* cancelled order that leaves CANCELLED: its kilograms were already given
\* back.  No other interleaving loses or invents a kilogram.
OnlyRevivalBreaksTheBooks ==
    [][StockConserved =>
           \/ StockConserved'
           \/ \E o \in OrderIds : order[o].status = "CANCELLED"
                                  /\ order'[o].status # "CANCELLED"]_fvars

\* What has been done to a delivery is undone only by a request that read the
\* row before: a terminal status is left, or a proof photo lost, in no other
\* step than the save of an outdated copy.  Requests that come one at a time
\* leave both alone.
SavesStaleCopy(h, o) ==
    /\ req[h].kind = "courier" /\ req[h].order = o /\ req[h].seen # delivery[o]
    /\ CourierWrite(h)

OnlyStaleCopiesUndo ==
    [][\A o \in OrderIds :
           \/ delivery[o].status \in DeliveryTerminal /\ delivery'[o].status # delivery[o].status
           \/ delivery[o].proof /\ ~delivery'[o].proof
           => \E h \in Handlers : SavesStaleCopy(h, o)]_fvars

---------------------------------------------------------------------------
(* What the repository says and the code does not do *)

\* services.py: concurrent orders cannot oversell.  What live orders hold of a
\* listing never exceeds what there ever was of it.
NoOversell == \A l \in Listings : HeldTotals(l) # {}
=============================================================================
