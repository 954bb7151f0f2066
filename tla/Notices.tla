------------------------------ MODULE Notices ------------------------------
(***************************************************************************)
(* What a buyer is told about one order (backend/apps/notifications): the  *)
(* signals around Order.save read the status stored before, and after the  *)
(* save add a Notification row if it was another one.                      *)
(*                                                                         *)
(* The service layer saves under a row lock, so its read, save and notice  *)
(* are one step.  The buyer's confirmation saves without a transaction:    *)
(* test, read, save and notice are four steps.  A courier's DELIVERED runs *)
(* in a transaction without a lock: the row is taken by the save, so its   *)
(* test, its read, and the save with the notice are three.  Either request *)
(* may die between two steps.                                              *)
(***************************************************************************)
EXTENDS Sequences, Integers, FiniteSets

CONSTANTS
    Requests,       \* BOUND: requests of buyer and courier under way at once
    MaxNotices      \* BOUND: notices about the order

VARIABLES
    status,         \* the status column of the order
    courier,        \* the delivery: "none" before dispatch, "going" or "ended"
    notices,        \* rows for the order, oldest first: [to, status]
    asked,          \* asked[r]: what request r has read so far
    untold          \* history: a confirmation died between its save and its notice

nvars == <<status, courier, notices, asked, untold>>

\* SUPPLIER_TRANSITIONS; anything but a completed order may be cancelled.
ServiceEdges ==
    {<<"PENDING", "CONFIRMED">>,
     <<"CONFIRMED", "PROCESSING">>, <<"CONFIRMED", "AWAITING_QASSOB">>,
     <<"CONFIRMED", "PROCESSING_BUTCHER">>,
     <<"AWAITING_QASSOB", "PROCESSING_BUTCHER">>,
     <<"PROCESSING", "IN_TRANSIT">>, <<"PROCESSING_BUTCHER", "IN_TRANSIT">>,
     <<"IN_TRANSIT", "DELIVERED_PENDING_CONFIRMATION">>}
    \cup ({"PENDING", "CONFIRMED", "PROCESSING", "AWAITING_QASSOB", "PROCESSING_BUTCHER",
           "IN_TRANSIT", "DELIVERED_PENDING_CONFIRMATION"} \X {"CANCELLED"})

NotAsked == [by |-> "nobody", at |-> "idle", before |-> "none"]

Quiet == \A r \in Requests : asked[r] = NotAsked

Row(who, new) == [to |-> who, status |-> new]

\* Mutant of Told: a cancellation is told to the supplier alone.
Told_CancelledBySupplier(before, new) ==
    CASE new = before -> <<>>
      [] new = "CANCELLED" -> <<Row("supplier", new)>>
      [] OTHER -> <<Row("buyer", new)>>

\* _notify_order_event on a save that is not the first.
Told(before, new) ==
    CASE new = before -> <<>>
      [] new # before /\ new = "CANCELLED" -> <<Row("buyer", new), Row("supplier", new)>>
      [] OTHER -> <<Row("buyer", new)>>

Add(rows) ==
    /\ Len(notices) + Len(rows) <= MaxNotices
    /\ notices' = notices \o rows

---------------------------------------------------------------------------

\* create_order: the first save tells the supplier.
NInit ==
    /\ status = "PENDING"
    /\ courier = "none"
    /\ notices = <<Row("supplier", "PENDING")>>
    /\ asked = [r \in Requests |-> NotAsked]
    /\ untold = FALSE

\* cancel_order and transition_order_status, with the dispatch they trigger.
ServiceSaves(new) ==
    /\ <<status, new>> \in ServiceEdges
    /\ status' = new
    /\ courier' = IF new = "IN_TRANSIT" /\ courier = "none" THEN "going" ELSE courier
    /\ Add(Told(status, new))
    /\ UNCHANGED <<asked, untold>>

Ask(r, by) ==
    /\ asked[r] = NotAsked
    /\ asked' = [asked EXCEPT ![r] = [by |-> by, at |-> "tested", before |-> "none"]]
    /\ UNCHANGED <<status, courier, notices, untold>>

ConfirmAsked(r) == status = "DELIVERED_PENDING_CONFIRMATION" /\ Ask(r, "buyer")

CourierAsked(r) == courier = "going" /\ Ask(r, "courier")

\* _track_status_change, which looks the stored status up again.
Track(r) ==
    /\ asked[r].at = "tested"
    /\ asked' = [asked EXCEPT ![r].at = "tracked", ![r].before = status]
    /\ UNCHANGED <<status, courier, notices, untold>>

ConfirmSaves(r) ==
    /\ asked[r].by = "buyer" /\ asked[r].at = "tracked"
    /\ status' = "DELIVERED"
    /\ asked' = [asked EXCEPT ![r].at = "saved"]
    /\ UNCHANGED <<courier, notices, untold>>

ConfirmTells(r) ==
    /\ asked[r].by = "buyer" /\ asked[r].at = "saved"
    /\ Add(Told(asked[r].before, "DELIVERED"))
    /\ asked' = [asked EXCEPT ![r] = NotAsked]
    /\ UNCHANGED <<status, courier, untold>>

\* The save, its notice, the one of _fire_buyer_confirm_reminder and the
\* delivery's own save are committed together.
CourierSaves(r) ==
    LET arrived == "DELIVERED_PENDING_CONFIRMATION" IN
    /\ asked[r].by = "courier" /\ asked[r].at = "tracked"
    /\ status' = arrived
    /\ courier' = "ended"
    /\ Add(Append(Told(asked[r].before, arrived), Row("buyer", "reminder")))
    /\ asked' = [asked EXCEPT ![r] = NotAsked]
    /\ UNCHANGED untold

\* The worker is killed, or the database refuses: what was committed stays.
RequestDies(r) ==
    /\ asked[r] # NotAsked
    /\ asked' = [asked EXCEPT ![r] = NotAsked]
    /\ untold' = (untold \/ (asked[r].at = "saved" /\ asked[r].before # "DELIVERED"))
    /\ UNCHANGED <<status, courier, notices>>

\* A courier's other requests do not touch the order.  They end the delivery,
\* and one that saves an outdated copy puts it back under way; when they can
\* is left to Fulfilment.
CourierElsewhere ==
    /\ courier # "none"
    /\ courier' \in {"going", "ended"} \ {courier}
    /\ UNCHANGED <<status, notices, asked, untold>>

NNext ==
    \/ \E e \in ServiceEdges : ServiceSaves(e[2])
    \/ \E r \in Requests :
           \/ ConfirmAsked(r) \/ CourierAsked(r)
           \/ Track(r)
           \/ ConfirmSaves(r) \/ ConfirmTells(r)
           \/ CourierSaves(r)
           \/ RequestDies(r)
    \/ CourierElsewhere

NSpec == NInit /\ [][NNext]_nvars

---------------------------------------------------------------------------
(* Properties *)

\* When no request is under way, the buyer has at some time been told the
\* status the order has, unless that is DELIVERED and a confirmation died before
\* it told him.  It need not be the newest notice: of overlapping requests the
\* one that saved first may be the last to tell, and one that found its own
\* status stored before it saved tells nothing.
StandingStatusWasTold ==
    Quiet /\ status # "PENDING" =>
        \/ \E i \in DOMAIN notices : notices[i].to = "buyer" /\ notices[i].status = status
        \/ status = "DELIVERED" /\ untold
=============================================================================
