------------------------------ MODULE Dispatch ------------------------------
(***************************************************************************)
(* Who gets the next delivery (backend/apps/couriers/signals.py), while    *)
(* couriers go online and offline and edit their profiles.                 *)
(*                                                                         *)
(* The signal that follows an order into IN_TRANSIT reads the couriers and *)
(* their loads, and creates the delivery in a later statement.  What a     *)
(* delivery goes through afterwards is in Fulfilment.                      *)
(***************************************************************************)
EXTENDS Integers, FiniteSets

CONSTANTS
    MaxCouriers,    \* BOUND: COURIER accounts
    Jobs,           \* BOUND: orders dispatched
    SelfDelivered,  \* the orders whose listing has supplier_delivers
    Dispatchers     \* BOUND: orders being dispatched at the same time

Couriers == 1 .. MaxCouriers
Stub == 0                       \* the first administrator
Supplier == MaxCouriers + 1     \* the supplier of the order's listing

ASSUME DispatchAssumption ==
    MaxCouriers \in Nat /\ IsFiniteSet(Jobs) /\ SelfDelivered \subseteq Jobs

NoOne == -1

VehicleKinds == {"BIKE", "VAN"}     \* two of the five
AnyVehicle == "any"                 \* the order asks for none

VARIABLES
    profile,    \* profile[c]: is_online and vehicle_kind of courier c
    loaded,     \* loaded[c]: the profile row a PATCH of c has loaded
    job,        \* job[o]: the delivery of order o
    pick,       \* pick[d]: the courier dispatcher d has picked, and for which order
    wish,       \* history: wish[c], what c last asked for: online or not
    undone      \* history: couriers whose wish a PATCH has overwritten

dvars == <<profile, loaded, job, pick, wish, undone>>

NoDelivery == [to |-> NoOne, active |-> FALSE]

\* gone (history): the courier picked has gone offline since.
NoPick == [order |-> NoOne, to |-> NoOne, gone |-> FALSE]

NoProfileEdit == [online |-> FALSE, vehicle |-> AnyVehicle]

DInit ==
    /\ profile = [c \in Couriers |-> [online |-> FALSE, vehicle |-> "BIKE"]]
    /\ loaded = [c \in Couriers |-> NoProfileEdit]
    /\ job = [o \in Jobs |-> NoDelivery]
    /\ pick = [d \in Dispatchers |-> NoPick]
    /\ wish = [c \in Couriers |-> FALSE]
    /\ undone = {}

---------------------------------------------------------------------------
(* The couriers *)

\* The dispatches under way that had picked c before it went offline.
GoneSince(c, online) ==
    [d \in Dispatchers |-> [pick[d] EXCEPT !.gone = @ \/ (pick[d].to = c /\ ~online)]]

\* CourierAvailabilityView: saves the one column.
Availability(c, online) ==
    /\ profile' = [profile EXCEPT ![c].online = online]
    /\ wish' = [wish EXCEPT ![c] = online]
    /\ undone' = undone \ {c}
    /\ pick' = GoneSince(c, online)
    /\ UNCHANGED <<loaded, job>>

\* CourierMeView's PATCH: loads the row ...
MeLoad(c) ==
    /\ loaded[c] = NoProfileEdit
    /\ loaded' = [loaded EXCEPT ![c] = profile[c]]
    /\ UNCHANGED <<profile, job, pick, wish, undone>>

\* ... and saves all of it, with a new vehicle, or with is_online if posted.
MeSave(c) ==
    /\ loaded[c] # NoProfileEdit
    /\ loaded' = [loaded EXCEPT ![c] = NoProfileEdit]
    /\ \/ \E v \in VehicleKinds :
             /\ profile' = [profile EXCEPT ![c] = [loaded[c] EXCEPT !.vehicle = v]]
             /\ undone' = IF loaded[c].online # profile[c].online THEN undone \cup {c} ELSE undone
             /\ UNCHANGED <<wish, pick>>
       \/ \E online \in BOOLEAN :
             /\ profile' = [profile EXCEPT ![c] = [loaded[c] EXCEPT !.online = online]]
             /\ wish' = [wish EXCEPT ![c] = online]
             /\ undone' = undone \ {c}
             /\ pick' = GoneSince(c, online)
    /\ UNCHANGED job

---------------------------------------------------------------------------
(* The dispatch *)

Online == {c \in Couriers : profile[c].online}

\* Mutant of Matching: every courier with the vehicle.
Matching_Everyone(vehicle) == {c \in Couriers : profile[c].vehicle = vehicle}

\* Online couriers with the vehicle the order asks for.
Matching(vehicle) == {c \in Online : profile[c].vehicle = vehicle}

\* All of the online couriers when it asks for none or none of them has it.
Pool(vehicle) == IF Matching(vehicle) = {} THEN Online ELSE Matching(vehicle)

ActiveCount(c) == Cardinality({o \in Jobs : job[o].to = c /\ job[o].active})

\* order_by("active_count", "id").first()
Before(c, d) ==
    ActiveCount(c) < ActiveCount(d) \/ (ActiveCount(c) = ActiveCount(d) /\ c <= d)

First(pool) == CHOOSE c \in pool : \A d \in pool : Before(c, d)

\* _pick_courier, and the stub when it finds nobody.
Picked(o, vehicle) ==
    IF o \in SelfDelivered THEN Supplier
    ELSE IF Pool(vehicle) = {} THEN Stub ELSE First(Pool(vehicle))

\* The order becomes IN_TRANSIT and has no delivery yet.  The queries that only
\* ask whether a pool is empty are part of the step of the one that picks.
Pick(d, o, vehicle) ==
    /\ pick[d] = NoPick
    /\ job[o] = NoDelivery /\ \A e \in Dispatchers : pick[e].order # o
    /\ pick' = [pick EXCEPT ![d] = [order |-> o, to |-> Picked(o, vehicle), gone |-> FALSE]]
    /\ UNCHANGED <<profile, loaded, job, wish, undone>>

\* Delivery.objects.create
CreateDelivery(d) ==
    /\ pick[d] # NoPick
    /\ job' = [job EXCEPT ![pick[d].order] = [to |-> pick[d].to, active |-> TRUE]]
    /\ pick' = [pick EXCEPT ![d] = NoPick]
    /\ UNCHANGED <<profile, loaded, wish, undone>>

\* The courier delivers or cancels; the delivery stays theirs either way.
EndDelivery(o) ==
    /\ job[o].active
    /\ job' = [job EXCEPT ![o].active = FALSE]
    /\ UNCHANGED <<profile, loaded, pick, wish, undone>>

DNext ==
    \/ \E c \in Couriers :
          \/ \E online \in BOOLEAN : Availability(c, online)
          \/ MeLoad(c) \/ MeSave(c)
    \/ \E d \in Dispatchers :
          \/ \E o \in Jobs, v \in VehicleKinds \cup {AnyVehicle} : Pick(d, o, v)
          \/ CreateDelivery(d)
    \/ \E o \in Jobs : EndDelivery(o)

DSpec == DInit /\ [][DNext]_dvars

---------------------------------------------------------------------------
(* Properties *)

\* "Auto-assignment only picks from is_online=True couriers": a courier given a
\* job has last asked to be online, unless they have gone offline since they
\* were picked or a PATCH of theirs has written the old flag back.
NewJobsFollowWishes ==
    [][\A d \in Dispatchers : pick[d] # NoPick /\ pick'[d] = NoPick =>
          \A c \in Couriers : pick[d].to = c => wish[c] \/ pick[d].gone \/ c \in undone]_dvars

=============================================================================
