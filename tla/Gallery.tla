------------------------------ MODULE Gallery ------------------------------
(***************************************************************************)
(* The order of a strip of photos: a listing's, where every upload asks    *)
(* for the highest position `or -1` (backend/apps/listings/views.py), and  *)
(* a qassob's gallery, where it asks for the highest `or 0` and the owner  *)
(* can reorder the strip (backend/apps/qassobs/views.py).                  *)
(*                                                                         *)
(* The position of an upload is read in one statement and written in       *)
(* another; reorder checks the ids before it opens its transaction.        *)
(***************************************************************************)
EXTENDS Integers, FiniteSetsExt, Functions

CONSTANTS
    MaxShots,           \* BOUND: how many photos are ever uploaded
    MaxIds,             \* BOUND: the length of a reordering
    Clients             \* BOUND: requests being served at the same time

Shots == 1 .. MaxShots

ASSUME GalleryAssumption == {MaxShots, MaxIds} \subseteq Nat

VARIABLES
    strip,          \* whose strip it is: "listing" or "qassob"
    position,       \* position[i]: the position of row i, Absent or Deleted
    change          \* change[c]: what client c's request has read

gvars == <<strip, position, change>>

Absent == -1
Deleted == -2

Present == {i \in Shots : position[i] >= 0}

\* to: the position, or one for each id, that the request is about to write;
\* stale (history): another upload or reordering was written since it read.
NoChange == [kind |-> "none", next |-> 0, to |-> [i \in Shots |-> 0], stale |-> FALSE]

Written(c) ==
    change' = [d \in Clients |->
        IF d = c THEN NoChange
        ELSE [change[d] EXCEPT !.stale = change[d].kind # "none"]]

\* Mutant of Highest: order_by("position") instead of order_by("-position").
Highest_Lowest == Min({position[i] : i \in Present})

Highest == Max({position[i] : i \in Present})

\* `first() or default`: the default is also what a highest position of 0 gives.
NextPosition ==
    LET default == IF strip = "listing" THEN -1 ELSE 0 IN
    1 + IF Present = {} \/ Highest = 0 THEN default ELSE Highest

PositionRead(c) ==
    /\ change[c] = NoChange
    /\ \E i \in Shots : position[i] = Absent
    /\ change' = [change EXCEPT ![c] = [NoChange EXCEPT !.kind = "upload", !.next = NextPosition]]
    /\ UNCHANGED <<strip, position>>

\* The next primary key is inserted, with a later created_at than any other.
Inserted(i) == position[i] = Absent /\ \A j \in 1 .. i - 1 : position[j] # Absent

PositionWrite(c) ==
    /\ change[c].kind = "upload"
    /\ \E i \in Shots : Inserted(i) /\ position' = [position EXCEPT ![i] = change[c].next]
    /\ Written(c)
    /\ UNCHANGED strip

\* The ids posted, as a sequence with the caller's whole gallery as its set:
\* an id may be repeated, and its last place counts.
Postable == {s \in UNION {[1 .. n -> Present] : n \in 0 .. MaxIds} : Range(s) = Present}

LastPlaces(s) == [i \in Shots |-> Max({0} \cup {k \in DOMAIN s : s[k] = i})]

ReorderRead(c) ==
    /\ strip = "qassob"
    /\ change[c] = NoChange
    /\ \E s \in Postable :
           change' = [change EXCEPT ![c] =
                         [NoChange EXCEPT !.kind = "reorder", !.to = LastPlaces(s)]]
    /\ UNCHANGED <<strip, position>>

\* One UPDATE per id, in a transaction; those of deleted rows change nothing.
ReorderWrite(c) ==
    /\ change[c].kind = "reorder"
    /\ position' = [i \in Shots |->
           IF i \in Present /\ change[c].to[i] > 0 THEN change[c].to[i] ELSE position[i]]
    /\ Written(c)
    /\ UNCHANGED strip

Remove(i) ==
    /\ i \in Present
    /\ position' = [position EXCEPT ![i] = Deleted]
    /\ UNCHANGED <<strip, change>>

GaInit ==
    /\ strip \in {"listing", "qassob"}
    /\ position = [i \in Shots |-> Absent]
    /\ change = [c \in Clients |-> NoChange]

GaNext ==
    \/ \E c \in Clients : PositionRead(c) \/ PositionWrite(c) \/ ReorderRead(c) \/ ReorderWrite(c)
    \/ \E i \in Shots : Remove(i)

GaSpec == GaInit /\ [][GaNext]_gvars

---------------------------------------------------------------------------
(* Properties *)

\* Both models order by position and then by age.
Precedes(i, j) == position[i] < position[j] \/ (position[i] = position[j] /\ i < j)

\* "Each new photo lands at the end of the strip", and the first one stays the
\* thumbnail, whatever was deleted or reordered before; only an upload that
\* another upload or a reordering overtook can land in front of a photo.
UploadsGoLast ==
    [][\A c \in Clients, i \in Shots :
           PositionWrite(c) /\ Inserted(i) /\ ~change[c].stale
           => \A j \in Present : Precedes(j, i)']_gvars
=============================================================================
