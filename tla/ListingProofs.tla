--------------------------- MODULE ListingProofs ---------------------------
(***************************************************************************)
(* Proofs about what hangs on a listing without any lock: its price log,   *)
(* the order of its photos and their files (PriceLog, Gallery, Photos).    *)
(* In each, a property that ends at the first overlap needs an invariant   *)
(* of what a request may rely on as long as nothing overtook it.           *)
(***************************************************************************)
EXTENDS PriceLog, Gallery, Photos, SequenceTheorems, FiniteSetTheorems,
        WellFoundedInduction, TLAPS

---------------------------------------------------------------------------
(* The price log *)

Edit == [at : {"none", "loaded", "captured", "saved"}, price : Nat, own : BOOLEAN, previous : Nat]

PriceTypes ==
    /\ price \in Nat
    /\ price_history \in Seq(Nat \X Nat)
    /\ edit \in [Editors -> Edit]
    /\ overtaken \in BOOLEAN /\ lost \in BOOLEAN

LastPrice == price_history[Len(price_history)][2]

\* e has saved another price than it found, and has yet to log the change.
Pending(e) == edit[e].at = "saved" /\ edit[e].previous # edit[e].price

\* What an editor holds is the price of the row, except for the one it is about
\* to set or, once it has, the one before.
CopiesAreCurrent ==
    \A e \in Editors :
        /\ edit[e].at \in {"loaded", "captured"} /\ ~edit[e].own => edit[e].price = price
        /\ edit[e].at = "captured" => edit[e].previous = price
        /\ edit[e].at = "saved" => edit[e].price = price

OnePending == \A d, e \in Editors : Pending(d) /\ Pending(e) => d = e

\* The last entry leads to the price, or to the one before a pending change.
LogIsUpToDate ==
    Len(price_history) > 0 =>
        /\ (\A e \in Editors : ~Pending(e)) => LastPrice = price
        /\ \A e \in Editors : Pending(e) => LastPrice = edit[e].previous

Chain ==
    /\ \A k \in 1 .. Len(price_history) - 1 : price_history[k][2] = price_history[k + 1][1]
    /\ \A k \in 1 .. Len(price_history) : price_history[k][1] # price_history[k][2]

PriceInv ==
    PriceTypes /\ (~overtaken /\ ~lost => CopiesAreCurrent /\ OnePending /\ LogIsUpToDate /\ Chain)

\* An empty log and a price of the catalog.
LEMMA PriceInitInv == PlInit => PriceInv
<1> SUFFICES ASSUME PlInit PROVE PriceInv
  OBVIOUS
<1>1. PriceTypes
  <2>1. NoEdit \in Edit
    BY DEF Edit, NoEdit
  <2>2. <<>> \in Seq(Nat \X Nat)
    BY EmptySeq
  <2> QED
    BY <2>1, <2>2, PricesAssumption DEF PlInit, PriceTypes
<1>2. CopiesAreCurrent /\ OnePending
  BY DEF PlInit, CopiesAreCurrent, OnePending, Pending, NoEdit
<1>3. LogIsUpToDate /\ Chain
  BY DEF PlInit, LogIsUpToDate, Chain
<1> QED
  BY <1>1, <1>2, <1>3 DEF PriceInv

\* Loading and capturing write no row and no entry.
LEMMA PriceReadKeeps ==
    ASSUME PriceInv, NEW e \in Editors, Load(e) \/ CaptureOldPrice(e)
    PROVE  PriceInv'
<1>1. /\ price' = price /\ price_history' = price_history /\ overtaken' = overtaken
      /\ lost' = lost
      /\ \A d \in Editors \ {e} : edit'[d] = edit[d]
  BY DEF Load, CaptureOldPrice, PriceInv, PriceTypes
<1>2. /\ edit'[e] \in Edit /\ edit' \in [Editors -> Edit]
      /\ edit'[e].at \in {"loaded", "captured"}
      /\ edit'[e].at = "captured" => edit'[e].previous = price
  <2>1. CASE Load(e)
    <3>1. PICK new \in Nat, own \in BOOLEAN :
              edit' = [edit EXCEPT ![e] = [NoEdit EXCEPT !.at = "loaded", !.price = new, !.own = own]]
      BY <2>1, PricesAssumption DEF Load, PriceInv, PriceTypes
    <3>2. [NoEdit EXCEPT !.at = "loaded", !.price = new, !.own = own] \in Edit
      BY DEF Edit, NoEdit
    <3>3. edit'[e] = [NoEdit EXCEPT !.at = "loaded", !.price = new, !.own = own]
      BY <3>1 DEF PriceInv, PriceTypes
    <3> QED
      BY <3>1, <3>2, <3>3 DEF PriceInv, PriceTypes, NoEdit
  <2>2. CASE CaptureOldPrice(e)
    BY <2>2 DEF CaptureOldPrice, PriceInv, PriceTypes, Edit
  <2> QED
    BY <2>1, <2>2
<1>3. ~overtaken /\ ~lost /\ ~edit'[e].own => edit'[e].price = price
  BY DEF Load, CaptureOldPrice, PriceInv, PriceTypes, Edit, NoEdit, CopiesAreCurrent
<1>4. PriceTypes'
  BY <1>1, <1>2 DEF PriceInv, PriceTypes
<1>5. ~Pending(e)' /\ \A d \in Editors \ {e} : Pending(d)' <=> Pending(d)
  BY <1>1, <1>2 DEF Pending
<1>6. ~Pending(e)
  <2>1. edit[e].at \in {"none", "loaded"}
    <3>1. edit[e] = NoEdit \/ edit[e].at = "loaded"
      BY DEF Load, CaptureOldPrice
    <3> QED
      BY <3>1 DEF NoEdit
  <2> QED
    BY <2>1 DEF Pending
<1>7. ASSUME ~overtaken, ~lost PROVE (CopiesAreCurrent /\ OnePending /\ LogIsUpToDate /\ Chain)'
  <2>1. CopiesAreCurrent'
    BY <1>1, <1>2, <1>3, <1>7 DEF PriceInv, CopiesAreCurrent
  <2>2. OnePending'
    BY <1>5, <1>7 DEF PriceInv, OnePending
  <2>3. \A d \in Editors : Pending(d)' <=> Pending(d)
    BY <1>5, <1>6
  <2>4. \A d \in Editors : Pending(d) => edit'[d] = edit[d]
    BY <1>1, <1>6
  <2>5. LogIsUpToDate'
    BY <1>1, <1>7, <2>3, <2>4 DEF PriceInv, LogIsUpToDate, LastPrice
  <2>6. Chain'
    BY <1>1, <1>7 DEF PriceInv, Chain
  <2> QED
    BY <2>1, <2>2, <2>5, <2>6
<1> QED
  BY <1>1, <1>4, <1>7 DEF PriceInv

\* A save that changes the price is alone, or the listing counts as overtaken;
\* any other save writes the price there was.
LEMMA PriceSaveKeeps ==
    ASSUME PriceInv, NEW e \in Editors, Save(e)
    PROVE  PriceInv'
<1>1. /\ price_history' = price_history
      /\ \A d \in Editors \ {e} : edit'[d] = edit[d]
      /\ edit' \in [Editors -> Edit]
      /\ edit'[e] = [edit[e] EXCEPT !.at = "saved"]
      /\ edit[e].at = "captured"
      /\ price' = IF edit[e].own THEN edit[e].price ELSE price
      /\ lost' = lost
      /\ overtaken' = (overtaken \/ (price' # price /\ \E d \in Editors \ {e} : edit[d] # NoEdit))
  BY DEF Save, PriceInv, PriceTypes, Edit
<1>2. edit[e] \in Edit
  BY DEF PriceInv, PriceTypes
<1>3. edit'[e].at = "saved" /\ edit'[e].price = edit[e].price /\ edit'[e].previous = edit[e].previous
  BY <1>1, <1>2 DEF Edit
<1>4. PriceTypes'
  BY <1>1, <1>2 DEF PriceInv, PriceTypes, Edit
<1>5. ~Pending(e)
  BY <1>1 DEF Pending
<1>6. ASSUME ~overtaken', ~lost' PROVE (CopiesAreCurrent /\ OnePending /\ LogIsUpToDate /\ Chain)'
  <2>1. /\ ~overtaken /\ ~lost /\ CopiesAreCurrent /\ OnePending /\ LogIsUpToDate /\ Chain
        /\ price' # price => \A d \in Editors \ {e} : edit[d] = NoEdit
    BY <1>1, <1>6 DEF PriceInv
  <2>2. edit[e].previous = price /\ edit'[e].price = price'
    BY <1>1, <1>3, <2>1 DEF CopiesAreCurrent
  <2>3. Chain'
    BY <1>1, <2>1 DEF Chain
  <2>4. CASE price' = price
    <3>1. ~Pending(e)'
      BY <1>3, <2>2, <2>4 DEF Pending
    <3>2. \A d \in Editors : (Pending(d)' <=> Pending(d)) /\ (Pending(d) => edit'[d] = edit[d])
      BY <1>1, <1>5, <3>1 DEF Pending
    <3>3. CopiesAreCurrent'
      BY <1>1, <1>3, <2>1, <2>2, <2>4 DEF CopiesAreCurrent
    <3>4. OnePending'
      BY <2>1, <3>2 DEF OnePending
    <3>5. LogIsUpToDate'
      BY <1>1, <2>1, <2>4, <3>2 DEF LogIsUpToDate, LastPrice
    <3> QED
      BY <2>3, <3>3, <3>4, <3>5
  <2>5. CASE price' # price
    <3>1. \A d \in Editors \ {e} : edit[d].at = "none" /\ edit'[d].at = "none"
      BY <1>1, <2>1, <2>5 DEF NoEdit
    <3>2. \A d \in Editors : ~Pending(d)
      BY <1>5, <3>1 DEF Pending
    <3>3. Pending(e)' /\ \A d \in Editors \ {e} : ~Pending(d)'
      BY <1>3, <2>2, <2>5, <3>1 DEF Pending
    <3>4. CopiesAreCurrent'
      BY <1>3, <2>2, <3>1 DEF CopiesAreCurrent
    <3>5. OnePending'
      BY <3>3 DEF OnePending
    <3>6. LogIsUpToDate'
      BY <1>1, <1>3, <2>1, <2>2, <3>2, <3>3 DEF LogIsUpToDate, LastPrice
    <3> QED
      BY <2>3, <3>4, <3>5, <3>6
  <2> QED
    BY <2>4, <2>5
<1> QED
  BY <1>4, <1>6 DEF PriceInv

\* The entry of a pending change follows the last one and leads to the price.
LEMMA PriceLogKeeps ==
    ASSUME PriceInv, NEW e \in Editors, LogPriceChange(e)
    PROVE  PriceInv'
<1> DEFINE entry == <<edit[e].previous, edit[e].price>>
<1>1. /\ price' = price /\ overtaken' = overtaken
      /\ lost' = lost
      /\ \A d \in Editors \ {e} : edit'[d] = edit[d]
      /\ edit'[e] = NoEdit /\ edit' \in [Editors -> Edit]
      /\ edit[e].at = "saved"
      /\ price_history' = IF edit[e].previous = edit[e].price THEN price_history
                          ELSE Append(price_history, entry)
  BY DEF LogPriceChange, PriceInv, PriceTypes, Edit, NoEdit
<1>2. edit[e] \in Edit /\ price_history \in Seq(Nat \X Nat) /\ entry \in Nat \X Nat
  BY DEF PriceInv, PriceTypes, Edit
<1>3. PriceTypes'
  BY <1>1, <1>2 DEF PriceInv, PriceTypes
<1>4. ~Pending(e)' /\ \A d \in Editors \ {e} : (Pending(d)' <=> Pending(d))
  BY <1>1 DEF Pending, NoEdit
<1>5. ASSUME ~overtaken, ~lost PROVE (CopiesAreCurrent /\ OnePending /\ LogIsUpToDate /\ Chain)'
  <2>1. CopiesAreCurrent /\ OnePending /\ LogIsUpToDate /\ Chain
    BY <1>5 DEF PriceInv
  <2>2. CopiesAreCurrent'
    BY <1>1, <2>1 DEF CopiesAreCurrent, NoEdit
  <2>3. OnePending'
    BY <1>4, <2>1 DEF OnePending
  <2>4. CASE ~Pending(e)
    <3>1. price_history' = price_history
      BY <1>1, <2>4 DEF Pending
    <3>2. \A d \in Editors : (Pending(d)' <=> Pending(d)) /\ (Pending(d) => edit'[d] = edit[d])
      BY <1>1, <1>4, <2>4
    <3>3. LogIsUpToDate' /\ Chain'
      BY <1>1, <2>1, <3>1, <3>2 DEF LogIsUpToDate, LastPrice, Chain
    <3> QED
      BY <2>2, <2>3, <3>3
  <2>5. CASE Pending(e)
    <3>1. /\ price_history' = Append(price_history, entry)
          /\ edit[e].price = price /\ edit[e].previous # edit[e].price
          /\ Len(price_history) > 0 => LastPrice = edit[e].previous
      BY <1>1, <2>1, <2>5 DEF Pending, CopiesAreCurrent, LogIsUpToDate
    <3>2. /\ Len(price_history) \in Nat
          /\ Len(price_history') = Len(price_history) + 1
          /\ price_history'[Len(price_history) + 1] = entry
          /\ \A k \in 1 .. Len(price_history) : price_history'[k] = price_history[k]
      BY <1>2, <3>1, AppendProperties, LenProperties
    <3>3. entry[1] = edit[e].previous /\ entry[2] = edit[e].price
      OBVIOUS
    <3> HIDE DEF entry
    <3>4. \A d \in Editors : ~Pending(d)'
      BY <1>4, <2>1, <2>5 DEF OnePending
    <3>5. LogIsUpToDate'
      BY <1>1, <3>1, <3>2, <3>3, <3>4 DEF LogIsUpToDate, LastPrice
    <3>6. ASSUME NEW k \in 1 .. Len(price_history)
          PROVE  price_history'[k][2] = price_history'[k + 1][1]
      <4>1. CASE k = Len(price_history)
        BY <3>1, <3>2, <3>3, <4>1 DEF LastPrice
      <4>2. CASE k # Len(price_history)
        <5>1. k \in 1 .. Len(price_history) - 1 /\ k + 1 \in 1 .. Len(price_history)
          BY <3>2, <4>2
        <5> QED
          BY <2>1, <3>2, <5>1 DEF Chain
      <4> QED
        BY <4>1, <4>2
    <3>7. ASSUME NEW k \in 1 .. Len(price_history) + 1
          PROVE  price_history'[k][1] # price_history'[k][2]
      <4>1. CASE k = Len(price_history) + 1
        BY <3>1, <3>2, <3>3, <4>1
      <4>2. CASE k # Len(price_history) + 1
        <5>1. k \in 1 .. Len(price_history)
          BY <3>2, <4>2
        <5> QED
          BY <2>1, <3>2, <5>1 DEF Chain
      <4> QED
        BY <4>1, <4>2
    <3>8. Chain'
      <4>1. Len(price_history') - 1 = Len(price_history)
        BY <3>2
      <4> QED
        BY <3>2, <3>6, <3>7, <4>1 DEF Chain
    <3> QED
      BY <2>2, <2>3, <3>5, <3>8
  <2> QED
    BY <2>4, <2>5
<1> QED
  BY <1>1, <1>3, <1>5 DEF PriceInv

\* A request that dies writes nothing more; the entry it owed is lost.
LEMMA PriceDiesKeeps ==
    ASSUME PriceInv, NEW e \in Editors, EditDies(e)
    PROVE  PriceInv'
<1>1. /\ UNCHANGED price /\ UNCHANGED price_history /\ UNCHANGED overtaken
      /\ lost' = (lost \/ Pending(e))
      /\ edit' \in [Editors -> Edit] /\ edit'[e] = NoEdit
      /\ \A d \in Editors \ {e} : edit'[d] = edit[d]
  BY DEF EditDies, PriceInv, PriceTypes, Edit, NoEdit, Pending
<1>2. PriceTypes'
  BY <1>1 DEF PriceInv, PriceTypes, Pending
<1>3. ASSUME ~overtaken, ~lost' PROVE (CopiesAreCurrent /\ OnePending /\ LogIsUpToDate /\ Chain)'
  <2>1. CopiesAreCurrent /\ OnePending /\ LogIsUpToDate /\ Chain /\ ~Pending(e)
    BY <1>1, <1>3 DEF PriceInv
  <2>2. \A d \in Editors : (Pending(d)' <=> Pending(d)) /\ (Pending(d) => edit'[d] = edit[d])
    BY <1>1, <2>1 DEF Pending, NoEdit
  <2>3. CopiesAreCurrent'
    BY <1>1, <2>1 DEF CopiesAreCurrent, NoEdit
  <2>4. OnePending' /\ LogIsUpToDate' /\ Chain'
    BY <1>1, <2>1, <2>2 DEF OnePending, LogIsUpToDate, LastPrice, Chain
  <2> QED
    BY <2>3, <2>4
<1> QED
  BY <1>1, <1>2, <1>3 DEF PriceInv

\* "Every price change" is logged, in order, whatever requests there are, up
\* to the first price change under another request, or whose request died.
THEOREM HistoryStaysAChain == PlSpec => []HistoryIsAChain
<1>1. PriceInv /\ [PlNext]_plvars => PriceInv'
  <2> SUFFICES ASSUME PriceInv, [PlNext]_plvars PROVE PriceInv'
    OBVIOUS
  <2>1. CASE UNCHANGED plvars
    BY <2>1 DEF plvars, PriceInv, PriceTypes, CopiesAreCurrent, OnePending, Pending,
       LogIsUpToDate, LastPrice, Chain
  <2> QED
    BY <2>1, PriceReadKeeps, PriceSaveKeeps, PriceLogKeeps, PriceDiesKeeps DEF PlNext
<1>2. PriceInv => HistoryIsAChain
  <2> SUFFICES ASSUME PriceInv, ~overtaken, ~lost PROVE HistoryIsAChain
    BY DEF HistoryIsAChain
  <2>1. Chain /\ CopiesAreCurrent /\ LogIsUpToDate
    BY DEF PriceInv
  <2>2. Len(price_history) > 0 =>
            \/ LastPrice = price
            \/ \E e \in Editors : /\ edit[e].at = "saved" /\ edit[e].price = price
                                  /\ edit[e].previous = LastPrice
    BY <2>1 DEF LogIsUpToDate, CopiesAreCurrent, Pending
  <2> QED
    BY <2>1, <2>2 DEF HistoryIsAChain, Chain, LastPrice
<1> QED
  BY <1>1, <1>2, PriceInitInv, PTL DEF PlSpec

---------------------------------------------------------------------------
(* Greatest elements.  A finite set of numbers has one: the set of the      *)
(* sizes of those that have none would have a least element, and removing   *)
(* an element of a set of that size leaves a smaller one.                   *)

\* Every non-empty set of natural numbers has a least element.
LEMMA LeastNumber ==
    ASSUME NEW S \in SUBSET Nat, S # {}
    PROVE  \E m \in S : \A n \in S : m <= n
<1> DEFINE R == OpToRel(<, Nat)
<1>1. \A m, n \in Nat : <<n, m>> \in R <=> n < m
  BY DEF OpToRel
<1>2. IsWellFoundedOn(R, Nat)
  BY NatLessThanWellFounded
<1> HIDE DEF R
<1>3. PICK m \in S : \A n \in S : ~(<<n, m>> \in R)
  BY <1>2, WFMin
<1>4. ASSUME NEW n \in S PROVE m <= n
  <2>1. m \in Nat /\ n \in Nat /\ ~(<<n, m>> \in R)
    BY <1>3
  <2>2. ~(n < m)
    BY <1>1, <2>1
  <2> QED
    BY <2>1, <2>2
<1> QED
  BY <1>4

HasGreatest(S) == \E m \in S : \A n \in S : n <= m

\* Every non-empty finite set of natural numbers has a greatest element.
LEMMA GreatestNumber ==
    ASSUME NEW S \in SUBSET Nat, S # {}, IsFiniteSet(S)
    PROVE  HasGreatest(S)
<1> DEFINE Bad(T) == T \in SUBSET Nat /\ T # {} /\ IsFiniteSet(T) /\ ~HasGreatest(T)
           Sizes == {n \in Nat : \E T \in SUBSET Nat : Bad(T) /\ Cardinality(T) = n}
<1> SUFFICES ASSUME Bad(S) PROVE FALSE
  OBVIOUS
<1>1. Cardinality(S) \in Sizes
  BY FS_CardinalityType
<1> HIDE DEF Sizes
<1>2. PICK n \in Sizes : \A k \in Sizes : n <= k
  <2>1. Sizes \subseteq Nat
    BY DEF Sizes
  <2> QED
    BY <1>1, <2>1, LeastNumber
<1>3. PICK T \in SUBSET Nat : Bad(T) /\ Cardinality(T) = n
  BY DEF Sizes
<1>4. PICK x \in T : TRUE
  BY <1>3
<1> DEFINE U == T \ {x}
<1>5. U \in SUBSET Nat /\ IsFiniteSet(U) /\ Cardinality(U) = n - 1 /\ n \in Nat /\ n - 1 \in Nat
  <2>1. IsFiniteSet(T) /\ Cardinality(T) = n /\ x \in T /\ T \in SUBSET Nat
    BY <1>3, <1>4
  <2>2. IsFiniteSet(U) /\ Cardinality(U) = n - 1
    BY <2>1, FS_RemoveElement, Zenon
  <2>3. n \in Nat /\ n - 1 \in Nat
    <3>1. Cardinality(T) \in Nat /\ Cardinality(U) \in Nat
      BY <2>1, <2>2, FS_CardinalityType
    <3> QED
      BY <2>1, <2>2, <3>1
  <2> QED
    BY <2>1, <2>2, <2>3
<1>6. CASE U = {}
  <2>1. \A k \in T : k <= x
    BY <1>6
  <2> QED
    BY <1>3, <2>1 DEF HasGreatest
<1>7. CASE U # {}
  <2>1. HasGreatest(U)
    <3>1. ~Bad(U)
      BY <1>2, <1>5 DEF Sizes
    <3> QED
      BY <1>5, <1>7, <3>1
  <2>2. PICK m \in U : \A k \in U : k <= m
    BY <2>1 DEF HasGreatest
  <2>3. CASE m <= x
    <3>1. \A k \in T : k <= x
      BY <2>2, <2>3, <1>3
    <3> QED
      BY <1>3, <3>1 DEF HasGreatest
  <2>4. CASE ~(m <= x)
    <3>1. m \in T /\ \A k \in T : k <= m
      BY <2>2, <2>4, <1>3
    <3> QED
      BY <1>3, <3>1 DEF HasGreatest
  <2> QED
    BY <2>3, <2>4
<1> QED
  BY <1>6, <1>7

\* What Max returns.
LEMMA MaxIsGreatest ==
    ASSUME NEW S \in SUBSET Nat, S # {}, IsFiniteSet(S)
    PROVE  Max(S) \in S /\ \A n \in S : n <= Max(S)
<1>1. \E m \in S : \A n \in S : m >= n
  BY GreatestNumber DEF HasGreatest
<1> QED
  BY <1>1 DEF Max

---------------------------------------------------------------------------
(* The order of a strip *)

Change == [kind : {"none", "upload", "reorder"}, next : Nat, to : [Shots -> Nat], stale : BOOLEAN]

StripTypes ==
    /\ position \in [Shots -> Int]
    /\ \A i \in Shots : position[i] \in Nat \cup {Absent, Deleted}
    /\ change \in [Clients -> Change]

\* Rows are inserted in the order of their keys.
KeysInOrder == \A i \in Shots : position[i] # Absent => \A j \in 1 .. i - 1 : position[j] # Absent

\* An upload that nothing overtook will write no less than any position.
NextIsHighest ==
    \A c \in Clients : change[c].kind = "upload" /\ ~change[c].stale =>
        \A i \in Present : position[i] <= change[c].next

StripInv == StripTypes /\ KeysInOrder /\ NextIsHighest

\* Some parts of a request.
LEMMA ChangeFields ==
    ASSUME StripTypes, NEW c \in Clients
    PROVE  /\ change[c] \in Change /\ NoChange \in Change
           /\ change[c].next \in Nat /\ change[c].to \in [Shots -> Nat]
           /\ change[c].stale \in BOOLEAN
BY DEF StripTypes, Change, NoChange

\* Photos with a position can be counted.
LEMMA PresentIsFinite == IsFiniteSet(Present)
<1>1. IsFiniteSet(1 .. MaxShots)
  <2>1. 1 \in Int /\ MaxShots \in Int
    BY GalleryAssumption
  <2> QED
    BY <2>1, FS_Interval, Zenon
<1>2. Present \in SUBSET (1 .. MaxShots)
  BY DEF Present, Shots
<1> QED
  BY <1>1, <1>2, FS_Subset, Zenon

\* The next position is no less than any: `or -1` and `or 0` only ever replace
\* a highest position of 0, and a tie at 0 is broken by age.
LEMMA NextPositionIsHighest ==
    ASSUME StripTypes
    PROVE  NextPosition \in Nat /\ \A i \in Present : position[i] <= NextPosition
<1> DEFINE P == {position[i] : i \in Present}
<1>1. P \in SUBSET Nat /\ IsFiniteSet(P)
  <2>1. P \in SUBSET Nat
    BY DEF StripTypes, Present, Absent, Deleted
  <2>2. IsFiniteSet(P)
    <3> DEFINE f == [i \in Present |-> position[i]]
    <3>1. f \in Surjection(Present, P)
      BY DEF Surjection
    <3> HIDE DEF f, P
    <3> QED
      BY <3>1, PresentIsFinite, FS_Surjection
  <2> QED
    BY <2>1, <2>2
<1>2. CASE Present = {}
  BY <1>2 DEF NextPosition
<1>3. CASE Present # {}
  <2>1. Highest \in P /\ \A n \in P : n <= Highest
    <3>1. P # {}
      BY <1>3
    <3> HIDE DEF P
    <3>2. Max(P) \in P /\ \A n \in P : n <= Max(P)
      BY <1>1, <3>1, MaxIsGreatest
    <3> QED
      BY <3>2 DEF Highest, P
  <2>2. Highest \in Nat /\ \A i \in Present : position[i] \in Nat /\ position[i] <= Highest
    BY <1>1, <2>1
  <2>3. NextPosition \in Nat /\ Highest <= NextPosition
    BY <1>3, <2>2 DEF NextPosition
  <2> QED
    BY <2>2, <2>3
<1> QED
  BY <1>2, <1>3

\* The last places of a sequence of ids are natural numbers.
LEMMA LastPlacesTyped ==
    ASSUME NEW s \in Postable
    PROVE  LastPlaces(s) \in [Shots -> Nat]
<1>1. PICK n \in 0 .. MaxIds : s \in [1 .. n -> Present]
  BY DEF Postable
<1> SUFFICES ASSUME NEW i \in Shots PROVE Max({0} \cup {k \in DOMAIN s : s[k] = i}) \in Nat
  BY DEF LastPlaces
<1> DEFINE K == {0} \cup {k \in DOMAIN s : s[k] = i}
<1>2. K \in SUBSET (0 .. n) /\ K \in SUBSET Nat /\ K # {} /\ n \in Int
  BY <1>1, GalleryAssumption
<1>3. IsFiniteSet(K)
  <2>1. IsFiniteSet(0 .. n)
    BY <1>2, FS_Interval
  <2> QED
    BY <1>2, <2>1, FS_Subset, Zenon
<1> HIDE DEF K
<1>4. Max(K) \in K
  BY <1>2, <1>3, MaxIsGreatest
<1> QED
  BY <1>2, <1>4 DEF K

\* An empty strip.
LEMMA StripInitInv == GaInit => StripInv
BY DEF GaInit, StripInv, StripTypes, KeysInOrder, NextIsHighest, Present, Absent, Change, NoChange

\* Reading writes nothing, and what an upload reads is the next position.
LEMMA StripReadKeeps ==
    ASSUME StripInv, NEW c \in Clients, PositionRead(c) \/ ReorderRead(c)
    PROVE  StripInv'
<1>1. position' = position /\ \A d \in Clients \ {c} : change'[d] = change[d]
  BY DEF PositionRead, ReorderRead, StripInv, StripTypes
<1>2. /\ change' \in [Clients -> Change]
      /\ change'[c].kind = "upload" => change'[c].next = NextPosition
  <2>1. CASE PositionRead(c)
    <3> NextPosition \in Nat
      BY NextPositionIsHighest DEF StripInv
    <3> DEFINE new == [NoChange EXCEPT !.kind = "upload", !.next = NextPosition]
    <3>1. new \in Change /\ new.next = NextPosition
      BY DEF Change, NoChange
    <3>2. change' = [change EXCEPT ![c] = new]
      BY <2>1 DEF PositionRead
    <3> HIDE DEF new
    <3> QED
      BY <3>1, <3>2 DEF StripInv, StripTypes
  <2>2. CASE ReorderRead(c)
    <3>1. PICK s \in Postable :
              change' = [change EXCEPT ![c] =
                            [NoChange EXCEPT !.kind = "reorder", !.to = LastPlaces(s)]]
      BY <2>2 DEF ReorderRead
    <3> DEFINE new == [NoChange EXCEPT !.kind = "reorder", !.to = LastPlaces(s)]
    <3>2. new \in Change /\ new.kind = "reorder"
      BY LastPlacesTyped DEF Change, NoChange
    <3> HIDE DEF new
    <3> QED
      BY <3>1, <3>2 DEF StripInv, StripTypes, new
  <2> QED
    BY <2>1, <2>2
<1>3. Present' = Present
  BY <1>1 DEF Present
<1>4. NextIsHighest'
  BY <1>1, <1>2, <1>3, NextPositionIsHighest DEF StripInv, NextIsHighest
<1> QED
  BY <1>1, <1>2, <1>4 DEF StripInv, StripTypes, KeysInOrder

\* A write ends its request and makes every other one stale.
LEMMA WrittenMakesStale ==
    ASSUME StripTypes, NEW c \in Clients, Written(c)
    PROVE  /\ change' \in [Clients -> Change]
           /\ \A d \in Clients : change'[d].kind # "none" => change'[d].stale
<1> SUFFICES ASSUME NEW d \in Clients
             PROVE  change'[d] \in Change /\ (change'[d].kind # "none" => change'[d].stale)
  BY DEF Written
<1>1. CASE d = c
  BY <1>1 DEF Written, Change, NoChange
<1>2. CASE d # c
  BY <1>2, ChangeFields DEF Written, Change
<1> QED
  BY <1>1, <1>2

\* So a write needs to keep the types only.
LEMMA StripWriteKeeps ==
    ASSUME StripInv, NEW c \in Clients, PositionWrite(c) \/ ReorderWrite(c)
    PROVE  StripInv'
<1>1. Written(c)
  BY DEF PositionWrite, ReorderWrite
<1>2. NextIsHighest' /\ change' \in [Clients -> Change]
  BY <1>1, WrittenMakesStale DEF StripInv, NextIsHighest
<1>3. /\ position' \in [Shots -> Int]
      /\ \A i \in Shots : position'[i] \in Nat \cup {Absent, Deleted}
      /\ KeysInOrder'
  <2>1. CASE PositionWrite(c)
    <3>1. PICK i \in Shots : Inserted(i) /\ position' = [position EXCEPT ![i] = change[c].next]
      BY <2>1 DEF PositionWrite
    <3>2. change[c].next \in Nat
      BY ChangeFields DEF StripInv
    <3> QED
      BY <3>1, <3>2 DEF Inserted, StripInv, StripTypes, KeysInOrder, Shots, Absent
  <2>2. CASE ReorderWrite(c)
    <3>1. change[c].to \in [Shots -> Nat]
      BY ChangeFields DEF StripInv
    <3>2. \A i \in Shots : /\ position'[i] \in Nat \cup {Absent, Deleted}
                           /\ position'[i] = Absent <=> position[i] = Absent
      BY <2>2, <3>1 DEF ReorderWrite, StripInv, StripTypes, Present, Absent, Deleted
    <3>3. \A i \in Shots : \A j \in 1 .. i - 1 : j \in Shots
      BY GalleryAssumption DEF Shots
    <3>4. KeysInOrder'
      BY <3>2, <3>3 DEF StripInv, KeysInOrder
    <3> QED
      BY <2>2, <3>2, <3>4 DEF ReorderWrite, Absent, Deleted
  <2> QED
    BY <2>1, <2>2
<1> QED
  BY <1>2, <1>3 DEF StripInv, StripTypes

\* A removal leaves fewer photos to come after.
LEMMA RemoveKeeps ==
    ASSUME StripInv, NEW i \in Shots, Remove(i)
    PROVE  StripInv'
<1>1. /\ change' = change
      /\ position' = [position EXCEPT ![i] = Deleted]
      /\ position[i] # Absent
  BY DEF Remove, Present, Absent
<1>2. Present' \subseteq Present /\ \A j \in Present' : position'[j] = position[j]
  BY <1>1 DEF Present, Deleted, StripInv, StripTypes
<1>3. StripTypes'
  BY <1>1 DEF StripInv, StripTypes, Deleted
<1>4. \A j \in Shots : position'[j] = Absent <=> position[j] = Absent
  BY <1>1 DEF StripInv, StripTypes, Absent, Deleted
<1>5. KeysInOrder'
  <2>1. \A j \in Shots : \A k \in 1 .. j - 1 : k \in Shots
    BY GalleryAssumption DEF Shots
  <2> QED
    BY <1>4, <2>1 DEF StripInv, KeysInOrder
<1>6. NextIsHighest'
  BY <1>1, <1>2 DEF StripInv, NextIsHighest
<1> QED
  BY <1>3, <1>5, <1>6 DEF StripInv

\* "Each new photo lands at the end of the strip": for any number of photos,
\* after any deletions and reorderings, unless the upload was overtaken.
THEOREM UploadsLandLast == GaSpec => UploadsGoLast
<1> DEFINE Last == \A c \in Clients, i \in Shots :
                       PositionWrite(c) /\ Inserted(i) /\ ~change[c].stale
                       => \A j \in Present : Precedes(j, i)'
<1>1. StripInv /\ [GaNext]_gvars => StripInv'
  <2> SUFFICES ASSUME StripInv, [GaNext]_gvars PROVE StripInv'
    OBVIOUS
  <2>1. CASE UNCHANGED gvars
    BY <2>1 DEF gvars, StripInv, StripTypes, KeysInOrder, NextIsHighest, Present
  <2> QED
    BY <2>1, StripReadKeeps, StripWriteKeeps, RemoveKeeps DEF GaNext
<1>2. StripInv => Last
  <2> SUFFICES ASSUME StripInv, NEW c \in Clients, NEW i \in Shots,
                      PositionWrite(c), Inserted(i), ~change[c].stale, NEW j \in Present
               PROVE  Precedes(j, i)'
    OBVIOUS
  <2>1. PICK k \in Shots : Inserted(k) /\ position' = [position EXCEPT ![k] = change[c].next]
    BY DEF PositionWrite
  <2>2. k = i
    <3>1. i \in Nat /\ k \in Nat /\ 1 <= i /\ 1 <= k
      BY DEF Shots
    <3>2. ~(i < k) /\ ~(k < i)
      BY <2>1, <3>1 DEF Inserted
    <3> QED
      BY <3>1, <3>2
  <2>3. j \in Shots /\ position[j] \in Nat /\ position[i] = Absent /\ j # i
    BY DEF Inserted, Present, Absent, Deleted, StripInv, StripTypes
  <2>4. j < i
    <3>1. ~(i < j)
      BY <2>3 DEF StripInv, KeysInOrder, Shots, Absent
    <3> QED
      BY <2>3, <3>1 DEF Shots
  <2>5. position'[i] = change[c].next /\ position'[j] = position[j]
    BY <2>1, <2>2, <2>3 DEF StripInv, StripTypes
  <2>6. position[j] <= change[c].next /\ change[c].next \in Nat
    BY ChangeFields DEF StripInv, NextIsHighest, PositionWrite
  <2> QED
    BY <2>3, <2>4, <2>5, <2>6 DEF Precedes
<1>3. StripInv /\ [GaNext]_gvars => [Last]_gvars
  BY <1>2
<1> QED
  BY <1>1, <1>3, StripInitInv, PTL DEF GaSpec, UploadsGoLast

---------------------------------------------------------------------------
(* The files of a photo.  Whatever the process of photo q does changes the   *)
(* rows of q alone, and in storage only names that q was told to use; the    *)
(* invariant of p is broken by no other photo for as long as p shares no     *)
(* name.                                                                     *)

SomeName == Names \cup {NoName}
Upload == [at : {"absent", "named", "stored", "failed", "here", "gone", "cascaded"},
           name : SomeName]
Removal == [at : {"none", "read", "emptied", "done"}, name : SomeName]
Busy == {"got", "read", "deleted", "named", "stored"}
Task == [at : Busy \cup {"none", "queued", "failed", "done"}, name : SomeName,
         bytes : Nat, to : SomeName, tries : Nat]

FileTypes ==
    /\ photo \in [Photos -> Upload]
    /\ removal \in [Photos -> Removal]
    /\ task \in [Photos -> Task]
    /\ store \in [Names -> Nat]
    /\ given \in [Names -> SUBSET Photos]

OnlyGivenNamesAreUsed == \A f \in Names : given[f] = {} => store[f] = 0

Told(f, p) == f \in Names /\ p \in given[f]

\* How far the upload, the removal and the task of p can be, one with another.
InStep(p) ==
    /\ photo[p].at # "absent" => Told(photo[p].name, p)
    /\ photo[p].at = "gone" => removal[p].at = "done"
    /\ removal[p].at # "none" =>
           Told(removal[p].name, p) /\ photo[p].at \in {"here", "gone", "cascaded"}
    /\ task[p].at # "none" => photo[p].at \in {"here", "gone", "cascaded"}
    /\ task[p].at \in {"none", "queued"} => task[p].name = NoName
    /\ task[p].at \in Busy => task[p].name = photo[p].name
    /\ task[p].at \in {"named", "stored"} => Told(task[p].to, p) /\ task[p].to.ext = "webp"
    /\ task[p].at = "done" => task[p].name.ext = "jpg"
    /\ task[p].at # "done" =>
           /\ photo[p].name.ext = "jpg"
           /\ removal[p].at # "none" => removal[p].name = photo[p].name

SharesNoName(p) == \A f \in Names : p \in given[f] => given[f] = {p}

\* What p finds in storage under its names, if they are its own.
OwnPicture(p) == SharesNoName(p) =>
    /\ \A f \in Names : p \in given[f] => store[f] \in {0, p}
    /\ task[p].at \in {"read", "deleted", "named", "stored"} => task[p].bytes = p
    /\ task[p].at = "stored" => store[task[p].to] = p
    /\ photo[p].at = "stored" => store[photo[p].name] = p
    /\ Here(p) =>
           store[photo[p].name] = p \/ Torn(p) \/ removal[p].at = "emptied"

\* The names p was told, unless its task failed or started over.
NamesKnown(p) == task[p].tries = 0 /\ task[p].at # "failed" =>
    \A f \in Names : p \in given[f] =>
        \/ photo[p].at # "absent" /\ f = photo[p].name
        \/ task[p].at \in {"named", "stored"} /\ f = task[p].to
        \/ task[p].at = "done" /\ f = task[p].name

\* The names under which p has not stored a file yet, or has deleted it.
Empty(f, p) ==
    \/ photo[p].at = "named" /\ f = photo[p].name
    \/ task[p].at \in {"deleted", "named", "stored", "done"} /\ f = task[p].name
    \/ task[p].at = "named" /\ f = task[p].to
    \/ removal[p].at \in {"emptied", "done"} /\ f = removal[p].name

EmptyNames(p) == \A f \in Names : given[f] = {p} /\ Empty(f, p) => store[f] = 0

Tidy(p) == InStep(p) /\ OwnPicture(p) /\ NamesKnown(p) /\ EmptyNames(p)

FilesInv == FileTypes /\ OnlyGivenNamesAreUsed /\ \A p \in Photos : Tidy(p)

\* A name that storage makes available is nobody's file.
LEMMA AvailableIsEmpty ==
    ASSUME FileTypes, OnlyGivenNamesAreUsed, NEW wanted \in Names, Nameable(wanted)
    PROVE  /\ Available(wanted) \in Names /\ store[Available(wanted)] = 0
           /\ Available(wanted).ext = wanted.ext
<1>1. CASE store[wanted] = 0
  BY <1>1 DEF Available
<1>2. CASE store[wanted] # 0
  <2> DEFINE s == CHOOSE s \in Fresh(wanted) : TRUE
             f == [wanted EXCEPT !.suffix = s]
  <2>1. s \in Fresh(wanted)
    BY <1>2 DEF Nameable
  <2>2. s \in 1 .. MaxSuffix /\ given[f] = {}
    BY <2>1 DEF Fresh
  <2> HIDE DEF s
  <2>3. f \in Names /\ f.ext = wanted.ext
    BY <2>2, PhotosAssumption DEF Names
  <2>4. store[f] = 0
    BY <2>2, <2>3 DEF OnlyGivenNamesAreUsed
  <2> QED
    BY <1>2, <2>3, <2>4 DEF Available, s
<1> QED
  BY <1>1, <1>2

FileStep(p) ==
    \/ UploadName(p) \/ UploadStores(p) \/ UploadInserts(p) \/ UploadFails(p)
    \/ RowCascades(p)
    \/ RemovalRead(p) \/ RemovalFile(p) \/ RemovalRow(p)
    \/ TaskGet(p) \/ TaskRead(p) \/ TaskDeletesOriginal(p)
    \/ TaskName(p) \/ TaskStores(p) \/ TaskSaves(p) \/ TaskFails(p)

\* What a step of p's processes leaves alone: the rows of the others, and the
\* files whose names p was not told.
OnlyTouches(p) ==
    /\ \A q \in Photos \ {p} : /\ photo'[q] = photo[q] /\ removal'[q] = removal[q]
                               /\ task'[q] = task[q]
    /\ \A f \in Names : given'[f] = given[f] \/ given'[f] = given[f] \cup {p}
    /\ \A f \in Names : store'[f] = store[f] \/ p \in given[f]

\* The parts of p's rows have their types.
LEMMA FileFields ==
    ASSUME FileTypes, NEW p \in Photos
    PROVE  /\ photo[p] \in Upload /\ removal[p] \in Removal /\ task[p] \in Task
           /\ task[p].bytes \in Nat /\ task[p].tries \in Nat
           /\ NoTask \in Task /\ NoTask.name = NoName /\ NoName \notin Names
           /\ NoName.ext = "jpg" /\ p \in Nat /\ p # 0
BY PhotosAssumption DEF FileTypes, Task, Upload, Removal, NoTask, NoName, SomeName, Names, Photos

\* What becomes of a task that is retried.
LEMMA RetriedFacts ==
    ASSUME NEW t \in Task
    PROVE  /\ Retried(t) \in Task
           /\ \/ /\ Retried(t).at = "queued" /\ Retried(t).tries > 0
                 /\ Retried(t).name = NoName
              \/ Retried(t).at = "failed"
<1>1. CASE t.tries < MAX_RETRIES
  <2>1. t.tries \in Nat
    BY DEF Task
  <2>2. Retried(t) = [NoTask EXCEPT !.at = "queued", !.tries = t.tries + 1]
    BY <1>1 DEF Retried
  <2>3. Retried(t) = [at |-> "queued", name |-> NoName, bytes |-> 0, to |-> NoName,
                      tries |-> t.tries + 1]
    BY <2>2 DEF NoTask
  <2>4. t.tries + 1 \in Nat /\ t.tries + 1 > 0
    BY <2>1
  <2> QED
    BY <2>3, <2>4 DEF Task, SomeName
<1>2. CASE ~(t.tries < MAX_RETRIES)
  BY <1>2 DEF Retried, Task
<1> QED
  BY <1>1, <1>2

\* The invariant of q does not depend on p.
LEMMA OthersStayTidy ==
    ASSUME FileTypes, NEW p \in Photos, NEW q \in Photos \ {p}, OnlyTouches(p), Tidy(q)
    PROVE  Tidy(q)'
<1> USE DEF OnlyTouches
<1>1. /\ photo'[q] = photo[q] /\ removal'[q] = removal[q] /\ task'[q] = task[q]
      /\ \A f \in Names : q \in given'[f] <=> q \in given[f]
  OBVIOUS
<1>2. \A f \in Names : q \in given[f] /\ given'[f] = {q} => given[f] = {q} /\ store'[f] = store[f]
  OBVIOUS
<1>3. InStep(q)'
  BY <1>1 DEF Tidy, InStep, Told
<1>4. OwnPicture(q)'
  <2> SUFFICES ASSUME SharesNoName(q)' PROVE OwnPicture(q)'
    BY DEF OwnPicture
  <2>1. \A f \in Names : q \in given[f] => given[f] = {q} /\ store'[f] = store[f]
    BY <1>1, <1>2 DEF SharesNoName
  <2>2. SharesNoName(q)
    BY <2>1 DEF SharesNoName
  <2>3. task[q].at = "stored" => store'[task[q].to] = store[task[q].to]
    BY <2>1 DEF Tidy, InStep, Told
  <2>4. photo[q].at # "absent" => store'[photo[q].name] = store[photo[q].name]
    BY <2>1 DEF Tidy, InStep, Told
  <2> QED
    BY <1>1, <2>1, <2>2, <2>3, <2>4 DEF Tidy, OwnPicture, Torn, Here
<1>5. NamesKnown(q)'
  BY <1>1 DEF Tidy, NamesKnown
<1>6. EmptyNames(q)'
  BY <1>1, <1>2 DEF Tidy, EmptyNames, Empty
<1> QED
  BY <1>3, <1>4, <1>5, <1>6 DEF Tidy

\* Storing p's picture or deleting a file, under a name p was told.
LEMMA OwnFile ==
    ASSUME FilesInv, NEW p \in Photos, NEW f, Told(f, p), NEW n \in Nat,
           store' = [store EXCEPT ![f] = n], UNCHANGED given
    PROVE  /\ store' \in [Names -> Nat] /\ store'[f] = n
           /\ \A g \in Names : g # f => store'[g] = store[g]
           /\ \A g \in Names : store'[g] = store[g] \/ p \in given[g]
           /\ OnlyGivenNamesAreUsed'
BY DEF FilesInv, FileTypes, Told, OnlyGivenNamesAreUsed

\* Telling p to use a name that is nobody's file.
LEMMA NewName ==
    ASSUME FilesInv, NEW p \in Photos, NEW f \in Names, store[f] = 0, Give(f, p), UNCHANGED store
    PROVE  /\ given' \in [Names -> SUBSET Photos] /\ Told(f, p)'
           /\ \A g \in Names : given'[g] = given[g] \/ given'[g] = given[g] \cup {p}
           /\ \A g \in Names : p \in given'[g] <=> p \in given[g] \/ g = f
           /\ SharesNoName(p)' => SharesNoName(p)
           /\ \A g \in Names : given'[g] = {p} => given[g] = {p} \/ store[g] = 0
           /\ OnlyGivenNamesAreUsed'
<1>1. /\ given' \in [Names -> SUBSET Photos] /\ given'[f] = given[f] \cup {p}
      /\ \A g \in Names : g # f => given'[g] = given[g]
  BY DEF Give, FilesInv, FileTypes
<1> QED
  BY <1>1 DEF FilesInv, Told, OnlyGivenNamesAreUsed, SharesNoName

LEMMA UploadNameKeeps ==
    ASSUME FilesInv, NEW p \in Photos, UploadName(p)
    PROVE  FileTypes' /\ OnlyGivenNamesAreUsed' /\ OnlyTouches(p) /\ Tidy(p)'
<1> DEFINE wanted == [ext |-> "jpg", suffix |-> 0]
<1>1. wanted \in Names
  BY PhotosAssumption DEF Names
<1>2. PICK f \in Names : f = Available(wanted) /\ store[f] = 0 /\ f.ext = "jpg"
  BY <1>1, AvailableIsEmpty DEF FilesInv, UploadName
<1>3. /\ photo[p].at = "absent"
      /\ photo' = [photo EXCEPT ![p] = [at |-> "named", name |-> f]]
      /\ UNCHANGED removal /\ UNCHANGED task /\ UNCHANGED store /\ Give(f, p)
  BY <1>2 DEF UploadName
<1>4. photo' \in [Photos -> Upload] /\ photo'[p] = [at |-> "named", name |-> f]
  BY <1>2, <1>3 DEF FilesInv, FileTypes, Upload, SomeName
<1>5. task[p].at = "none" /\ removal[p].at = "none" /\ Tidy(p) /\ task[p].name = NoName
  BY <1>3 DEF FilesInv, Tidy, InStep
<1>6. /\ given' \in [Names -> SUBSET Photos] /\ Told(f, p)'
      /\ \A g \in Names : given'[g] = given[g] \/ given'[g] = given[g] \cup {p}
      /\ \A g \in Names : p \in given'[g] <=> p \in given[g] \/ g = f
      /\ SharesNoName(p)' => SharesNoName(p)
      /\ \A g \in Names : given'[g] = {p} => given[g] = {p} \/ store[g] = 0
      /\ OnlyGivenNamesAreUsed'
  BY <1>2, <1>3, NewName
<1>7. InStep(p)'
  BY <1>2, <1>3, <1>4, <1>5, <1>6 DEF InStep, Busy, Told
<1>8. OwnPicture(p)'
  BY <1>2, <1>3, <1>4, <1>5, <1>6 DEF Tidy, OwnPicture, Here
<1>9. NamesKnown(p)'
  BY <1>2, <1>3, <1>4, <1>5, <1>6 DEF Tidy, NamesKnown
<1>10. EmptyNames(p)'
  BY <1>2, <1>3, <1>4, <1>5, <1>6 DEF Tidy, EmptyNames, Empty
<1> QED
  BY <1>3, <1>4, <1>6, <1>7, <1>8, <1>9, <1>10 DEF FilesInv, FileTypes, OnlyTouches, Tidy

LEMMA UploadStoresKeeps ==
    ASSUME FilesInv, NEW p \in Photos, UploadStores(p)
    PROVE  FileTypes' /\ OnlyGivenNamesAreUsed' /\ OnlyTouches(p) /\ Tidy(p)'
<1> DEFINE f == photo[p].name
<1>1. /\ photo[p].at = "named" /\ Tidy(p) /\ Told(f, p)
      /\ task[p].at = "none" /\ removal[p].at = "none"
      /\ UNCHANGED removal /\ UNCHANGED task /\ UNCHANGED given
  BY DEF FilesInv, UploadStores, Tidy, InStep
<1>2. /\ photo' \in [Photos -> Upload]
      /\ photo'[p].at = "stored" /\ photo'[p].name = f
      /\ \A q \in Photos \ {p} : photo'[q] = photo[q]
  BY FileFields DEF FilesInv, FileTypes, UploadStores, Upload
<1>3. /\ store' \in [Names -> Nat] /\ store'[f] = p
      /\ \A g \in Names : g # f => store'[g] = store[g]
      /\ \A g \in Names : store'[g] = store[g] \/ p \in given[g]
      /\ OnlyGivenNamesAreUsed'
  <2>1. p \in Nat /\ store' = [store EXCEPT ![f] = p]
    BY FileFields DEF FilesInv, UploadStores
  <2> QED
    BY <1>1, <2>1, OwnFile
<1>4. InStep(p)'
  BY <1>1, <1>2 DEF Tidy, InStep, Busy, Told
<1>5. OwnPicture(p)'
  BY <1>1, <1>2, <1>3 DEF Tidy, OwnPicture, SharesNoName, Here
<1>6. NamesKnown(p)'
  BY <1>1, <1>2 DEF Tidy, NamesKnown
<1>7. EmptyNames(p)'
  BY <1>1, <1>2, <1>3 DEF Tidy, EmptyNames, Empty
<1> QED
  BY <1>1, <1>2, <1>3, <1>4, <1>5, <1>6, <1>7 DEF FilesInv, FileTypes, OnlyTouches, Tidy

LEMMA UploadInsertsKeeps ==
    ASSUME FilesInv, NEW p \in Photos, UploadInserts(p)
    PROVE  FileTypes' /\ OnlyGivenNamesAreUsed' /\ OnlyTouches(p) /\ Tidy(p)'
<1> DEFINE f == photo[p].name
<1>1. PICK at \in {"queued", "none"} : task' = [task EXCEPT ![p].at = at]
  BY DEF UploadInserts
<1>2. /\ photo[p].at = "stored" /\ Tidy(p) /\ Told(f, p) /\ f.ext = "jpg"
      /\ task[p].at = "none" /\ removal[p].at = "none" /\ task[p].name = NoName
      /\ UNCHANGED removal /\ UNCHANGED store /\ UNCHANGED given
  BY DEF FilesInv, UploadInserts, Tidy, InStep
<1>3. /\ photo' \in [Photos -> Upload]
      /\ photo'[p].at = "here" /\ photo'[p].name = f
      /\ \A q \in Photos \ {p} : photo'[q] = photo[q]
  BY FileFields DEF FilesInv, FileTypes, UploadInserts, Upload
<1>4. /\ task' \in [Photos -> Task] /\ task'[p] = [task[p] EXCEPT !.at = at]
      /\ \A q \in Photos \ {p} : task'[q] = task[q]
  BY <1>1, FileFields DEF FilesInv, FileTypes, Task
<1>5. task'[p].at = at /\ task'[p].name = NoName /\ task'[p].tries = task[p].tries
  BY <1>2, <1>4, FileFields DEF FilesInv, Task
<1>6. InStep(p)'
  BY <1>1, <1>2, <1>3, <1>5 DEF InStep, Busy, Told
<1>7. OwnPicture(p)'
  BY <1>1, <1>2, <1>3, <1>5 DEF Tidy, OwnPicture, SharesNoName, Here
<1>8. NamesKnown(p)'
  BY <1>1, <1>2, <1>3, <1>5 DEF Tidy, NamesKnown
<1>9. EmptyNames(p)'
  BY <1>1, <1>2, <1>3, <1>5 DEF Tidy, EmptyNames, Empty
<1> QED
  BY <1>2, <1>3, <1>4, <1>6, <1>7, <1>8, <1>9
     DEF FilesInv, FileTypes, OnlyGivenNamesAreUsed, OnlyTouches, Tidy

\* What ends without a word to storage: an upload that fails, a row that goes.
LEMMA RowEndsKeeps ==
    ASSUME FilesInv, NEW p \in Photos, UploadFails(p) \/ RowCascades(p)
    PROVE  FileTypes' /\ OnlyGivenNamesAreUsed' /\ OnlyTouches(p) /\ Tidy(p)'
<1>1. /\ Tidy(p) /\ UNCHANGED removal /\ UNCHANGED task
      /\ UNCHANGED store /\ UNCHANGED given
  BY DEF FilesInv, UploadFails, RowCascades
<1>2. /\ \/ photo[p].at \in {"named", "stored"} /\ photo'[p].at = "failed"
         \/ Here(p) /\ photo'[p].at = "cascaded"
      /\ photo' \in [Photos -> Upload] /\ photo'[p].name = photo[p].name
      /\ \A q \in Photos \ {p} : photo'[q] = photo[q]
  BY FileFields DEF FilesInv, FileTypes, UploadFails, RowCascades, Upload, Here
<1>3. InStep(p)'
  BY <1>1, <1>2 DEF Tidy, InStep, Told, Here, Busy
<1>4. OwnPicture(p)'
  BY <1>1, <1>2 DEF Tidy, OwnPicture, SharesNoName, Here
<1>5. NamesKnown(p)' /\ EmptyNames(p)'
  BY <1>1, <1>2 DEF Tidy, NamesKnown, EmptyNames, Empty, Here
<1> QED
  BY <1>1, <1>2, <1>3, <1>4, <1>5 DEF FilesInv, FileTypes, OnlyGivenNamesAreUsed, OnlyTouches, Tidy

LEMMA RemovalKeeps ==
    ASSUME FilesInv, NEW p \in Photos, RemovalRead(p) \/ RemovalFile(p) \/ RemovalRow(p)
    PROVE  FileTypes' /\ OnlyGivenNamesAreUsed' /\ OnlyTouches(p) /\ Tidy(p)'
<1>1. UNCHANGED given /\ UNCHANGED task /\ Tidy(p)
  BY DEF FilesInv, RemovalRead, RemovalFile, RemovalRow
<1>2. CASE RemovalRead(p)
  <2>1. /\ UNCHANGED photo /\ UNCHANGED store /\ Here(p) /\ removal[p].at = "none"
        /\ removal' \in [Photos -> Removal]
        /\ removal'[p] = [at |-> "read", name |-> photo[p].name]
        /\ \A q \in Photos \ {p} : removal'[q] = removal[q]
    BY <1>2, FileFields DEF RemovalRead, FilesInv, FileTypes, Removal, Upload
  <2>2. InStep(p)'
    BY <1>1, <2>1 DEF Tidy, InStep, Told, Here
  <2>3. OwnPicture(p)'
    BY <1>1, <2>1 DEF Tidy, OwnPicture, SharesNoName, Here, Torn
  <2>4. NamesKnown(p)' /\ EmptyNames(p)'
    BY <1>1, <2>1 DEF Tidy, NamesKnown, EmptyNames, Empty
  <2> QED
    BY <1>1, <2>1, <2>2, <2>3, <2>4 DEF FilesInv, FileTypes, OnlyGivenNamesAreUsed, OnlyTouches, Tidy
<1>3. CASE RemovalFile(p)
  <2> DEFINE f == removal[p].name
  <2>1. /\ UNCHANGED photo /\ removal[p].at = "read"
        /\ removal' \in [Photos -> Removal]
        /\ removal'[p].at = "emptied" /\ removal'[p].name = f
        /\ \A q \in Photos \ {p} : removal'[q] = removal[q]
    BY <1>3, FileFields DEF RemovalFile, FilesInv, FileTypes, Removal
  <2>2. Told(f, p)
    BY <1>1, <2>1 DEF Tidy, InStep
  <2>3. /\ store' \in [Names -> Nat] /\ store'[f] = 0
        /\ \A g \in Names : g # f => store'[g] = store[g]
        /\ \A g \in Names : store'[g] = store[g] \/ p \in given[g]
        /\ OnlyGivenNamesAreUsed'
    <3>1. store' = [store EXCEPT ![f] = 0]
      BY <1>3 DEF RemovalFile
    <3> QED
      BY <1>1, <2>2, <3>1, OwnFile
  <2>4. InStep(p)'
    BY <1>1, <2>1 DEF Tidy, InStep, Told
  <2>5. OwnPicture(p)'
    <3>1. task[p].at = "stored" => task[p].to # f
      BY <1>1, <2>1 DEF Tidy, InStep
    <3> QED
      BY <1>1, <2>1, <2>3, <3>1 DEF Tidy, OwnPicture, InStep, Told, SharesNoName, Here, Torn
  <2>6. NamesKnown(p)' /\ EmptyNames(p)'
    BY <1>1, <2>1, <2>3 DEF Tidy, NamesKnown, EmptyNames, Empty
  <2> QED
    BY <1>1, <2>1, <2>3, <2>4, <2>5, <2>6 DEF FilesInv, FileTypes, OnlyTouches, Tidy
<1>4. CASE RemovalRow(p)
  <2>1. /\ UNCHANGED store /\ removal[p].at = "emptied"
        /\ removal' \in [Photos -> Removal]
        /\ removal'[p].at = "done" /\ removal'[p].name = removal[p].name
        /\ \A q \in Photos \ {p} : removal'[q] = removal[q]
        /\ photo' \in [Photos -> Upload]
        /\ photo'[p].at = (IF Here(p) THEN "gone" ELSE photo[p].at)
        /\ photo'[p].name = photo[p].name
        /\ \A q \in Photos \ {p} : photo'[q] = photo[q]
    BY <1>4, FileFields DEF RemovalRow, FilesInv, FileTypes, Removal, Upload, Here
  <2>2. InStep(p)'
    BY <1>1, <2>1 DEF Tidy, InStep, Told, Here
  <2>3. OwnPicture(p)'
    BY <1>1, <2>1 DEF Tidy, OwnPicture, SharesNoName, Here, Torn
  <2>4. NamesKnown(p)' /\ EmptyNames(p)'
    BY <1>1, <2>1 DEF Tidy, InStep, NamesKnown, EmptyNames, Empty
  <2> QED
    BY <1>1, <2>1, <2>2, <2>3, <2>4 DEF FilesInv, FileTypes, OnlyGivenNamesAreUsed, OnlyTouches, Tidy
<1> QED
  BY <1>2, <1>3, <1>4

\* The steps of a task that change no row but its own: it gets the row, reads
\* the file, or fails.
LEMMA TaskLooksKeeps ==
    ASSUME FilesInv, NEW p \in Photos, TaskGet(p) \/ TaskRead(p) \/ TaskFails(p)
    PROVE  FileTypes' /\ OnlyGivenNamesAreUsed' /\ OnlyTouches(p) /\ Tidy(p)'
<1>1. UNCHANGED given /\ UNCHANGED photo /\ UNCHANGED removal /\ UNCHANGED store /\ Tidy(p)
  BY DEF FilesInv, TaskGet, TaskRead, TaskFails
<1>2. PICK t : task' = [task EXCEPT ![p] = t] /\
          \/ /\ TaskGet(p) /\ task[p].at = "queued"
             /\ t = IF Here(p) /\ photo[p].name.ext = "jpg"
                    THEN [task[p] EXCEPT !.at = "got", !.name = photo[p].name]
                    ELSE [task[p] EXCEPT !.at = "done"]
          \/ /\ TaskRead(p) /\ task[p].at = "got" /\ store[task[p].name] # 0
             /\ t = [task[p] EXCEPT !.at = "read", !.bytes = store[task[p].name]]
          \/ task[p].at \in Busy /\ t = Retried(task[p])
          \/ task[p].at \in Busy /\ t = [task[p] EXCEPT !.at = "failed"]
  BY DEF TaskGet, TaskRead, TaskFails, Move, Busy
<1>3. \/ /\ task[p].at = "queued" /\ Here(p) /\ photo[p].name.ext = "jpg" /\ t \in Task
         /\ t.at = "got" /\ t.name = photo[p].name /\ t.tries = task[p].tries
      \/ /\ task[p].at = "queued" /\ t \in Task
         /\ t.at = "done" /\ t.name = task[p].name /\ t.tries = task[p].tries
      \/ /\ task[p].at = "got" /\ store[task[p].name] # 0 /\ t \in Task
         /\ t.at = "read" /\ t.name = task[p].name /\ t.tries = task[p].tries
         /\ t.bytes = store[task[p].name]
      \/ /\ task[p].at \in Busy /\ t \in Task
         /\ t.at = "queued" /\ t.tries > 0 /\ t.name = NoName
      \/ /\ task[p].at \in Busy /\ t \in Task /\ t.at = "failed"
  <2>1. photo[p].name \in SomeName /\ task[p] \in Task
    BY FileFields DEF FilesInv, Upload
  <2>2. task[p].at = "got" => store[task[p].name] \in Nat
    BY <1>1 DEF FilesInv, FileTypes, Tidy, InStep, Told, Busy
  <2>3. CASE TaskGet(p) /\ task[p].at = "queued" /\ Here(p) /\ photo[p].name.ext = "jpg"
             /\ t = [task[p] EXCEPT !.at = "got", !.name = photo[p].name]
    BY <2>1, <2>3 DEF Task, Busy
  <2>4. CASE TaskGet(p) /\ task[p].at = "queued" /\ t = [task[p] EXCEPT !.at = "done"]
    BY <2>1, <2>4 DEF Task, Busy
  <2>5. CASE /\ TaskRead(p) /\ task[p].at = "got" /\ store[task[p].name] # 0
             /\ t = [task[p] EXCEPT !.at = "read", !.bytes = store[task[p].name]]
    BY <2>1, <2>2, <2>5 DEF Task, Busy
  <2>6. CASE task[p].at \in Busy /\ t = Retried(task[p])
    BY <2>1, <2>6, RetriedFacts DEF Task
  <2>7. CASE task[p].at \in Busy /\ t = [task[p] EXCEPT !.at = "failed"]
    BY <2>1, <2>7 DEF Task
  <2> QED
    BY <1>2, <2>3, <2>4, <2>5, <2>6, <2>7
<1>4. /\ task' \in [Photos -> Task] /\ task'[p] = t
      /\ \A q \in Photos \ {p} : task'[q] = task[q]
  BY <1>2, <1>3 DEF FilesInv, FileTypes
<1>5. InStep(p)'
  BY <1>1, <1>3, <1>4, FileFields DEF FilesInv, Tidy, InStep, Told, Here, Busy
<1>6. OwnPicture(p)'
  BY <1>1, <1>3, <1>4 DEF Tidy, OwnPicture, InStep, Told, SharesNoName, Here, Torn, Busy
<1>7. NamesKnown(p)'
  BY <1>1, <1>3, <1>4 DEF Tidy, NamesKnown
<1>8. EmptyNames(p)'
  BY <1>1, <1>3, <1>4, FileFields DEF FilesInv, Tidy, InStep, EmptyNames, Empty
<1> QED
  BY <1>1, <1>4, <1>5, <1>6, <1>7, <1>8 DEF FilesInv, FileTypes, OnlyGivenNamesAreUsed, OnlyTouches, Tidy

LEMMA TaskDeletesOriginalKeeps ==
    ASSUME FilesInv, NEW p \in Photos, TaskDeletesOriginal(p)
    PROVE  FileTypes' /\ OnlyGivenNamesAreUsed' /\ OnlyTouches(p) /\ Tidy(p)'
<1> DEFINE f == task[p].name
<1>1. /\ UNCHANGED given /\ UNCHANGED photo /\ UNCHANGED removal /\ Tidy(p)
      /\ task[p].at = "read" /\ store' = [store EXCEPT ![f] = 0]
  BY DEF FilesInv, TaskDeletesOriginal, Move
<1>2. /\ task' \in [Photos -> Task]
      /\ task'[p] = [task[p] EXCEPT !.at = "deleted"]
      /\ \A q \in Photos \ {p} : task'[q] = task[q]
  BY FileFields DEF TaskDeletesOriginal, Move, FilesInv, FileTypes, Task, Busy
<1>3. /\ task'[p].at = "deleted" /\ task'[p].name = f /\ task'[p].tries = task[p].tries
      /\ task'[p].bytes = task[p].bytes
  BY <1>2, FileFields DEF FilesInv, Task
<1>4. Told(f, p) /\ f = photo[p].name
  BY <1>1 DEF Tidy, InStep, Busy
<1>5. /\ store' \in [Names -> Nat] /\ store'[f] = 0
      /\ \A g \in Names : g # f => store'[g] = store[g]
      /\ \A g \in Names : store'[g] = store[g] \/ p \in given[g]
      /\ OnlyGivenNamesAreUsed'
  BY <1>1, <1>4, OwnFile
<1>6. InStep(p)'
  BY <1>1, <1>3 DEF Tidy, InStep, Told, Busy
<1>7. OwnPicture(p)'
  BY <1>1, <1>3, <1>5 DEF Tidy, OwnPicture, InStep, SharesNoName, Here, Torn
<1>8. NamesKnown(p)' /\ EmptyNames(p)'
  BY <1>1, <1>3, <1>5 DEF Tidy, NamesKnown, EmptyNames, Empty
<1> QED
  BY <1>1, <1>2, <1>5, <1>6, <1>7, <1>8 DEF FilesInv, FileTypes, OnlyTouches, Tidy

LEMMA TaskNameKeeps ==
    ASSUME FilesInv, NEW p \in Photos, TaskName(p)
    PROVE  FileTypes' /\ OnlyGivenNamesAreUsed' /\ OnlyTouches(p) /\ Tidy(p)'
<1> DEFINE wanted == [task[p].name EXCEPT !.ext = "webp"]
<1>1. /\ UNCHANGED photo /\ UNCHANGED removal /\ UNCHANGED store /\ Tidy(p)
      /\ task[p].at = "deleted" /\ Nameable(wanted)
      /\ Told(task[p].name, p) /\ task[p].name = photo[p].name
      /\ task[p].name.ext = "jpg"
  BY DEF FilesInv, TaskName, Move, Tidy, InStep, Busy
<1>2. wanted \in Names /\ wanted.ext = "webp"
  BY <1>1 DEF Told, Names
<1>3. PICK f \in Names : f = Available(wanted) /\ store[f] = 0 /\ f.ext = "webp"
  BY <1>1, <1>2, AvailableIsEmpty DEF FilesInv
<1>4. Give(f, p) /\ task' = [task EXCEPT ![p] = [task[p] EXCEPT !.at = "named", !.to = f]]
  BY <1>3 DEF TaskName, Move
<1>5. /\ task' \in [Photos -> Task]
      /\ task'[p].at = "named" /\ task'[p].to = f /\ task'[p].name = task[p].name
      /\ task'[p].tries = task[p].tries /\ task'[p].bytes = task[p].bytes
      /\ \A q \in Photos \ {p} : task'[q] = task[q]
  <2> DEFINE t == [task[p] EXCEPT !.at = "named", !.to = f]
  <2>1. /\ t \in Task /\ t.at = "named" /\ t.to = f /\ t.name = task[p].name
        /\ t.tries = task[p].tries /\ t.bytes = task[p].bytes
    BY FileFields DEF FilesInv, Task, Busy, SomeName
  <2> HIDE DEF t
  <2>2. task' = [task EXCEPT ![p] = t]
    BY <1>4 DEF t
  <2> QED
    BY <2>1, <2>2 DEF FilesInv, FileTypes
<1>6. /\ given' \in [Names -> SUBSET Photos] /\ Told(f, p)'
      /\ \A g \in Names : given'[g] = given[g] \/ given'[g] = given[g] \cup {p}
      /\ \A g \in Names : p \in given'[g] <=> p \in given[g] \/ g = f
      /\ SharesNoName(p)' => SharesNoName(p)
      /\ \A g \in Names : given'[g] = {p} => given[g] = {p} \/ store[g] = 0
      /\ OnlyGivenNamesAreUsed'
  BY <1>1, <1>3, <1>4, NewName
<1>7. InStep(p)'
  BY <1>1, <1>3, <1>5, <1>6 DEF Tidy, InStep, Told, Busy
<1>8. OwnPicture(p)'
  BY <1>1, <1>3, <1>5, <1>6 DEF Tidy, OwnPicture, Here, Torn
<1>9. NamesKnown(p)'
  BY <1>1, <1>5, <1>6 DEF Tidy, NamesKnown
<1>10. EmptyNames(p)'
  BY <1>1, <1>3, <1>5, <1>6 DEF Tidy, EmptyNames, Empty
<1> QED
  BY <1>1, <1>5, <1>6, <1>7, <1>8, <1>9, <1>10 DEF FilesInv, FileTypes, OnlyTouches, Tidy

LEMMA TaskStoresKeeps ==
    ASSUME FilesInv, NEW p \in Photos, TaskStores(p)
    PROVE  FileTypes' /\ OnlyGivenNamesAreUsed' /\ OnlyTouches(p) /\ Tidy(p)'
<1> DEFINE f == task[p].to
<1>1. /\ UNCHANGED given /\ UNCHANGED photo /\ UNCHANGED removal /\ Tidy(p)
      /\ task[p].at = "named" /\ store' = [store EXCEPT ![f] = task[p].bytes]
      /\ task[p].bytes \in Nat
  BY FileFields DEF FilesInv, TaskStores, Move
<1>2. /\ task' \in [Photos -> Task]
      /\ task'[p] = [task[p] EXCEPT !.at = "stored"]
      /\ \A q \in Photos \ {p} : task'[q] = task[q]
  BY FileFields DEF TaskStores, Move, FilesInv, FileTypes, Task, Busy
<1>3. /\ task'[p].at = "stored" /\ task'[p].name = task[p].name /\ task'[p].to = f
      /\ task'[p].tries = task[p].tries /\ task'[p].bytes = task[p].bytes
  BY <1>2, FileFields DEF FilesInv, Task
<1>4. /\ Told(f, p) /\ f.ext = "webp" /\ f # photo[p].name /\ f # task[p].name
      /\ removal[p].at # "none" => f # removal[p].name
  BY <1>1 DEF Tidy, InStep, Busy
<1>5. /\ store' \in [Names -> Nat] /\ store'[f] = task[p].bytes
      /\ \A g \in Names : g # f => store'[g] = store[g]
      /\ \A g \in Names : store'[g] = store[g] \/ p \in given[g]
      /\ OnlyGivenNamesAreUsed'
  BY <1>1, <1>4, OwnFile
<1>6. InStep(p)'
  BY <1>1, <1>3 DEF Tidy, InStep, Told, Busy
<1>7. OwnPicture(p)'
  BY <1>1, <1>3, <1>5 DEF Tidy, OwnPicture, SharesNoName, Here, Torn
<1>8. NamesKnown(p)'
  BY <1>1, <1>3 DEF Tidy, NamesKnown
<1>9. EmptyNames(p)'
  <2>1. \A g \in Names : Empty(g, p)' => Empty(g, p) /\ g # f
    BY <1>1, <1>3, <1>4 DEF Empty, Tidy, InStep
  <2> QED
    BY <1>1, <1>5, <2>1 DEF Tidy, EmptyNames
<1> QED
  BY <1>1, <1>2, <1>5, <1>6, <1>7, <1>8, <1>9 DEF FilesInv, FileTypes, OnlyTouches, Tidy

LEMMA TaskSavesKeeps ==
    ASSUME FilesInv, NEW p \in Photos, TaskSaves(p)
    PROVE  FileTypes' /\ OnlyGivenNamesAreUsed' /\ OnlyTouches(p) /\ Tidy(p)'
<1> DEFINE f == task[p].to
<1>1. UNCHANGED given /\ UNCHANGED removal /\ UNCHANGED store /\ Tidy(p) /\ task[p].at = "stored"
  BY DEF FilesInv, TaskSaves, Move
<1>2. Told(f, p) /\ task[p].name = photo[p].name /\ photo[p].name.ext = "jpg"
  BY <1>1 DEF Tidy, InStep, Busy
<1>3. CASE Here(p)
  <2>1. /\ task' = [task EXCEPT ![p] = [task[p] EXCEPT !.at = "done"]]
        /\ photo' = [photo EXCEPT ![p].name = f]
    BY <1>3 DEF TaskSaves, Move
  <2>2. /\ task' \in [Photos -> Task]
        /\ task'[p].at = "done" /\ task'[p].name = task[p].name
        /\ task'[p].tries = task[p].tries
        /\ \A q \in Photos \ {p} : task'[q] = task[q]
    BY <2>1, FileFields DEF FilesInv, FileTypes, Task
  <2>3. /\ photo' \in [Photos -> Upload]
        /\ photo'[p].at = "here" /\ photo'[p].name = f
        /\ \A q \in Photos \ {p} : photo'[q] = photo[q]
    BY <1>2, <1>3, <2>1, FileFields DEF FilesInv, FileTypes, Upload, SomeName, Told, Here
  <2>4. InStep(p)'
    BY <1>1, <1>2, <1>3, <2>2, <2>3 DEF Tidy, InStep, Told, Here, Busy
  <2>5. OwnPicture(p)'
    BY <1>1, <2>2, <2>3 DEF Tidy, OwnPicture, SharesNoName, Here, Torn
  <2>6. NamesKnown(p)'
    BY <1>1, <1>2, <2>2, <2>3 DEF Tidy, NamesKnown
  <2>7. EmptyNames(p)'
    BY <1>1, <2>2, <2>3 DEF Tidy, EmptyNames, Empty
  <2> QED
    BY <1>1, <2>2, <2>3, <2>4, <2>5, <2>6, <2>7
       DEF FilesInv, FileTypes, OnlyGivenNamesAreUsed, OnlyTouches, Tidy
<1>4. CASE ~Here(p)
  <2>1. /\ task' = [task EXCEPT ![p] = Retried(task[p])] /\ UNCHANGED photo
        /\ Retried(task[p]) \in Task
    BY <1>4, FileFields, RetriedFacts DEF FilesInv, TaskSaves, Move
  <2>2. /\ task' \in [Photos -> Task]
        /\ task'[p] = Retried(task[p])
        /\ \A q \in Photos \ {p} : task'[q] = task[q]
    BY <2>1 DEF FilesInv, FileTypes
  <2>3. \/ task'[p].at = "queued" /\ task'[p].tries > 0 /\ task'[p].name = NoName
        \/ task'[p].at = "failed"
    BY <2>2, FileFields, RetriedFacts DEF FilesInv
  <2>4. InStep(p)'
    BY <1>1, <1>2, <2>1, <2>3 DEF Tidy, InStep, Told, Busy
  <2>5. OwnPicture(p)'
    BY <1>1, <1>4, <2>1, <2>3 DEF Tidy, OwnPicture, SharesNoName, Here
  <2>6. NamesKnown(p)'
    BY <2>3 DEF NamesKnown
  <2>7. EmptyNames(p)'
    BY <1>1, <2>1, <2>3 DEF Tidy, EmptyNames, Empty
  <2> QED
    BY <1>1, <2>1, <2>2, <2>4, <2>5, <2>6, <2>7
       DEF FilesInv, FileTypes, OnlyGivenNamesAreUsed, OnlyTouches, Tidy
<1> QED
  BY <1>3, <1>4

LEMMA FilesInitInv == PhInit => FilesInv
<1> SUFFICES ASSUME PhInit PROVE FilesInv
  OBVIOUS
<1>1. FileTypes /\ OnlyGivenNamesAreUsed
  BY DEF PhInit, FileTypes, OnlyGivenNamesAreUsed, Upload, Removal, Task, SomeName, NoTask
<1>2. ASSUME NEW p \in Photos PROVE Tidy(p)
  <2>1. /\ photo[p].at = "absent" /\ removal[p].at = "none"
        /\ task[p].at = "none" /\ task[p].name = NoName /\ photo[p].name = NoName
        /\ \A f \in Names : given[f] = {}
    BY DEF PhInit, NoTask
  <2>2. InStep(p)
    BY <2>1 DEF InStep, Busy, NoName
  <2>3. OwnPicture(p) /\ NamesKnown(p) /\ EmptyNames(p)
    BY <2>1 DEF OwnPicture, NamesKnown, EmptyNames, Empty, Here
  <2> QED
    BY <2>2, <2>3 DEF Tidy
<1> QED
  BY <1>1, <1>2 DEF FilesInv

\* What the parts of the invariant say of a photo is kept by its own steps, one
\* lemma for each, and by those of any other.
LEMMA FilesStepInv == FilesInv /\ [PhNext]_phvars => FilesInv'
<1> SUFFICES ASSUME FilesInv, [PhNext]_phvars PROVE FilesInv'
  OBVIOUS
<1>1. CASE UNCHANGED phvars
  BY <1>1 DEF phvars, FilesInv, FileTypes, OnlyGivenNamesAreUsed, Tidy, InStep, Told, OwnPicture,
              SharesNoName, NamesKnown, EmptyNames, Empty, Here, Torn
<1>2. ASSUME NEW p \in Photos, FileStep(p) PROVE FilesInv'
  <2>1. FileTypes' /\ OnlyGivenNamesAreUsed' /\ OnlyTouches(p) /\ Tidy(p)'
    BY <1>2, UploadNameKeeps, UploadStoresKeeps, UploadInsertsKeeps,
       RowEndsKeeps, RemovalKeeps, TaskLooksKeeps,
       TaskDeletesOriginalKeeps, TaskNameKeeps, TaskStoresKeeps, TaskSavesKeeps DEF FileStep
  <2>2. \A q \in Photos \ {p} : Tidy(q)'
    BY <2>1, OthersStayTidy DEF FilesInv
  <2> QED
    BY <2>1, <2>2 DEF FilesInv
<1> QED
  BY <1>1, <1>2 DEF PhNext, FileStep

LEMMA FilesAlwaysInv == PhSpec => []FilesInv
BY FilesInitInv, FilesStepInv, PTL DEF PhSpec

\* A photo never shows another's picture, and shows none only while its row is
\* being deleted or when its task is between the two files or failed there: for
\* any number of photos, whatever is uploaded, deleted, retried and killed
\* meanwhile, as long as storage gave its names to no other photo.
THEOREM PhotosKeepTheirOwn == PhSpec => []PhotosShowTheirOwn
<1>1. FilesInv => PhotosShowTheirOwn
  <2> SUFFICES ASSUME FilesInv, NEW p \in Photos, Here(p), SharesNoName(p)
               PROVE  LET shown == store[photo[p].name] IN
                      shown = p \/ (shown = 0 /\ (Torn(p) \/ removal[p].at = "emptied"))
    BY DEF PhotosShowTheirOwn, SharesNoName
  <2>1. Tidy(p) /\ Told(photo[p].name, p)
    BY DEF FilesInv, Tidy, InStep, Here
  <2> QED
    BY <2>1 DEF Tidy, OwnPicture, Told
<1> QED
  BY <1>1, FilesAlwaysInv, PTL

\* No file is left in storage but for one of the reasons named, whatever the
\* order in which uploads, deletions and tasks take their steps.
THEOREM LeaksAreAccountedFor == PhSpec => []LeaksAreExplained
<1>1. FilesInv => LeaksAreExplained
  <2> SUFFICES ASSUME FilesInv, NEW f \in Names, store[f] # 0, ~(Cardinality(given[f]) > 1)
               PROVE  \/ \E p \in Photos : Here(p) /\ photo[p].name = f
                      \/ \E p \in given[f] :
                             \/ photo[p].at \in {"stored", "failed", "cascaded"}
                             \/ task[p].at \in {"stored", "failed"} \/ task[p].tries > 0
                             \/ removal[p].at = "done" /\ removal[p].name # f
    BY DEF LeaksAreExplained
  <2>1. PICK p \in Photos : given[f] = {p}
    <3>1. given[f] # {} /\ given[f] \subseteq Photos
      BY DEF FilesInv, FileTypes, OnlyGivenNamesAreUsed
    <3>2. IsFiniteSet(given[f])
      <4>1. 1 \in Int /\ MaxPhotos \in Int
        BY PhotosAssumption
      <4>2. IsFiniteSet(1 .. MaxPhotos)
        BY <4>1, FS_Interval, Zenon
      <4> QED
        BY <3>1, <4>2, FS_Subset, Zenon DEF Photos
    <3>3. Cardinality(given[f]) \in Nat /\ Cardinality(given[f]) # 0
      BY <3>1, <3>2, FS_EmptySet, FS_CardinalityType
    <3>4. Cardinality(given[f]) = 1
      BY <3>3
    <3>5. \E p : given[f] = {p}
      BY <3>2, <3>4, FS_Singleton
    <3> QED
      BY <3>1, <3>5
  <2>2. Tidy(p) /\ task[p].tries \in Nat
    BY FileFields DEF FilesInv
  <2> SUFFICES ASSUME photo[p].at \notin {"stored", "failed", "cascaded"},
                      task[p].tries = 0, task[p].at \notin {"stored", "failed"},
                      removal[p].at = "done" => removal[p].name = f
               PROVE  Here(p) /\ photo[p].name = f
    BY <2>1, <2>2
  <2>3. ~Empty(f, p)
    BY <2>1, <2>2 DEF Tidy, EmptyNames
  <2>4. f = photo[p].name /\ photo[p].at # "absent"
    BY <2>1, <2>2, <2>3 DEF Tidy, NamesKnown, Empty
  <2>5. photo[p].at # "named" /\ photo[p].at # "gone"
    BY <2>2, <2>3, <2>4 DEF Tidy, InStep, Empty
  <2> QED
    BY <2>4, <2>5, FileFields DEF FilesInv, Upload, Here
<1> QED
  BY <1>1, FilesAlwaysInv, PTL

=============================================================================
