----------------------------- MODULE ShopProofs -----------------------------
(***************************************************************************)
(* Proofs about the parts of a shop that share no row: cards and addresses *)
(* (Wallet), notices (Notices), couriers and jobs (Dispatch), markets      *)
(* (Markets).                                                              *)
(*                                                                         *)
(* In Notices, a request that found its own status stored before it saved  *)
(* tells nothing, so StandingStatusWasTold holds because whoever stored it *)
(* first told it, or is still about to: NoticesInv says which.             *)
(***************************************************************************)
EXTENDS Wallet, Notices, Dispatch, Markets, SequenceTheorems, FiniteSetTheorems,
        WellFoundedInduction, TLAPS

---------------------------------------------------------------------------
(* Cards *)


CardState == {"absent", "plain", "default", "deleted"}

Request ==
    [at : {"none", "clear", "create", "promote", "save"}, row : RowIds \cup {0},
     is_default : BOOLEAN, stale : BOOLEAN]

\* A request that clears the old default is to create a new one.
CardInv ==
    /\ card \in [RowIds -> CardState]
    /\ paying \in [Phones -> Request]
    /\ \A p \in Phones : paying[p].at = "clear" => paying[p].is_default
    /\ \A p \in Phones : paying[p].at = "promote" => paying[p].row \in RowIds

\* Clearing leaves only the rows kept as defaults, and deletes nothing.
LEMMA ClearedEffect ==
    ASSUME NEW rows \in [RowIds -> CardState], NEW keep
    PROVE  /\ Cleared(rows, keep) \in [RowIds -> CardState]
           /\ \A i \in RowIds : Cleared(rows, keep)[i] = "default"
                  <=> rows[i] = "default" /\ i \in keep
           /\ SavedRows(Cleared(rows, keep)) = SavedRows(rows)
  BY DEF Cleared, CardState, SavedRows, Saved

LEMMA NoRequestFields == NoRequest \in Request /\ NoRequest.at = "none"
  BY DEF NoRequest, Request

\* The end of a request leaves the others as they were.
LEMMA AnswerEffect ==
    ASSUME CardInv, NEW p \in Phones, Answer(p), card' \in [RowIds -> CardState]
    PROVE  /\ CardInv'
           /\ \A q \in Phones : q # p /\ Between(q) => Between(q)'
<1>1. /\ paying' \in [Phones -> Request] /\ paying'[p].at = "none"
      /\ \A q \in Phones : q # p => paying'[q] = paying[q]
  BY NoRequestFields DEF Answer, CardInv
<1> QED
  BY <1>1 DEF CardInv, Between

\* A step that only starts a request, which was none.
LEMMA StartEffect ==
    ASSUME CardInv, NEW p \in Phones, paying[p] = NoRequest, UNCHANGED card,
           NEW r \in Request, paying' = [paying EXCEPT ![p] = r],
           r.at = "clear" => r.is_default, r.at = "promote" => r.row \in RowIds
    PROVE  CardInv' /\ (NoDefault' => NoDefault)
<1>1. /\ paying' \in [Phones -> Request] /\ paying'[p] = r
      /\ \A q \in Phones : q # p => paying'[q] = paying[q]
  BY DEF CardInv
<1>2. \A q \in Phones : Between(q) => Between(q)'
  BY <1>1, NoRequestFields DEF Between
<1> QED
  BY <1>1, <1>2 DEF CardInv, NoDefault

\* While another request is between its two statements, the end of p's is not
\* what leaves the user without a default.
LEMMA AnotherPends ==
    ASSUME CardInv, NEW p \in Phones, Answer(p), card' \in [RowIds -> CardState],
           NEW q \in Phones, q # p, Between(q)
    PROVE  ~NoDefault'
  BY AnswerEffect DEF NoDefault

\* Reading whether there are cards starts a request and writes nothing.
LEMMA AddCardReadKeeps ==
    ASSUME CardInv, NEW p \in Phones, NEW make_default \in BOOLEAN, AddCardRead(p, make_default)
    PROVE  CardInv' /\ (NoDefault' => NoDefault)
<1> DEFINE default == SavedRows(card) = {} \/ make_default
           r == [NoRequest EXCEPT !.at = IF default THEN "clear" ELSE "create",
                                  !.is_default = default]
<1>1. paying[p] = NoRequest /\ UNCHANGED card /\ paying' = [paying EXCEPT ![p] = r]
  BY DEF AddCardRead
<1>2. default \in BOOLEAN
  OBVIOUS
<1> HIDE DEF default
<1>3. r \in Request /\ (r.at = "clear" => r.is_default) /\ r.at # "promote"
  BY <1>2, NoRequestFields DEF Request
<1> HIDE DEF r
<1> QED
  BY <1>1, <1>3, StartEffect

\* Clearing the default leaves none, between two statements of one request.
LEMMA AddCardClearKeeps ==
    ASSUME CardInv, NEW p \in Phones, AddCardClear(p)
    PROVE  CardInv' /\ ~NoDefault'
<1>1. paying[p].at = "clear" /\ paying[p].is_default /\ card' = Cleared(card, {})
  BY DEF AddCardClear, CardInv
<1>2. /\ paying'[p].at = "create" /\ paying'[p].is_default = paying[p].is_default
      /\ \A q \in Phones : q # p => paying'[q] = paying[q]
      /\ paying' \in [Phones -> Request]
  BY DEF AddCardClear, CardInv, Request
<1>3. card' \in [RowIds -> CardState]
  BY <1>1, ClearedEffect DEF CardInv
<1> QED
  BY <1>1, <1>2, <1>3 DEF CardInv, Between, NoDefault

\* The new card fills the gap its own request made, and the index refuses a
\* second default; one more card makes the gap only if it is the first.
LEMMA AddCardCreateKeeps ==
    ASSUME CardInv, NEW p \in Phones, AddCardCreate(p)
    PROVE  /\ CardInv'
           /\ NoDefault' /\ ~NoDefault => ~paying[p].is_default /\ SavedRows(card) = {}
<1> DEFINE d == paying[p].is_default
<1>1. PICK i \in RowIds :
          /\ NextRow(card, i)
          /\ card' = IF d /\ Defaults(card) # {} THEN card
                     ELSE [card EXCEPT ![i] = IF d THEN "default" ELSE "plain"]
  BY DEF AddCardCreate
<1>2. card \in [RowIds -> CardState] /\ card[i] = "absent" /\ Answer(p)
  BY <1>1 DEF CardInv, NextRow, AddCardCreate
<1>3. card' \in [RowIds -> CardState]
  BY <1>1, <1>2 DEF CardState
<1>4. CardInv'
  BY <1>2, <1>3, AnswerEffect
<1>5. CASE d /\ Defaults(card) # {}
  BY <1>1, <1>4, <1>5 DEF NoDefault
<1>6. CASE d /\ Defaults(card) = {}
  <2>1. i \in Defaults(card')
    BY <1>1, <1>2, <1>6 DEF Defaults
  <2> QED
    BY <1>4, <2>1 DEF NoDefault
<1>7. CASE ~d
  <2>1. card' = [card EXCEPT ![i] = "plain"]
    BY <1>1, <1>7
  <2>2. Defaults(card') = Defaults(card)
    BY <1>2, <2>1 DEF Defaults
  <2>3. ASSUME NEW q \in Phones, Between(q) PROVE ~NoDefault'
    BY <1>2, <1>3, <1>7, <2>3, AnotherPends DEF Between
  <2> QED
    BY <1>4, <1>7, <2>2, <2>3 DEF NoDefault
<1> QED
  BY <1>5, <1>6, <1>7

LEMMA SetDefaultReadKeeps ==
    ASSUME CardInv, NEW p \in Phones, NEW i \in RowIds, SetDefaultRead(p, i)
    PROVE  CardInv' /\ (NoDefault' => NoDefault)
<1> DEFINE r == [NoRequest EXCEPT !.at = "promote", !.row = i, !.is_default = card[i] = "default"]
<1>1. paying[p] = NoRequest /\ UNCHANGED card /\ paying' = [paying EXCEPT ![p] = r]
  BY DEF SetDefaultRead
<1>2. r \in Request /\ r.at = "promote" /\ r.row = i
  BY NoRequestFields DEF Request
<1> HIDE DEF r
<1> QED
  BY <1>1, <1>2, StartEffect

\* A promotion leaves its card as the default, writes nothing, or had a copy
\* that called the card the default when it was not.
LEMMA SetDefaultWriteKeeps ==
    ASSUME CardInv, NEW p \in Phones, SetDefaultWrite(p)
    PROVE  /\ CardInv'
           /\ NoDefault' /\ ~NoDefault => paying[p].is_default /\ card[paying[p].row] # "default"
<1> DEFINE i == paying[p].row
<1>1. paying[p].at = "promote" /\ Answer(p) /\ i \in RowIds /\ card \in [RowIds -> CardState]
  BY DEF SetDefaultWrite, CardInv
<1>2. CASE UNCHANGED card
  <2>1. card' \in [RowIds -> CardState]
    BY <1>1, <1>2
  <2>2. ASSUME NEW q \in Phones, Between(q) PROVE ~NoDefault'
    BY <1>1, <2>1, <2>2, AnotherPends DEF Between
  <2> QED
    BY <1>1, <1>2, <2>1, <2>2, AnswerEffect DEF NoDefault
<1>3. CASE card' = Promoted(card, i, paying[p].is_default)
  <2>1. /\ Cleared(card, {i}) \in [RowIds -> CardState]
        /\ Cleared(card, {i})[i] = "default" <=> card[i] = "default"
    BY <1>1, ClearedEffect
  <2>2. \/ card' = Cleared(card, {i}) /\ paying[p].is_default
        \/ card' = [Cleared(card, {i}) EXCEPT ![i] = "default"]
    BY <1>3 DEF Promoted
  <2>3. card' \in [RowIds -> CardState]
    BY <2>1, <2>2 DEF CardState
  <2>4. CASE card'[i] = "default"
    BY <1>1, <2>3, <2>4, AnswerEffect DEF NoDefault, Defaults
  <2>5. CASE card'[i] # "default"
    BY <1>1, <2>1, <2>2, <2>3, <2>5, AnswerEffect
  <2> QED
    BY <2>4, <2>5
<1> QED
  BY <1>2, <1>3 DEF SetDefaultWrite

\* A request that dies takes with it the default it was to create.
LEMMA CardRequestDiesKeeps ==
    ASSUME CardInv, NEW p \in Phones, CardRequestDies(p)
    PROVE  CardInv' /\ (NoDefault' /\ ~NoDefault => Between(p))
<1>1. Answer(p) /\ UNCHANGED card /\ card' \in [RowIds -> CardState]
  BY DEF CardRequestDies, CardInv
<1>2. ASSUME NEW q \in Phones, q # p, Between(q) PROVE ~NoDefault'
  BY <1>1, <1>2, AnotherPends
<1> QED
  BY <1>1, <1>2, AnswerEffect DEF NoDefault

LEMMA DeleteCardKeeps ==
    ASSUME CardInv, NEW i \in RowIds, DeleteCard(i)
    PROVE  CardInv' /\ (NoDefault' /\ ~NoDefault => card[i] = "default")
<1>1. /\ card' \in [RowIds -> CardState] /\ UNCHANGED paying
      /\ card[i] \in Saved /\ card'[i] = "deleted"
      /\ \A j \in RowIds : j # i => card'[j] = card[j]
  BY DEF DeleteCard, CardInv, CardState
<1>2. SavedRows(card) # {} /\ (card[i] # "default" => Defaults(card') = Defaults(card))
  BY <1>1 DEF SavedRows, Defaults
<1>3. \A q \in Phones : Between(q)' = Between(q)
  BY <1>1 DEF Between
<1> QED
  BY <1>1, <1>2, <1>3 DEF CardInv, NoDefault

\* Without cards and requests the invariant holds.
LEMMA CardInitInv == CardInit => CardInv
  BY NoRequestFields DEF CardInit, CardInv, CardState

\* The invariant is kept, and a step that leaves the user without a default is
\* one of the four.
LEMMA CardStep ==
    ASSUME CardInv, [CardNext]_cardvars
    PROVE  /\ CardInv'
           /\ NoDefault' /\ ~NoDefault =>
                \/ \E i \in RowIds : DeleteCard(i) /\ card[i] = "default"
                \/ \E p \in Phones :
                       \/ CardRequestDies(p) /\ Between(p)
                       \/ /\ SetDefaultWrite(p)
                          /\ paying[p].is_default /\ card[paying[p].row] # "default"
                       \/ AddCardCreate(p) /\ ~paying[p].is_default /\ SavedRows(card) = {}
<1>1. CASE UNCHANGED cardvars
  BY <1>1 DEF cardvars, CardInv, NoDefault, Between, Defaults, SavedRows
<1>2. CASE \E p \in Phones : \/ \E make_default \in BOOLEAN : AddCardRead(p, make_default)
                             \/ \E i \in RowIds : SetDefaultRead(p, i)
                             \/ AddCardClear(p)
  BY <1>2, AddCardReadKeeps, SetDefaultReadKeeps, AddCardClearKeeps
<1>3. CASE \E p \in Phones : AddCardCreate(p)
  BY <1>3, AddCardCreateKeeps
<1>4. CASE \E p \in Phones : SetDefaultWrite(p)
  BY <1>4, SetDefaultWriteKeeps
<1>5. CASE \E p \in Phones : CardRequestDies(p)
  BY <1>5, CardRequestDiesKeeps
<1>6. CASE \E i \in RowIds : DeleteCard(i)
  BY <1>6, DeleteCardKeeps
<1> QED
  BY <1>1, <1>2, <1>3, <1>4, <1>5, <1>6 DEF CardNext

\* For any number of cards and of overlapping requests, and wherever a request
\* dies: a user with cards loses his default only in the four ways named.
THEOREM DefaultIsLostOnlySo == CardSpec => OnlyMishapsLoseTheDefault
<1>1. CardInv /\ [CardNext]_cardvars => CardInv'
  BY CardStep
<1>2. CardInv /\ [CardNext]_cardvars =>
          [NoDefault' /\ ~NoDefault =>
               \/ \E i \in RowIds : DeleteCard(i) /\ card[i] = "default"
               \/ \E p \in Phones :
                      \/ CardRequestDies(p) /\ Between(p)
                      \/ /\ SetDefaultWrite(p)
                         /\ paying[p].is_default /\ card[paying[p].row] # "default"
                      \/ AddCardCreate(p) /\ ~paying[p].is_default
                         /\ SavedRows(card) = {}]_cardvars
  BY CardStep
<1> QED
  BY <1>1, <1>2, CardInitInv, PTL DEF CardSpec, OnlyMishapsLoseTheDefault

---------------------------------------------------------------------------
(* Addresses *)

\* An address request that has cleared the others, and that no save has
\* overtaken, will find no default but its own row.
AddressInv ==
    /\ address \in [RowIds -> CardState]
    /\ moving \in [Phones -> Request]
    /\ \A p \in Phones : moving[p].at = "save" /\ moving[p].is_default /\ ~moving[p].stale
           => Defaults(address) \subseteq {moving[p].row}

\* A request that starts has still to clear the others, or makes no default.
LEMMA LoadAddressKeeps ==
    ASSUME AddressInv, NEW p \in Phones, NEW i \in RowIds \cup {0}, NEW is_default \in BOOLEAN,
           LoadAddress(p, i, is_default)
    PROVE  AddressInv'
<1>1. NoRequest \in Request
  BY DEF NoRequest, Request
<1>2. moving' = [moving EXCEPT ![p] = [NoRequest EXCEPT
           !.at = IF is_default THEN "clear" ELSE "save", !.row = i, !.is_default = is_default]]
  BY DEF LoadAddress
<1>3. /\ moving' \in [Phones -> Request]
      /\ moving'[p].at = "save" => ~moving'[p].is_default
      /\ \A q \in Phones : q # p => moving'[q] = moving[q]
  BY <1>1, <1>2 DEF AddressInv, Request
<1> QED
  BY <1>3 DEF AddressInv, LoadAddress

\* Clearing leaves no default but the row it is done for.
LEMMA ClearOthersKeeps ==
    ASSUME AddressInv, NEW p \in Phones, ClearOthers(p)
    PROVE  AddressInv'
<1>1. /\ address' \in [RowIds -> CardState]
      /\ \A i \in RowIds : address'[i] = "default" <=> address[i] = "default" /\ i = moving[p].row
  BY ClearedEffect DEF ClearOthers, AddressInv
<1>2. /\ moving' \in [Phones -> Request]
      /\ moving'[p].row = moving[p].row
      /\ \A q \in Phones : q # p => moving'[q] = moving[q]
  BY DEF ClearOthers, AddressInv, Request
<1>3. Defaults(address') \subseteq {moving[p].row} /\ Defaults(address') \subseteq Defaults(address)
  BY <1>1 DEF Defaults
<1>4. ASSUME NEW q \in Phones, moving'[q].at = "save", moving'[q].is_default, ~moving'[q].stale
      PROVE  Defaults(address') \subseteq {moving'[q].row}
  BY <1>2, <1>3, <1>4 DEF AddressInv
<1> QED
  BY <1>1, <1>2, <1>4 DEF AddressInv, Defaults

\* A save makes every other request under way stale.
LEMMA SaveAddressKeeps ==
    ASSUME AddressInv, NEW p \in Phones, SaveAddress(p)
    PROVE  AddressInv'
<1>1. address' \in [RowIds -> CardState]
  BY DEF SaveAddress, AddressInv, CardState
<1>2. NoRequest \in Request /\ NoRequest.at = "none"
  BY DEF NoRequest, Request
<1>3. moving' = [q \in Phones |-> IF q = p THEN NoRequest
                                  ELSE [moving[q] EXCEPT !.stale = moving[q] # NoRequest]]
  BY DEF SaveAddress
<1>4. ASSUME NEW q \in Phones
      PROVE  /\ moving'[q] \in Request
             /\ moving'[q].at # "none" => moving'[q].stale
  <2>1. CASE q = p
    BY <1>2, <1>3, <2>1
  <2>2. CASE q # p
    <3>1. moving'[q] = [moving[q] EXCEPT !.stale = moving[q] # NoRequest]
      BY <1>3, <2>2
    <3> QED
      BY <1>2, <3>1 DEF AddressInv, Request
  <2> QED
    BY <2>1, <2>2
<1>5. moving' \in [Phones -> Request]
  BY <1>3, <1>4
<1> QED
  BY <1>1, <1>4, <1>5 DEF AddressInv

\* The invariant of the addresses holds of every behaviour.
LEMMA AddressInvariance == AddressSpec => []AddressInv
<1>1. AddressInit => AddressInv
  <2>1. NoRequest \in Request /\ NoRequest.at = "none"
    BY DEF NoRequest, Request
  <2> QED
    BY <2>1 DEF AddressInit, AddressInv, CardState
<1>2. AddressInv /\ [AddressNext]_addressvars => AddressInv'
  <2> SUFFICES ASSUME AddressInv, [AddressNext]_addressvars PROVE AddressInv'
    OBVIOUS
  <2>1. ASSUME NEW i \in RowIds, DeleteAddress(i) PROVE AddressInv'
    <3>1. /\ address' \in [RowIds -> CardState]
          /\ \A j \in RowIds : address'[j] = "default" => address[j] = "default"
      BY <2>1 DEF DeleteAddress, AddressInv, CardState
    <3>2. Defaults(address') \subseteq Defaults(address) /\ UNCHANGED moving
      BY <2>1, <3>1 DEF Defaults, DeleteAddress
    <3> QED
      BY <3>1, <3>2 DEF AddressInv, Defaults
  <2>2. CASE UNCHANGED addressvars
    BY <2>2 DEF addressvars, AddressInv, Defaults
  <2> QED
    BY <2>1, <2>2, LoadAddressKeeps, ClearOthersKeeps, SaveAddressKeeps DEF AddressNext
<1> QED
  BY <1>1, <1>2, PTL DEF AddressSpec

\* Whatever overlapping saves left behind, a save of a default that no other
\* save overtakes leaves exactly one default address.
THEOREM DefaultsHeal == AddressSpec => DefaultAddressHeals
<1> DEFINE Heals(p) == \E i \in RowIds : Defaults(address') = {i} /\ moving[p].row \in {0, i}
<1>1. ASSUME AddressInv, NEW p \in Phones,
             SaveAddress(p), moving[p].is_default, ~moving[p].stale
      PROVE  Heals(p)
  <2>1. PICK i \in RowIds :
            /\ IF moving[p].row = 0 THEN NextRow(address, i) ELSE i = moving[p].row
            /\ address' = [address EXCEPT ![i] = "default"]
    BY <1>1 DEF SaveAddress
  <2>2. Defaults(address) \subseteq {moving[p].row}
    BY <1>1 DEF AddressInv, SaveAddress
  <2>3. 0 \notin RowIds
    BY DEF RowIds
  <2>4. Defaults(address') = {i}
    BY <1>1, <2>1, <2>2, <2>3 DEF Defaults, AddressInv
  <2> QED
    BY <2>1, <2>4
<1>2. AddressInv /\ [AddressNext]_addressvars =>
          [\A p \in Phones : SaveAddress(p) /\ moving[p].is_default /\ ~moving[p].stale
               => Heals(p)]_addressvars
  BY <1>1
<1> QED
  BY <1>2, AddressInvariance, PTL DEF AddressSpec, DefaultAddressHeals

---------------------------------------------------------------------------
(* Notices *)


OrderStatus ==
    {"PENDING", "CONFIRMED", "PROCESSING", "AWAITING_QASSOB", "PROCESSING_BUTCHER",
     "IN_TRANSIT", "DELIVERED_PENDING_CONFIRMATION", "DELIVERED", "CANCELLED"}

Notice == [to : {"buyer", "supplier"}, status : OrderStatus \cup {"reminder"}]

Asked == [by : {"nobody", "buyer", "courier"}, at : {"idle", "tested", "tracked", "saved"},
          before : OrderStatus \cup {"none"}]

NoticeTypes ==
    /\ status \in OrderStatus
    /\ notices \in Seq(Notice)
    /\ asked \in [Requests -> Asked]
    /\ untold \in BOOLEAN

BuyerWasTold(new) ==
    \E i \in DOMAIN notices : notices[i].to = "buyer" /\ notices[i].status = new

\* r has saved DELIVERED over another status, and will tell the buyer.
WillTell(r) == asked[r].by = "buyer" /\ asked[r].at = "saved" /\ asked[r].before # "DELIVERED"

\* Only the confirmation saves before it tells.
OthersTellAtOnce == status \in {"PENDING", "DELIVERED"} \/ BuyerWasTold(status)

\* Nobody has found a status stored that the buyer was not told, or will be.
TrackedWasTold ==
    \A r \in Requests :
        /\ asked[r].at = "idle" => asked[r] = NotAsked
        /\ asked[r].at \in {"tracked", "saved"} => asked[r].before # "none"
        /\ asked[r].before = "DELIVERED_PENDING_CONFIRMATION" =>
               BuyerWasTold("DELIVERED_PENDING_CONFIRMATION")

ConfirmationWillTell ==
    (\/ status = "DELIVERED"
     \/ \E r \in Requests :
            \/ asked[r].before = "DELIVERED"
            \/ asked[r].by = "buyer" /\ asked[r].at = "saved")
        => untold \/ BuyerWasTold("DELIVERED") \/ \E r \in Requests : WillTell(r)

NoticesInv == NoticeTypes /\ OthersTellAtOnce /\ TrackedWasTold /\ ConfirmationWillTell

---------------------------------------------------------------------------

\* Adding rows takes no notice back, and tells what the rows say.
LEMMA AddEffect ==
    ASSUME notices \in Seq(Notice), NEW rows \in Seq(Notice), Add(rows)
    PROVE  /\ notices' \in Seq(Notice)
           /\ \A new : BuyerWasTold(new) => BuyerWasTold(new)'
           /\ \A i \in DOMAIN rows : rows[i].to = "buyer" => BuyerWasTold(rows[i].status)'
<1>1. notices' = notices \o rows
  BY DEF Add
<1>2. /\ notices' \in Seq(Notice)
      /\ Len(notices') = Len(notices) + Len(rows)
      /\ \A i \in 1 .. Len(notices') :
             notices'[i] = IF i <= Len(notices) THEN notices[i] ELSE rows[i - Len(notices)]
  BY <1>1, ConcatProperties
<1>3. /\ Len(notices) \in Nat /\ Len(rows) \in Nat
      /\ DOMAIN notices = 1 .. Len(notices)
      /\ DOMAIN rows = 1 .. Len(rows)
      /\ DOMAIN notices' = 1 .. Len(notices) + Len(rows)
  BY <1>2
<1>4. ASSUME NEW i \in DOMAIN notices PROVE i \in DOMAIN notices' /\ notices'[i] = notices[i]
  BY <1>2, <1>3
<1>5. ASSUME NEW i \in DOMAIN rows
      PROVE  Len(notices) + i \in DOMAIN notices' /\ notices'[Len(notices) + i] = rows[i]
  BY <1>2, <1>3
<1>6. \A new : BuyerWasTold(new) => BuyerWasTold(new)'
  BY <1>4 DEF BuyerWasTold
<1>7. \A i \in DOMAIN rows : rows[i].to = "buyer" => BuyerWasTold(rows[i].status)'
  BY <1>5 DEF BuyerWasTold
<1> QED
  BY <1>2, <1>6, <1>7

\* A change of status is told to the buyer.
LEMMA ToldTellsBuyer ==
    ASSUME NEW before \in OrderStatus, NEW new \in OrderStatus
    PROVE  /\ Told(before, new) \in Seq(Notice)
           /\ new # before => \E i \in DOMAIN Told(before, new) :
                  Told(before, new)[i].to = "buyer" /\ Told(before, new)[i].status = new
<1>1. Row("buyer", new) \in Notice /\ Row("supplier", new) \in Notice
  BY DEF Row, Notice
<1>2. CASE new = before
  <2>1. Told(before, new) = <<>>
    BY <1>2 DEF Told
  <2> QED
    BY <1>2, <2>1, EmptySeq
<1>3. CASE new # before /\ new = "CANCELLED"
  <2>1. Told(before, new) = <<Row("buyer", new), Row("supplier", new)>>
    BY <1>3 DEF Told
  <2> QED
    BY <1>1, <2>1 DEF Row
<1>4. CASE new # before /\ new # "CANCELLED"
  <2>1. Told(before, new) = <<Row("buyer", new)>>
    BY <1>4 DEF Told
  <2> QED
    BY <1>1, <2>1 DEF Row
<1> QED
  BY <1>2, <1>3, <1>4

\* The service layer tells in the transaction that saves.
LEMMA ServiceKeeps ==
    ASSUME NoticesInv, NEW new, ServiceSaves(new)
    PROVE  NoticesInv'
<1>1. /\ <<status, new>> \in ServiceEdges
      /\ status' = new /\ UNCHANGED asked /\ UNCHANGED untold
      /\ Add(Told(status, new))
  BY DEF ServiceSaves
<1>2. /\ status \in OrderStatus /\ new \in OrderStatus
      /\ new # status /\ new \notin {"PENDING", "DELIVERED"}
  BY <1>1 DEF ServiceEdges, OrderStatus
<1>3. /\ notices' \in Seq(Notice)
      /\ \A s : BuyerWasTold(s) => BuyerWasTold(s)'
      /\ BuyerWasTold(new)'
  <2>1. Told(status, new) \in Seq(Notice)
    BY <1>2, ToldTellsBuyer
  <2>2. PICK i \in DOMAIN Told(status, new) :
            Told(status, new)[i].to = "buyer" /\ Told(status, new)[i].status = new
    BY <1>2, ToldTellsBuyer
  <2> QED
    BY <1>1, <2>1, <2>2, AddEffect DEF NoticesInv, NoticeTypes
<1>4. NoticeTypes' /\ OthersTellAtOnce'
  BY <1>1, <1>2, <1>3 DEF NoticesInv, NoticeTypes, OthersTellAtOnce
<1>5. TrackedWasTold'
  BY <1>1, <1>3 DEF NoticesInv, TrackedWasTold
<1>6. \A r \in Requests : WillTell(r)' <=> WillTell(r)
  BY <1>1 DEF WillTell
<1>7. ConfirmationWillTell'
  BY <1>1, <1>2, <1>3, <1>6 DEF NoticesInv, ConfirmationWillTell
<1> QED
  BY <1>4, <1>5, <1>7 DEF NoticesInv

\* Asking and tracking save nothing; what is tracked is stored, and so told.
LEMMA AskOrTrackKeeps ==
    ASSUME NoticesInv, NEW r \in Requests, ConfirmAsked(r) \/ CourierAsked(r) \/ Track(r)
    PROVE  NoticesInv'
<1>1. UNCHANGED <<status, notices, untold>>
  BY DEF ConfirmAsked, CourierAsked, Ask, Track
<1>2. /\ asked' \in [Requests -> Asked]
      /\ \A q \in Requests : q # r => asked'[q] = asked[q]
      /\ asked'[r].at \in {"tested", "tracked"}
      /\ asked'[r].before = IF asked'[r].at = "tracked" THEN status ELSE "none"
      /\ asked[r].at \in {"idle", "tested"}
  BY DEF ConfirmAsked, CourierAsked, Ask, Track, NoticesInv, NoticeTypes, Asked, NotAsked
<1>3. \A s : BuyerWasTold(s)' <=> BuyerWasTold(s)
  BY <1>1 DEF BuyerWasTold
<1>4. \A q \in Requests : WillTell(q) => WillTell(q)'
  BY <1>2 DEF WillTell
<1>5. NoticeTypes' /\ OthersTellAtOnce'
  BY <1>1, <1>2, <1>3 DEF NoticesInv, NoticeTypes, OthersTellAtOnce
<1>6. TrackedWasTold'
  BY <1>1, <1>2, <1>3 DEF NoticesInv, NoticeTypes, OrderStatus, TrackedWasTold, OthersTellAtOnce
<1>7. ConfirmationWillTell'
  BY <1>1, <1>2, <1>3, <1>4 DEF NoticesInv, ConfirmationWillTell
<1> QED
  BY <1>5, <1>6, <1>7 DEF NoticesInv

\* The first confirmation to save over another status is the one that tells.
LEMMA ConfirmSavesKeeps ==
    ASSUME NoticesInv, NEW r \in Requests, ConfirmSaves(r)
    PROVE  NoticesInv'
<1>1. status' = "DELIVERED" /\ UNCHANGED notices /\ UNCHANGED untold
  BY DEF ConfirmSaves
<1>2. /\ asked[r].by = "buyer" /\ asked[r].at = "tracked"
      /\ asked' \in [Requests -> Asked]
      /\ asked'[r].by = "buyer" /\ asked'[r].at = "saved" /\ asked'[r].before = asked[r].before
      /\ \A q \in Requests : q # r => asked'[q] = asked[q]
  BY DEF ConfirmSaves, NoticesInv, NoticeTypes, Asked
<1>3. \A s : BuyerWasTold(s)' <=> BuyerWasTold(s)
  BY <1>1 DEF BuyerWasTold
<1>4. NoticeTypes' /\ OthersTellAtOnce'
  BY <1>1, <1>2 DEF NoticesInv, NoticeTypes, OthersTellAtOnce, OrderStatus
<1>5. TrackedWasTold'
  BY <1>2, <1>3 DEF NoticesInv, TrackedWasTold
<1>6. untold \/ BuyerWasTold("DELIVERED") \/ \E q \in Requests : WillTell(q)'
  <2>1. CASE asked[r].before = "DELIVERED"
    <3>1. untold \/ BuyerWasTold("DELIVERED") \/ \E q \in Requests : WillTell(q)
      BY <2>1 DEF NoticesInv, ConfirmationWillTell
    <3>2. \A q \in Requests : WillTell(q) => WillTell(q)'
      BY <1>2 DEF WillTell
    <3> QED
      BY <3>1, <3>2
  <2>2. CASE asked[r].before # "DELIVERED"
    BY <1>2, <2>2 DEF WillTell
  <2> QED
    BY <2>1, <2>2
<1>7. ConfirmationWillTell'
  BY <1>1, <1>3, <1>6 DEF ConfirmationWillTell
<1> QED
  BY <1>4, <1>5, <1>7 DEF NoticesInv

\* ... and it does tell.
LEMMA ConfirmTellsKeeps ==
    ASSUME NoticesInv, NEW r \in Requests, ConfirmTells(r)
    PROVE  NoticesInv'
<1> DEFINE b == asked[r].before
<1>1. /\ UNCHANGED status /\ UNCHANGED untold
      /\ asked[r].by = "buyer" /\ asked[r].at = "saved"
      /\ Add(Told(b, "DELIVERED"))
      /\ b \in OrderStatus /\ "DELIVERED" \in OrderStatus
  BY DEF ConfirmTells, NoticesInv, NoticeTypes, Asked, OrderStatus, TrackedWasTold
<1>2. /\ asked' \in [Requests -> Asked]
      /\ asked'[r] = NotAsked
      /\ \A q \in Requests : q # r => asked'[q] = asked[q]
  BY DEF ConfirmTells, NoticesInv, NoticeTypes, Asked, NotAsked
<1>3. Told(b, "DELIVERED") \in Seq(Notice)
  BY <1>1, ToldTellsBuyer
<1>4. /\ notices' \in Seq(Notice)
      /\ \A s : BuyerWasTold(s) => BuyerWasTold(s)'
  BY <1>1, <1>3, AddEffect DEF NoticesInv, NoticeTypes
<1>5. b # "DELIVERED" => BuyerWasTold("DELIVERED")'
  <2>1. SUFFICES ASSUME b # "DELIVERED" PROVE BuyerWasTold("DELIVERED")'
    OBVIOUS
  <2>2. PICK i \in DOMAIN Told(b, "DELIVERED") :
            /\ Told(b, "DELIVERED")[i].to = "buyer"
            /\ Told(b, "DELIVERED")[i].status = "DELIVERED"
    BY <1>1, <2>1, ToldTellsBuyer
  <2> QED
    BY <1>1, <1>3, <2>2, AddEffect DEF NoticesInv, NoticeTypes
<1>6. NoticeTypes' /\ OthersTellAtOnce'
  BY <1>1, <1>2, <1>4 DEF NoticesInv, NoticeTypes, OthersTellAtOnce
<1>7. TrackedWasTold'
  BY <1>2, <1>4 DEF NoticesInv, TrackedWasTold, NotAsked
<1>8. \A q \in Requests : q # r /\ WillTell(q) => WillTell(q)'
  BY <1>2 DEF WillTell
<1>9. ConfirmationWillTell'
  <2>1. untold \/ BuyerWasTold("DELIVERED") \/ \E q \in Requests : WillTell(q)
    BY <1>1 DEF NoticesInv, ConfirmationWillTell
  <2>2. WillTell(r) => BuyerWasTold("DELIVERED")'
    BY <1>5 DEF WillTell
  <2> QED
    BY <1>1, <1>4, <1>8, <2>1, <2>2 DEF ConfirmationWillTell
<1> QED
  BY <1>6, <1>7, <1>9 DEF NoticesInv

\* The courier's save tells with it, or finds what was told before.
LEMMA CourierSavesKeeps ==
    ASSUME NoticesInv, NEW r \in Requests, CourierSaves(r)
    PROVE  NoticesInv'
<1> DEFINE b == asked[r].before
           arrived == "DELIVERED_PENDING_CONFIRMATION"
           rows == Append(Told(b, arrived), Row("buyer", "reminder"))
<1>1. /\ asked[r].by = "courier" /\ asked[r].at = "tracked"
      /\ status' = arrived /\ UNCHANGED untold
      /\ Add(rows)
      /\ b \in OrderStatus /\ arrived \in OrderStatus
  BY DEF CourierSaves, NoticesInv, NoticeTypes, Asked, OrderStatus, TrackedWasTold
<1>2. /\ asked' \in [Requests -> Asked]
      /\ asked'[r] = NotAsked
      /\ \A q \in Requests : q # r => asked'[q] = asked[q]
  BY DEF CourierSaves, NoticesInv, NoticeTypes, Asked, NotAsked
<1>3. /\ rows \in Seq(Notice)
      /\ \A i \in DOMAIN Told(b, arrived) : i \in DOMAIN rows /\ rows[i] = Told(b, arrived)[i]
  <2>1. Told(b, arrived) \in Seq(Notice) /\ Row("buyer", "reminder") \in Notice
    BY <1>1, ToldTellsBuyer DEF Row, Notice
  <2> QED
    BY <2>1, AppendProperties
<1>4. /\ notices' \in Seq(Notice)
      /\ \A s : BuyerWasTold(s) => BuyerWasTold(s)'
  BY <1>1, <1>3, AddEffect DEF NoticesInv, NoticeTypes
<1>5. BuyerWasTold(arrived)'
  <2>1. CASE b = arrived
    BY <1>4, <2>1 DEF NoticesInv, TrackedWasTold
  <2>2. CASE b # arrived
    <3>1. PICK i \in DOMAIN Told(b, arrived) :
              Told(b, arrived)[i].to = "buyer" /\ Told(b, arrived)[i].status = arrived
      BY <1>1, <2>2, ToldTellsBuyer
    <3>2. i \in DOMAIN rows /\ rows[i].to = "buyer" /\ rows[i].status = arrived
      BY <1>3, <3>1
    <3> HIDE DEF rows
    <3> QED
      BY <1>1, <1>3, <3>2, AddEffect DEF NoticesInv, NoticeTypes
  <2> QED
    BY <2>1, <2>2
<1>6. NoticeTypes' /\ OthersTellAtOnce'
  BY <1>1, <1>2, <1>4, <1>5 DEF NoticesInv, NoticeTypes, OthersTellAtOnce
<1>7. TrackedWasTold'
  BY <1>2, <1>4 DEF NoticesInv, TrackedWasTold, NotAsked
<1>8. \A q \in Requests : WillTell(q) => WillTell(q)'
  BY <1>1, <1>2 DEF WillTell
<1>9. ConfirmationWillTell'
  BY <1>1, <1>2, <1>4, <1>8 DEF NoticesInv, ConfirmationWillTell, NotAsked
<1> QED
  BY <1>6, <1>7, <1>9 DEF NoticesInv

---------------------------------------------------------------------------

\* A request that dies tells nothing more; if it was to tell, that is recorded.
LEMMA RequestDiesKeeps ==
    ASSUME NoticesInv, NEW r \in Requests, RequestDies(r)
    PROVE  NoticesInv'
<1>1. /\ UNCHANGED status /\ UNCHANGED notices
      /\ untold' = (untold \/ (asked[r].at = "saved" /\ asked[r].before # "DELIVERED"))
      /\ asked' \in [Requests -> Asked] /\ asked'[r] = NotAsked
      /\ \A q \in Requests : q # r => asked'[q] = asked[q]
  BY DEF RequestDies, NoticesInv, NoticeTypes, Asked, NotAsked
<1>2. \A s : BuyerWasTold(s)' <=> BuyerWasTold(s)
  BY <1>1 DEF BuyerWasTold
<1>3. \A q \in Requests : WillTell(q) => WillTell(q)' \/ untold'
  BY <1>1 DEF WillTell
<1>4. NoticeTypes' /\ OthersTellAtOnce'
  BY <1>1, <1>2 DEF NoticesInv, NoticeTypes, OthersTellAtOnce
<1>5. TrackedWasTold'
  BY <1>1, <1>2 DEF NoticesInv, TrackedWasTold, NotAsked
<1>6. CASE untold'
  BY <1>4, <1>5, <1>6 DEF NoticesInv, ConfirmationWillTell
<1>7. CASE ~untold'
  <2>1. ~untold
    BY <1>1, <1>7
  <2>2. BuyerWasTold("DELIVERED") => BuyerWasTold("DELIVERED")'
    BY <1>2
  <2>3. (\E q \in Requests : WillTell(q)) => \E q \in Requests : WillTell(q)'
    BY <1>3, <1>7
  <2>4. ConfirmationWillTell'
    BY <1>1, <2>1, <2>2, <2>3 DEF NoticesInv, ConfirmationWillTell, NotAsked
  <2> QED
    BY <1>4, <1>5, <2>4 DEF NoticesInv
<1> QED
  BY <1>6, <1>7

\* A new order was told to the supplier, and no request is under way.
LEMMA NoticesInitInv == NInit => NoticesInv
<1> SUFFICES ASSUME NInit PROVE NoticesInv
  OBVIOUS
<1>1. Row("supplier", "PENDING") \in Notice /\ NotAsked \in Asked
  BY DEF Row, Notice, OrderStatus, NotAsked, Asked
<1>2. NoticeTypes
  <2>1. untold \in BOOLEAN
    BY DEF NInit
  <2>2. notices \in Seq(Notice) /\ status \in OrderStatus
    BY <1>1 DEF NInit, OrderStatus
  <2>3. asked \in [Requests -> Asked]
    BY <1>1 DEF NInit
  <2> QED
    BY <2>1, <2>2, <2>3 DEF NoticeTypes
<1> QED
  BY <1>2 DEF NInit, NoticesInv, OthersTellAtOnce, TrackedWasTold, ConfirmationWillTell, NotAsked

\* Every step keeps the invariant.
LEMMA NoticesNextInv == NoticesInv /\ [NNext]_nvars => NoticesInv'
<1> SUFFICES ASSUME NoticesInv, [NNext]_nvars PROVE NoticesInv'
  OBVIOUS
<1>1. CASE UNCHANGED nvars \/ CourierElsewhere
  BY <1>1 DEF nvars, CourierElsewhere, NoticesInv, NoticeTypes, OthersTellAtOnce, TrackedWasTold,
              ConfirmationWillTell, BuyerWasTold, WillTell
<1> QED
  BY <1>1, ServiceKeeps, AskOrTrackKeeps, ConfirmSavesKeeps, ConfirmTellsKeeps,
     CourierSavesKeeps, RequestDiesKeeps DEF NNext

\* With any number of overlapping requests, and wherever they die, the buyer was
\* told the status that an order has once no request is under way, unless it is
\* DELIVERED and a confirmation died before it told him.
THEOREM BuyerKnowsTheStatus == NSpec => []StandingStatusWasTold
<1>1. NoticesInv => StandingStatusWasTold
  <2> SUFFICES ASSUME NoticesInv, Quiet, status # "PENDING"
               PROVE  BuyerWasTold(status) \/ (status = "DELIVERED" /\ untold)
    BY DEF StandingStatusWasTold, BuyerWasTold
  <2>1. \A r \in Requests : ~WillTell(r)
    BY DEF Quiet, WillTell, NotAsked
  <2> QED
    BY <2>1 DEF NoticesInv, OthersTellAtOnce, ConfirmationWillTell
<1> QED
  BY <1>1, NoticesInitInv, NoticesNextInv, PTL DEF NSpec

---------------------------------------------------------------------------
(* Dispatch *)

Profile == [online : BOOLEAN, vehicle : VehicleKinds]

DispatchTypes ==
    /\ profile \in [Couriers -> Profile]
    /\ loaded \in [Couriers -> Profile \cup {NoProfileEdit}]
    /\ pick \in [Dispatchers -> [order : Jobs \cup {NoOne}, to : -1 .. Supplier, gone : BOOLEAN]]
    /\ wish \in [Couriers -> BOOLEAN]
    /\ undone \subseteq Couriers

\* A courier shown online has asked for it, or a PATCH of theirs undid the last
\* thing they asked for.
OnlineWasWished == \A c \in Online : wish[c] \/ c \in undone

\* The same of the couriers picked, unless they went offline since.
PicksFollowWishes ==
    \A d \in Dispatchers, c \in Couriers :
        pick[d].to = c => wish[c] \/ pick[d].gone \/ c \in undone

DispatchInv == DispatchTypes /\ OnlineWasWished /\ PicksFollowWishes

\* Every non-empty set of natural numbers has a least element.
LEMMA LeastNumber ==
    ASSUME NEW S \in SUBSET Nat, S # {}
    PROVE  \E m \in S : \A n \in S : m <= n
<1> DEFINE R == OpToRel(<, Nat)
<1>1. \A m, n \in Nat : <<n, m>> \in R <=> n < m
  BY DEF OpToRel
<1>2. IsWellFoundedOn(R, Nat)
  BY NatLessThanWellFounded
<1> HIDE DEF R
<1>3. PICK m \in S : \A n \in S : ~(<<n, m>> \in R)
  BY <1>2, WFMin
<1>4. ASSUME NEW n \in S PROVE m <= n
  <2>1. m \in Nat /\ n \in Nat /\ ~(<<n, m>> \in R)
    BY <1>3
  <2>2. ~(n < m)
    BY <1>1, <2>1
  <2> QED
    BY <2>1, <2>2
<1> QED
  BY <1>4

\* The load of a courier is a number.
LEMMA LoadsAreNumbers == \A c \in Couriers : ActiveCount(c) \in Nat
<1> SUFFICES ASSUME NEW c \in Couriers PROVE ActiveCount(c) \in Nat
  OBVIOUS
<1> DEFINE Mine == {o \in Jobs : job[o].to = c /\ job[o].active}
<1>1. IsFiniteSet(Mine)
  <2>1. Mine \in SUBSET Jobs
    OBVIOUS
  <2>2. IsFiniteSet(Jobs)
    BY DispatchAssumption
  <2> QED
    BY <2>1, <2>2, FS_Subset, Zenon
<1> QED
  BY <1>1, FS_CardinalityType DEF ActiveCount

\* order_by("active_count", "id").first() of some couriers is one of them: the
\* least id among those with the least load.
LEMMA FirstIsInThePool ==
    ASSUME NEW pool \in SUBSET Couriers, pool # {}
    PROVE  First(pool) \in pool
<1>1. pool \subseteq Nat
  BY DispatchAssumption DEF Couriers
<1> DEFINE Counts == {ActiveCount(c) : c \in pool}
<1>2. PICK n \in Counts : \A k \in Counts : n <= k
  <2>1. Counts \in SUBSET Nat /\ Counts # {}
    BY LoadsAreNumbers
  <2> HIDE DEF Counts
  <2> QED
    BY <2>1, LeastNumber
<1> DEFINE Least == {c \in pool : ActiveCount(c) = n}
<1>3. PICK i \in Least : \A j \in Least : i <= j
  <2>1. Least \in SUBSET Nat /\ Least # {}
    BY <1>1, <1>2
  <2> HIDE DEF Least
  <2> QED
    BY <2>1, LeastNumber
<1>4. ASSUME NEW d \in pool PROVE Before(i, d)
  <2>1. ActiveCount(i) = n /\ n <= ActiveCount(d) /\ n \in Nat /\ ActiveCount(d) \in Nat
    BY <1>2, <1>3, LoadsAreNumbers
  <2> QED
    BY <1>3, <2>1 DEF Before
<1> QED
  BY <1>3, <1>4 DEF First

\* Whoever is picked for an order is the supplier, the stub, or online.
LEMMA PickedIsOnline ==
    ASSUME NEW o, NEW v, Picked(o, v) \in Couriers
    PROVE  Picked(o, v) \in Online
<1>1. Picked(o, v) = First(Pool(v)) /\ Pool(v) # {}
  BY DispatchAssumption DEF Picked, Supplier, Stub, Couriers
<1>2. Pool(v) \subseteq Online /\ Online \subseteq Couriers
  BY DEF Pool, Matching, Online
<1> QED
  BY <1>1, <1>2, FirstIsInThePool

LEMMA PickedTyped ==
    ASSUME NEW o, NEW v
    PROVE  Picked(o, v) \in -1 .. Supplier
<1>1. Pool(v) \in SUBSET Couriers
  BY DEF Pool, Matching, Online
<1>2. Pool(v) # {} => First(Pool(v)) \in 1 .. MaxCouriers
  BY <1>1, FirstIsInThePool DEF Couriers
<1> QED
  BY <1>2, DispatchAssumption DEF Picked, Supplier, Stub

LEMMA DispatchInitInv == DInit => DispatchInv
<1> SUFFICES ASSUME DInit PROVE DispatchInv
  OBVIOUS
<1>1. NoOne \in -1 .. Supplier
  BY DispatchAssumption DEF NoOne, Supplier
<1> QED
  BY <1>1 DEF DInit, DispatchInv, DispatchTypes, OnlineWasWished, PicksFollowWishes, Online,
              NoPick, NoOne, VehicleKinds, Couriers, Profile

\* A request of c that makes online what c asks for: a dispatch that had picked
\* c knows when it is to be offline.
LEMMA WishFollowed ==
    ASSUME DispatchInv, NEW c \in Couriers, NEW online \in BOOLEAN, NEW v \in VehicleKinds,
           profile' = [profile EXCEPT ![c] = [online |-> online, vehicle |-> v]],
           wish' = [wish EXCEPT ![c] = online], undone' = undone \ {c},
           pick' = GoneSince(c, online),
           loaded' \in [Couriers -> Profile \cup {NoProfileEdit}]
    PROVE  DispatchInv'
<1>1. /\ profile'[c].online = online /\ wish'[c] = online
      /\ \A d \in Couriers \ {c} :
             /\ profile'[d] = profile[d] /\ wish'[d] = wish[d]
             /\ d \in undone' <=> d \in undone
  BY DEF DispatchInv, DispatchTypes
<1>2. /\ \A d \in Dispatchers :
             /\ pick'[d].to = pick[d].to /\ pick'[d].order = pick[d].order
             /\ pick'[d].gone = (pick[d].gone \/ (pick[d].to = c /\ ~online))
      /\ pick' \in [Dispatchers -> [order : Jobs \cup {NoOne}, to : -1 .. Supplier, gone : BOOLEAN]]
  BY DEF GoneSince, DispatchInv, DispatchTypes
<1>3. DispatchTypes'
  BY <1>2 DEF DispatchInv, DispatchTypes, Profile
<1>4. OnlineWasWished'
  BY <1>1 DEF DispatchInv, OnlineWasWished, Online
<1>5. PicksFollowWishes'
  BY <1>1, <1>2 DEF DispatchInv, PicksFollowWishes
<1> QED
  BY <1>3, <1>4, <1>5 DEF DispatchInv

LEMMA AvailabilityKeeps ==
    ASSUME DispatchInv, NEW c \in Couriers, NEW online \in BOOLEAN, Availability(c, online)
    PROVE  DispatchInv'
<1>1. profile[c] \in Profile
  BY DEF DispatchInv, DispatchTypes
<1>2. [profile[c] EXCEPT !.online = online] = [online |-> online, vehicle |-> profile[c].vehicle]
  BY <1>1 DEF Profile
<1>3. profile' = [profile EXCEPT ![c] = [online |-> online, vehicle |-> profile[c].vehicle]]
  BY <1>2 DEF Availability
<1> QED
  BY <1>1, <1>3, WishFollowed DEF Availability, DispatchInv, DispatchTypes, Profile

LEMMA MeLoadKeeps ==
    ASSUME DispatchInv, NEW c \in Couriers, MeLoad(c)
    PROVE  DispatchInv'
BY DEF MeLoad, DispatchInv, DispatchTypes, OnlineWasWished, PicksFollowWishes, Online

LEMMA PickKeeps ==
    ASSUME DispatchInv, NEW d \in Dispatchers, NEW o \in Jobs, NEW v, Pick(d, o, v)
    PROVE  DispatchInv'
<1> DEFINE to == Picked(o, v)
<1>1. to \in -1 .. Supplier /\ (to \in Couriers => wish[to] \/ to \in undone)
  BY PickedTyped, PickedIsOnline DEF DispatchInv, OnlineWasWished
<1>2. /\ UNCHANGED profile /\ UNCHANGED loaded /\ UNCHANGED wish /\ UNCHANGED undone
      /\ pick' = [pick EXCEPT ![d] = [order |-> o, to |-> to, gone |-> FALSE]]
  BY DEF Pick
<1> HIDE DEF to
<1>3. DispatchTypes'
  BY <1>1, <1>2 DEF DispatchInv, DispatchTypes
<1>4. OnlineWasWished' /\ PicksFollowWishes'
  BY <1>1, <1>2 DEF DispatchInv, DispatchTypes, OnlineWasWished, PicksFollowWishes, Online
<1> QED
  BY <1>3, <1>4 DEF DispatchInv

LEMMA CreateDeliveryKeeps ==
    ASSUME DispatchInv, NEW d \in Dispatchers, CreateDelivery(d)
    PROVE  DispatchInv'
<1>1. NoPick \in [order : Jobs \cup {NoOne}, to : -1 .. Supplier, gone : BOOLEAN]
      /\ NoPick.to \notin Couriers
  BY DispatchAssumption DEF NoPick, NoOne, Supplier, Couriers
<1> QED
  BY <1>1 DEF CreateDelivery, DispatchInv, DispatchTypes, OnlineWasWished, PicksFollowWishes, Online

\* A PATCH without is_online may write back an older flag; then c is undone.
LEMMA MeSaveKeeps ==
    ASSUME DispatchInv, NEW c \in Couriers, MeSave(c)
    PROVE  DispatchInv'
<1>1. loaded[c] \in Profile /\ loaded' \in [Couriers -> Profile \cup {NoProfileEdit}]
  BY DEF MeSave, DispatchInv, DispatchTypes
<1>2. CASE \E v \in VehicleKinds :
             /\ profile' = [profile EXCEPT ![c] = [loaded[c] EXCEPT !.vehicle = v]]
             /\ undone' = IF loaded[c].online # profile[c].online THEN undone \cup {c} ELSE undone
             /\ UNCHANGED <<wish, pick>>
  <2>1. PICK v \in VehicleKinds :
            profile' = [profile EXCEPT ![c] = [loaded[c] EXCEPT !.vehicle = v]]
    BY <1>2
  <2>2. [loaded[c] EXCEPT !.vehicle = v] \in Profile
        /\ [loaded[c] EXCEPT !.vehicle = v].online = loaded[c].online
    BY <1>1 DEF Profile
  <2>3. /\ profile' \in [Couriers -> Profile] /\ profile'[c].online = loaded[c].online
        /\ \A d \in Couriers \ {c} : profile'[d] = profile[d]
    BY <2>1, <2>2 DEF DispatchInv, DispatchTypes
  <2>4. DispatchTypes'
    BY <1>1, <1>2, <2>3 DEF DispatchInv, DispatchTypes
  <2>5. OnlineWasWished'
    BY <1>2, <2>3 DEF DispatchInv, OnlineWasWished, Online
  <2>6. PicksFollowWishes'
    BY <1>2 DEF DispatchInv, PicksFollowWishes
  <2> QED
    BY <2>4, <2>5, <2>6 DEF DispatchInv
<1>3. CASE \E online \in BOOLEAN :
             /\ profile' = [profile EXCEPT ![c] = [loaded[c] EXCEPT !.online = online]]
             /\ wish' = [wish EXCEPT ![c] = online]
             /\ undone' = undone \ {c}
             /\ pick' = GoneSince(c, online)
  <2>1. PICK online \in BOOLEAN :
             /\ profile' = [profile EXCEPT ![c] = [loaded[c] EXCEPT !.online = online]]
             /\ wish' = [wish EXCEPT ![c] = online]
             /\ undone' = undone \ {c}
             /\ pick' = GoneSince(c, online)
    BY <1>3
  <2>2. [loaded[c] EXCEPT !.online = online] = [online |-> online, vehicle |-> loaded[c].vehicle]
    BY <1>1 DEF Profile
  <2>3. profile' = [profile EXCEPT ![c] = [online |-> online, vehicle |-> loaded[c].vehicle]]
    BY <2>1, <2>2
  <2>4. loaded[c].vehicle \in VehicleKinds
    BY <1>1 DEF Profile
  <2> QED
    BY <1>1, <2>1, <2>3, <2>4, WishFollowed
<1> QED
  BY <1>2, <1>3 DEF MeSave

\* Any number of couriers, dispatches and profile edits under way: nobody is
\* given a job who had not asked for one, but for a wish undone or a courier
\* gone while the dispatch was at it.
THEOREM JobsFollowWishes == DSpec => NewJobsFollowWishes
<1> DEFINE Followed == \A d \in Dispatchers : pick[d] # NoPick /\ pick'[d] = NoPick =>
               \A c \in Couriers : pick[d].to = c => wish[c] \/ pick[d].gone \/ c \in undone
<1>1. DispatchInv /\ [DNext]_dvars => DispatchInv'
  <2> SUFFICES ASSUME DispatchInv, [DNext]_dvars PROVE DispatchInv'
    OBVIOUS
  <2>1. CASE UNCHANGED dvars \/ \E o \in Jobs : EndDelivery(o)
    BY <2>1 DEF dvars, EndDelivery, DispatchInv, DispatchTypes, OnlineWasWished, PicksFollowWishes, Online
  <2> QED
    BY <2>1, AvailabilityKeeps, MeLoadKeeps, MeSaveKeeps, PickKeeps, CreateDeliveryKeeps DEF DNext
<1>2. DispatchInv /\ [DNext]_dvars => [Followed]_dvars
  BY DEF DispatchInv, PicksFollowWishes
<1> QED
  BY <1>1, <1>2, DispatchInitInv, PTL DEF DSpec, NewJobsFollowWishes

---------------------------------------------------------------------------
(* Markets *)

Owner == [kind : {"nobody", "synthetic", "partner"}, key : Slugs \cup Sellers \cup {0}]

MarketRow == [at : {"absent", "here", "gone"}, slug : Slugs \cup {0}, owner : Owner,
              active : BOOLEAN]

Post == [at : {"idle", "cut off", "created", "owned", "patch"}, market : MarketIds \cup {0},
         copy : MarketRow]

MarketTypes ==
    /\ market \in [MarketIds -> MarketRow]
    /\ post \in [Posts -> Post]
    /\ first \in [Sellers -> Slugs \cup {NoSlug}]

LEMMA Owners ==
    /\ Nobody \in Owner /\ NoMarket \in MarketRow /\ NoPost \in Post /\ CutOff \in Post
    /\ NoPost.at = "idle" /\ CutOff.at = "cut off"
    /\ \A s \in Slugs \cup {0} : Synthetic(s) \in Owner /\ Synthetic(s) # Nobody
    /\ \A p \in Sellers : Partner(p) \in Owner /\ Partner(p) # Nobody
<1>1. /\ Nobody \in Owner
      /\ \A s \in Slugs \cup {0} : Synthetic(s) \in Owner /\ Synthetic(s) # Nobody
      /\ \A p \in Sellers : Partner(p) \in Owner /\ Partner(p) # Nobody
  BY DEF Owner, Nobody, Synthetic, Partner
<1>2. NoMarket \in MarketRow
  BY <1>1 DEF NoMarket, MarketRow
<1>3. NoPost \in Post /\ NoPost.at = "idle"
  BY <1>2 DEF NoPost, Post
<1>4. CutOff \in Post /\ CutOff.at = "cut off"
  BY <1>3 DEF CutOff, Post
<1> QED
  BY <1>1, <1>2, <1>3, <1>4

\* What a step may do to the row of m and to the requests creating it: the two
\* facts from which Orphan(m) follows.
OwnerKept(m) == /\ Open(m)' => Open(m)
                /\ market'[m].owner = Nobody => market[m].owner = Nobody

CreationKept(m) == BeingCreated(m) => BeingCreated(m)'

LEMMA KeptMeansKept ==
    ASSUME NEW m, OwnerKept(m), CreationKept(m), Orphan(m)'
    PROVE  Orphan(m)
BY DEF OwnerKept, CreationKept, Orphan

\* A row that is written, and the ones that are not.
LEMMA PutEffect ==
    ASSUME MarketTypes, NEW m \in MarketIds, NEW row \in MarketRow, Put(m, row)
    PROVE  /\ market' \in [MarketIds -> MarketRow] /\ market'[m] = row
           /\ \A n \in MarketIds \ {m} : market'[n] = market[n]
BY DEF MarketTypes, Put

\* Inserting a row.
LEMMA InsertEffect ==
    ASSUME MarketTypes, NEW m \in MarketIds, NEW s \in Slugs \cup {0}, NEW u \in Owner, Insert(m, s, u)
    PROVE  /\ market' \in [MarketIds -> MarketRow] /\ market'[m].owner = u
           /\ \A n \in MarketIds \ {m} : market'[n] = market[n]
<1> DEFINE row == [at |-> "here", slug |-> s, owner |-> u, active |-> TRUE]
<1>1. row \in MarketRow
  BY DEF MarketRow
<1> QED
  BY <1>1, PutEffect DEF Insert

Mishap(m) ==
    \/ \E s \in Slugs : AdminAdds(m, s)
    \/ \E a \in Posts :
           /\ post[a].market = m
           /\ \/ Dies(a)
              \/ LinkOwner(a) /\ \E n \in MarketIds \ {m} :
                     Open(n) /\ market[n].owner = Linked(a)
              \/ \E active \in BOOLEAN : PatchSaves(a, active) /\ post[a].copy.owner = Nobody
    \/ \E p \in Sellers : OwnerLeaves(p) /\ market[m].owner = Partner(p)

Explained == \A m \in MarketIds : Orphan(m)' => Orphan(m) \/ Mishap(m)

\* A request that is in another state than before, and creates no other market.
LEMMA PostEffect ==
    ASSUME MarketTypes, NEW a \in Posts, NEW r \in Post, post' = [post EXCEPT ![a] = r]
    PROVE  /\ post' \in [Posts -> Post] /\ post'[a] = r
           /\ \A m \in MarketIds :
                  \/ CreationKept(m)
                  \/ post[a].at \in {"created", "owned"} /\ post[a].market = m
BY DEF MarketTypes, CreationKept, BeingCreated

\* A POST that makes its market, and then finds or makes the account for it:
\* the market is being created.
LEMMA CreationExplained ==
    ASSUME MarketTypes, NEW a \in Posts,
           CreateOwner(a) \/ \E m \in MarketIds : CreateMarket(a, m) \/ PatchReads(a, m)
    PROVE  MarketTypes' /\ Explained
<1>1. CASE CreateOwner(a)
  <2>1. /\ post' = [post EXCEPT ![a].at = "owned"] /\ post[a].at = "created"
        /\ UNCHANGED market /\ UNCHANGED first
    BY <1>1 DEF CreateOwner
  <2>2. /\ post' \in [Posts -> Post] /\ post'[a].at = "owned"
        /\ post'[a].market = post[a].market
        /\ \A b \in Posts \ {a} : post'[b] = post[b]
    <3>1. post[a] \in Post
      BY DEF MarketTypes
    <3>2. /\ [post[a] EXCEPT !.at = "owned"] \in Post
          /\ [post[a] EXCEPT !.at = "owned"].at = "owned"
          /\ [post[a] EXCEPT !.at = "owned"].market = post[a].market
      BY <3>1 DEF Post
    <3> QED
      BY <2>1, <3>2 DEF MarketTypes
  <2>3. \A m \in MarketIds : CreationKept(m) /\ OwnerKept(m)
    BY <2>1, <2>2 DEF CreationKept, BeingCreated, OwnerKept, Open
  <2> QED
    BY <2>1, <2>2, <2>3, KeptMeansKept DEF MarketTypes, Explained
<1>2. ASSUME NEW m \in MarketIds, PatchReads(a, m) PROVE MarketTypes' /\ Explained
  <2> DEFINE r == [NoPost EXCEPT !.at = "patch", !.market = m, !.copy = market[m]]
  <2>1. r \in Post
    <3>1. market[m] \in MarketRow
      BY DEF MarketTypes
    <3> QED
      BY <3>1 DEF NoPost, Post
  <2> HIDE DEF r
  <2>2. /\ post' = [post EXCEPT ![a] = r] /\ post[a] \in {NoPost, CutOff}
        /\ UNCHANGED market /\ UNCHANGED first
    BY <1>2 DEF PatchReads, Ready, r
  <2>3. post' \in [Posts -> Post] /\ \A n \in MarketIds : CreationKept(n) /\ OwnerKept(n)
    BY <2>1, <2>2, PostEffect, Owners DEF OwnerKept, Open
  <2> QED
    BY <2>2, <2>3, KeptMeansKept DEF MarketTypes, Explained
<1>3. ASSUME NEW m \in MarketIds, CreateMarket(a, m) PROVE MarketTypes' /\ Explained
  <2> DEFINE r == [NoPost EXCEPT !.at = "created", !.market = m]
  <2>1. r \in Post /\ r.at = "created" /\ r.market = m
    BY Owners DEF NoPost, Post
  <2> HIDE DEF r
  <2>2. /\ post' = [post EXCEPT ![a] = r] /\ post[a] \in {NoPost, CutOff}
        /\ Insert(m, 0, Nobody) /\ UNCHANGED first
    BY <1>3 DEF CreateMarket, Ready, r
  <2>3. /\ market' \in [MarketIds -> MarketRow]
        /\ \A n \in MarketIds \ {m} : market'[n] = market[n]
    BY <2>2, InsertEffect, Owners
  <2>4. post' \in [Posts -> Post] /\ post'[a] = r /\ \A n \in MarketIds : CreationKept(n)
    BY <2>1, <2>2, PostEffect, Owners
  <2>5. ~Orphan(m)'
    BY <2>1, <2>4 DEF Orphan, BeingCreated
  <2>6. \A n \in MarketIds \ {m} : OwnerKept(n)
    BY <2>3 DEF OwnerKept, Open
  <2> QED
    BY <2>2, <2>3, <2>4, <2>5, <2>6, KeptMeansKept DEF MarketTypes, Explained
<1> QED
  BY <1>1, <1>2, <1>3

\* The last steps of a POST or PATCH, and its death.
LEMMA EndExplained ==
    ASSUME MarketTypes, NEW a \in Posts,
           LinkOwner(a) \/ Dies(a) \/ \E active \in BOOLEAN : PatchSaves(a, active)
    PROVE  MarketTypes' /\ Explained
<1> DEFINE m == post[a].market
<1>1. PICK r \in {NoPost, CutOff} : post' = [post EXCEPT ![a] = r]
  BY DEF LinkOwner, Dies, PatchSaves, Done
<1>2. /\ post' \in [Posts -> Post]
      /\ \A n \in MarketIds : CreationKept(n) \/ (post[a].at \in {"created", "owned"} /\ m = n)
  BY <1>1, PostEffect, Owners
<1>3. CASE Dies(a)
  <2>1. UNCHANGED market /\ UNCHANGED first /\ \A n \in MarketIds : OwnerKept(n)
    BY <1>3 DEF Dies, OwnerKept, Open
  <2> QED
    BY <1>2, <1>3, <2>1, KeptMeansKept DEF MarketTypes, Explained, Mishap
<1>4. CASE LinkOwner(a)
  <2>1. UNCHANGED first /\ Linked(a) \in Owner /\ Linked(a) # Nobody
    BY <1>4, Owners DEF LinkOwner, Linked
  <2>2. CASE /\ Open(m) /\ OwnerFree(Linked(a), m)
             /\ Put(m, [market[m] EXCEPT !.owner = Linked(a)])
    <3>1. /\ market' \in [MarketIds -> MarketRow]
          /\ m \in MarketIds => market'[m].owner = Linked(a)
          /\ \A n \in MarketIds \ {m} : market'[n] = market[n]
      <4>1. CASE m \in MarketIds
        <5>1. market[m] \in MarketRow
          BY <4>1 DEF MarketTypes
        <5>2. /\ [market[m] EXCEPT !.owner = Linked(a)] \in MarketRow
              /\ [market[m] EXCEPT !.owner = Linked(a)].owner = Linked(a)
          BY <2>1, <5>1 DEF MarketRow
        <5> QED
          BY <2>2, <4>1, <5>2, PutEffect
      <4>2. CASE m \notin MarketIds
        BY <2>2, <4>2 DEF Put, MarketTypes
      <4> QED
        BY <4>1, <4>2
    <3>2. ASSUME NEW n \in MarketIds, Orphan(n)' PROVE Orphan(n)
      <4>1. n # m
        BY <2>1, <3>1, <3>2 DEF Orphan
      <4> QED
        BY <1>2, <3>1, <3>2, <4>1, KeptMeansKept DEF OwnerKept, Open
    <3> QED
      BY <1>2, <2>1, <3>1, <3>2 DEF MarketTypes, Explained
  <2>3. CASE ~(Open(m) /\ OwnerFree(Linked(a), m)) /\ UNCHANGED market
    <3>1. ASSUME NEW n \in MarketIds, Orphan(n)', n = m PROVE Mishap(n)
      <4>1. ~OwnerFree(Linked(a), m)
        BY <2>3, <3>1 DEF Orphan, Open
      <4>2. \E k \in MarketIds \ {n} : Open(k) /\ market[k].owner = Linked(a)
        BY <3>1, <4>1 DEF OwnerFree
      <4> QED
        BY <1>4, <3>1, <4>2 DEF Mishap
    <3>2. \A n \in MarketIds : OwnerKept(n)
      BY <2>3 DEF OwnerKept, Open
    <3> QED
      BY <1>2, <2>1, <2>3, <3>1, <3>2, KeptMeansKept DEF MarketTypes, Explained
  <2> QED
    BY <1>4, <2>2, <2>3 DEF LinkOwner
<1>5. ASSUME NEW active \in BOOLEAN, PatchSaves(a, active) PROVE MarketTypes' /\ Explained
  <2> DEFINE copy == post[a].copy
  <2>1. /\ post[a].at = "patch" /\ UNCHANGED first
        /\ \/ \E yes \in {copy.active, active} : Put(m, [copy EXCEPT !.active = yes])
           \/ UNCHANGED market
    BY <1>5 DEF PatchSaves
  <2>2. copy \in MarketRow
    BY DEF MarketTypes, Post
  <2> DEFINE Copied(n) == n = m /\ market'[n].owner = copy.owner
  <2>3. /\ market' \in [MarketIds -> MarketRow]
        /\ \A n \in MarketIds : market'[n] = market[n] \/ Copied(n)
    <3>1. ASSUME NEW yes \in {copy.active, active}, Put(m, [copy EXCEPT !.active = yes])
          PROVE  /\ market' \in [MarketIds -> MarketRow]
                 /\ \A n \in MarketIds : market'[n] = market[n] \/ Copied(n)
      <4>1. [copy EXCEPT !.active = yes] \in MarketRow /\ [copy EXCEPT !.active = yes].owner = copy.owner
        BY <2>2 DEF MarketRow
      <4>2. CASE m \in MarketIds
        BY <3>1, <4>1, <4>2, PutEffect
      <4>3. CASE m \notin MarketIds
        BY <3>1, <4>3 DEF Put, MarketTypes
      <4> QED
        BY <4>2, <4>3
    <3> QED
      BY <2>1, <3>1 DEF MarketTypes
  <2>4. ASSUME NEW n \in MarketIds, Orphan(n)' PROVE Orphan(n) \/ Mishap(n)
    <3>1. CASE market'[n] = market[n]
      BY <1>2, <2>1, <2>4, <3>1, KeptMeansKept DEF OwnerKept, Open
    <3>2. CASE n = m /\ market'[n].owner = copy.owner
      BY <1>5, <2>4, <3>2 DEF Orphan, Mishap
    <3> QED
      BY <2>3, <3>1, <3>2
  <2> QED
    BY <1>2, <2>1, <2>3, <2>4 DEF MarketTypes, Explained
<1> QED
  BY <1>3, <1>4, <1>5

\* Changing another column of a row, or deleting it.
LEMMA RowExplained ==
    ASSUME MarketTypes, NEW m \in MarketIds,
           Archive(m) \/ AdminDeletes(m) \/ \E s \in Slugs : AdminChangesSlug(m, s)
    PROVE  MarketTypes' /\ Explained
<1>1. market[m] \in MarketRow /\ UNCHANGED post /\ UNCHANGED first
  BY DEF MarketTypes, Archive, AdminDeletes, AdminChangesSlug
<1>2. PICK row \in MarketRow :
          /\ Put(m, row)
          /\ row.at = "gone" \/ (Open(m) /\ row.owner = market[m].owner)
  <2>1. CASE Archive(m)
    <3>1. [market[m] EXCEPT !.active = FALSE] \in MarketRow
      BY <1>1 DEF MarketRow
    <3>2. [market[m] EXCEPT !.active = FALSE].owner = market[m].owner
      BY <1>1 DEF MarketRow
    <3> QED
      BY <2>1, <3>1, <3>2 DEF Archive
  <2>2. CASE AdminDeletes(m)
    <3>1. [market[m] EXCEPT !.at = "gone", !.owner = Nobody] \in MarketRow
      BY <1>1, Owners DEF MarketRow
    <3>2. [market[m] EXCEPT !.at = "gone", !.owner = Nobody].at = "gone"
      BY <1>1 DEF MarketRow
    <3> QED
      BY <2>2, <3>1, <3>2 DEF AdminDeletes
  <2>3. ASSUME NEW s \in Slugs, AdminChangesSlug(m, s)
        PROVE  \E row \in MarketRow :
                   /\ Put(m, row)
                   /\ row.at = "gone" \/ (Open(m) /\ row.owner = market[m].owner)
    <3>1. [market[m] EXCEPT !.slug = s] \in MarketRow
      BY <1>1 DEF MarketRow
    <3>2. [market[m] EXCEPT !.slug = s].owner = market[m].owner
      BY <1>1 DEF MarketRow
    <3> QED
      BY <2>3, <3>1, <3>2 DEF AdminChangesSlug
  <2> QED
    BY <2>1, <2>2, <2>3
<1>3. /\ market' \in [MarketIds -> MarketRow] /\ market'[m] = row
      /\ \A n \in MarketIds \ {m} : market'[n] = market[n]
  BY <1>2, PutEffect
<1>4. \A n \in MarketIds : CreationKept(n) /\ (Orphan(n)' => OwnerKept(n))
  BY <1>1, <1>2, <1>3 DEF CreationKept, BeingCreated, OwnerKept, Orphan, Open
<1> QED
  BY <1>1, <1>3, <1>4, KeptMeansKept DEF MarketTypes, Explained

\* A row that Django admin adds has no owner.
LEMMA AdminAddsExplained ==
    ASSUME MarketTypes, NEW m \in MarketIds, NEW s \in Slugs, AdminAdds(m, s)
    PROVE  MarketTypes' /\ Explained
<1>1. UNCHANGED post /\ UNCHANGED first /\ Insert(m, s, Nobody)
  BY DEF AdminAdds
<1>2. /\ market' \in [MarketIds -> MarketRow]
      /\ \A n \in MarketIds \ {m} : market'[n] = market[n]
  BY <1>1, InsertEffect, Owners
<1>3. \A n \in MarketIds \ {m} : CreationKept(n) /\ OwnerKept(n)
  BY <1>1, <1>2 DEF CreationKept, BeingCreated, OwnerKept, Open
<1> QED
  BY <1>1, <1>2, <1>3, KeptMeansKept DEF MarketTypes, Explained, Mishap

\* A partner's first GET makes a market of his own; his account leaving undoes
\* his markets only.
LEMMA PartnerExplained ==
    ASSUME MarketTypes, NEW p \in Sellers, FirstGet(p) \/ FirstCreate(p) \/ OwnerLeaves(p)
    PROVE  MarketTypes' /\ Explained
<1>1. UNCHANGED post /\ \A n \in MarketIds : CreationKept(n)
  BY DEF FirstGet, FirstCreate, OwnerLeaves, CreationKept, BeingCreated
<1>2. CASE FirstGet(p)
  <2>1. UNCHANGED market /\ first' \in [Sellers -> Slugs \cup {NoSlug}]
    BY <1>2 DEF FirstGet, MarketTypes
  <2>2. \A n \in MarketIds : OwnerKept(n)
    BY <2>1 DEF OwnerKept, Open
  <2> QED
    BY <1>1, <2>1, <2>2, KeptMeansKept DEF MarketTypes, Explained
<1>3. CASE FirstCreate(p)
  <2>1. first' \in [Sellers -> Slugs \cup {NoSlug}] /\ first[p] \in Slugs
    BY <1>3 DEF FirstCreate, MarketTypes
  <2>2. \/ UNCHANGED market
        \/ \E m \in MarketIds : Insert(m, first[p], Partner(p))
    BY <1>3 DEF FirstCreate
  <2>3. CASE UNCHANGED market
    <3>1. \A n \in MarketIds : OwnerKept(n)
      BY <2>3 DEF OwnerKept, Open
    <3> QED
      BY <1>1, <2>1, <2>3, <3>1, KeptMeansKept DEF MarketTypes, Explained
  <2>4. ASSUME NEW m \in MarketIds, Insert(m, first[p], Partner(p))
        PROVE  MarketTypes' /\ Explained
    <3>1. /\ market' \in [MarketIds -> MarketRow] /\ market'[m].owner = Partner(p)
          /\ \A n \in MarketIds \ {m} : market'[n] = market[n]
      BY <2>1, <2>4, InsertEffect, Owners
    <3>2. ~Orphan(m)' /\ \A n \in MarketIds \ {m} : OwnerKept(n)
      BY <3>1, Owners DEF Orphan, OwnerKept, Open
    <3> QED
      BY <1>1, <2>1, <3>1, <3>2, KeptMeansKept DEF MarketTypes, Explained
  <2> QED
    BY <2>2, <2>3, <2>4
<1>4. CASE OwnerLeaves(p)
  <2>1. /\ UNCHANGED first
        /\ market' = [m \in MarketIds |->
               IF market[m].owner = Partner(p) THEN [market[m] EXCEPT !.owner = Nobody]
               ELSE market[m]]
    BY <1>4 DEF OwnerLeaves
  <2>2. market' \in [MarketIds -> MarketRow]
    <3>1. \A m \in MarketIds : /\ market[m] \in MarketRow
                               /\ [market[m] EXCEPT !.owner = Nobody] \in MarketRow
      BY Owners DEF MarketTypes, MarketRow
    <3> QED
      BY <2>1, <3>1
  <2>3. \A n \in MarketIds : OwnerKept(n) \/ market[n].owner = Partner(p)
    BY <2>1 DEF OwnerKept, Open
  <2> QED
    BY <1>1, <1>4, <2>1, <2>2, <2>3, KeptMeansKept DEF MarketTypes, Explained, Mishap
<1> QED
  BY <1>2, <1>3, <1>4

\* For any number of markets, requests and partners, a market loses its
\* supplier, or never gets one, only by one of the mishaps named.
THEOREM MarketsKeepTheirSupplier == MaSpec => OnlyMishapsOrphan
<1>1. MaInit => MarketTypes
  BY Owners DEF MaInit, MarketTypes
<1>2. MarketTypes /\ [MaNext]_mvars => MarketTypes' /\ [Explained]_mvars
  <2> SUFFICES ASSUME MarketTypes, [MaNext]_mvars PROVE MarketTypes' /\ [Explained]_mvars
    OBVIOUS
  <2>1. CASE UNCHANGED mvars
    BY <2>1 DEF mvars, MarketTypes
  <2>2. CASE MaNext
    BY <2>2, CreationExplained, EndExplained, RowExplained, AdminAddsExplained,
       PartnerExplained DEF MaNext
  <2> QED
    BY <2>1, <2>2
<1>3. [Explained]_mvars => [\A m \in MarketIds : Orphan(m)' /\ ~Orphan(m) => Mishap(m)]_mvars
  BY DEF Explained
<1> QED
  BY <1>1, <1>2, <1>3, PTL DEF MaSpec, OnlyMishapsOrphan, Mishap
=============================================================================
