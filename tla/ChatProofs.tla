----------------------------- MODULE ChatProofs -----------------------------
(***************************************************************************)
(* Proofs about Chat.  What a handler does depends on what it learned some *)
(* awaits ago, so IInv says what stays true of that: ids about to be       *)
(* announced as read are read, and a row that does not exist is blank.     *)
(***************************************************************************)
EXTENDS Chat, FiniteSetTheorems, SequenceTheorems, TLAPS

BlankUntilSent == \A m \in Messages : ~Exists(m) => message[m] = NoMessage

\* What a consumer holds on to between two awaits.
HandlersAreTrue ==
    \A s \in Sockets :
        /\ At(s, "marking") => \A m \in socket[s].ids :
               Exists(m) /\ message[m].sender # UserOf[s]
        /\ At(s, "marked") => \A m \in socket[s].ids : message[m].read_by_recipient
        /\ At(s, "persisted") => \A m \in socket[s].ids : Exists(m)
        /\ At(s, "broadcast") => \A m \in socket[s].ids : Exists(m) /\ message[m].told

IInv ==
    /\ CTypeOK
    /\ BlankUntilSent
    /\ HandlersAreTrue
    /\ TicksAreTrue
    /\ NoGapAfterHistory

---------------------------------------------------------------------------
(* Mailboxes *)

Holds(q, type, m) == \E i \in DOMAIN q : q[i].type = type /\ m \in q[i].ids

\* An empty mailbox holds nothing.
LEMMA HoldsEmpty == \A type, m : ~Holds(<<>>, type, m)
  BY DEF Holds

\* Appending an event adds what it carries and nothing else.
LEMMA HoldsAppend ==
    ASSUME NEW q \in Seq(Event), NEW e \in Event, NEW type, NEW m
    PROVE  Holds(Append(q, e), type, m) <=> Holds(q, type, m) \/ (e.type = type /\ m \in e.ids)
<1> DEFINE r == Append(q, e)
<1>1. /\ r \in Seq(Event)
      /\ Len(r) = Len(q) + 1
      /\ \A i \in 1 .. Len(q) : r[i] = q[i]
      /\ r[Len(q) + 1] = e
  BY AppendProperties
<1>2. DOMAIN r = 1 .. Len(q) + 1 /\ DOMAIN q = 1 .. Len(q) /\ Len(q) \in Nat
  BY <1>1
<1> HIDE DEF r
<1> QED
  BY <1>1, <1>2 DEF Holds, r

\* Taking the first event out takes away what it carries.
LEMMA HoldsHeadTail ==
    ASSUME NEW q \in Seq(Event), q # <<>>, NEW type, NEW m
    PROVE  Holds(q, type, m) <=>
               Holds(Tail(q), type, m) \/ (Head(q).type = type /\ m \in Head(q).ids)
<1> DEFINE t == Tail(q)
<1>1. /\ t \in Seq(Event)
      /\ Len(t) = Len(q) - 1
      /\ \A i \in 1 .. Len(t) : t[i] = q[i + 1]
      /\ Len(q) \in Nat /\ Len(q) > 0
      /\ Head(q) = q[1]
  BY HeadTailProperties, EmptySeq
<1>2. DOMAIN t = 1 .. Len(q) - 1 /\ DOMAIN q = 1 .. Len(q)
  BY <1>1
<1> HIDE DEF t
<1>3. ASSUME Holds(q, type, m)
      PROVE  Holds(t, type, m) \/ (Head(q).type = type /\ m \in Head(q).ids)
  <2>1. PICK i \in DOMAIN q : q[i].type = type /\ m \in q[i].ids
    BY <1>3 DEF Holds
  <2>2. CASE i = 1
    BY <2>1, <2>2, <1>1
  <2>3. CASE i # 1
    <3>1. i - 1 \in DOMAIN t /\ t[i - 1] = q[i]
      BY <2>1, <2>3, <1>1, <1>2
    <3> QED
      BY <3>1, <2>1 DEF Holds
  <2> QED
    BY <2>2, <2>3
<1>4. ASSUME Holds(t, type, m) PROVE Holds(q, type, m)
  <2>1. PICK i \in DOMAIN t : t[i].type = type /\ m \in t[i].ids
    BY <1>4 DEF Holds
  <2>2. i + 1 \in DOMAIN q /\ q[i + 1] = t[i]
    BY <2>1, <1>1, <1>2
  <2> QED
    BY <2>1, <2>2 DEF Holds
<1>5. ASSUME Head(q).type = type, m \in Head(q).ids PROVE Holds(q, type, m)
  BY <1>5, <1>1, <1>2 DEF Holds
<1> QED
  BY <1>3, <1>4, <1>5 DEF t

\* Everyone in the group, and nobody else, is sent the event.
LEMMA GroupSendEffect ==
    ASSUME CTypeOK, NEW type \in {"chat.message", "chat.read"}, NEW u \in Users,
           NEW ids \in SUBSET Messages, GroupSend(type, u, ids)
    PROVE  /\ mailbox' \in [Sockets -> Seq(Event)]
           /\ \A s \in Sockets : \A k, m :
                  Holds(mailbox'[s], k, m) <=>
                      \/ Holds(mailbox[s], k, m)
                      \/ s \in Group /\ k = type /\ m \in ids
<1> DEFINE e == [type |-> type, reader |-> u, ids |-> ids]
<1>1. e \in Event /\ e.type = type /\ e.ids = ids
  BY DEF Event
<1>2. mailbox' = [s \in Sockets |-> IF s \in Group THEN Append(mailbox[s], e) ELSE mailbox[s]]
  BY DEF GroupSend
<1> HIDE DEF e
<1>3. \A s \in Sockets : mailbox[s] \in Seq(Event)
  BY DEF CTypeOK
<1>4. \A s \in Sockets : Append(mailbox[s], e) \in Seq(Event)
  BY <1>1, <1>3, AppendProperties
<1>5. mailbox' \in [Sockets -> Seq(Event)]
  BY <1>2, <1>3, <1>4
<1>6. ASSUME NEW s \in Sockets, NEW k, NEW m
      PROVE  Holds(mailbox'[s], k, m) <=>
                 Holds(mailbox[s], k, m) \/ (s \in Group /\ k = type /\ m \in ids)
  <2>1. CASE s \in Group
    <3>1. mailbox'[s] = Append(mailbox[s], e)
      BY <1>2, <2>1
    <3> QED
      BY <3>1, <1>1, <1>3, <2>1, HoldsAppend
  <2>2. CASE s \notin Group
    <3>1. mailbox'[s] = mailbox[s]
      BY <1>2, <2>2
    <3> QED
      BY <3>1, <2>2
  <2> QED
    BY <2>1, <2>2
<1> QED
  BY <1>5, <1>6

---------------------------------------------------------------------------
(* Consumers and rows *)

\* One await takes one consumer to its next phase.
LEMMA GoEffect ==
    ASSUME CTypeOK, NEW s \in Sockets, NEW phase \in Phase, NEW ids \in SUBSET Messages,
           Go(s, phase, ids)
    PROVE  /\ socket' \in [Sockets -> Socket]
           /\ socket'[s].phase = phase /\ socket'[s].ids = ids
           /\ \A t \in Sockets : t # s => socket'[t] = socket[t]
  BY DEF CTypeOK, Go, Socket

\* Rows are never taken back: a message keeps its sender, and the two flags
\* only rise.
Grows ==
    \A m \in Messages :
        /\ Exists(m) => message'[m].sender = message[m].sender
        /\ message[m].read_by_recipient => message'[m].read_by_recipient
        /\ message[m].told => message'[m].told

\* Marking what is inbound marks just that.
LEMMA MarkReadEffect ==
    ASSUME CTypeOK, BlankUntilSent, NEW u \in Users, MarkRead(Inbound(u))
    PROVE  /\ message' \in [Messages -> Message]
           /\ Grows /\ BlankUntilSent'
           /\ \A m \in Messages : message'[m].told = message[m].told
           /\ \A m \in Messages : Exists(m)' <=> Exists(m)
           /\ \A m \in Messages : Exists(m) /\ message[m].sender # u
                  => message'[m].read_by_recipient
<1>1. ASSUME NEW m \in Messages
      PROVE  /\ message'[m] \in Message
             /\ message'[m].sender = message[m].sender
             /\ message'[m].told = message[m].told
             /\ message[m].read_by_recipient => message'[m].read_by_recipient
             /\ ~Exists(m) => message'[m] = message[m]
             /\ Exists(m) /\ message[m].sender # u => message'[m].read_by_recipient
  BY DEF MarkRead, Inbound, CTypeOK, Message
<1>2. message' \in [Messages -> Message]
  BY <1>1 DEF MarkRead
<1>3. Grows
  BY <1>1 DEF Grows
<1>4. \A m \in Messages : Exists(m)' <=> Exists(m)
  BY <1>1 DEF Exists
<1>5. BlankUntilSent'
  BY <1>1, <1>4 DEF BlankUntilSent
<1> QED
  BY <1>1, <1>2, <1>3, <1>4, <1>5

\* A new row takes nothing away.
LEMMA CreateEffect ==
    ASSUME CTypeOK, BlankUntilSent, NEW u \in Users, NEW m \in Messages, ~Exists(m), Create(m, u)
    PROVE  /\ message' \in [Messages -> Message]
           /\ Grows /\ BlankUntilSent' /\ Exists(m)'
           /\ \A n \in Messages : message'[n].told = message[n].told
<1>1. /\ message'[m].sender = u /\ ~message'[m].told
      /\ message'[m] \in Message
      /\ \A n \in Messages : n # m => message'[n] = message[n]
      /\ message' \in [Messages -> Message]
  BY DEF Create, CTypeOK, Message, NoMessage
<1>2. ~message[m].told /\ ~message[m].read_by_recipient
  BY DEF BlankUntilSent, NoMessage
<1>3. u # "none" /\ Exists(m)'
  BY <1>1, UsersAssumption DEF Exists
<1>4. \A n \in Messages : message'[n].told = message[n].told
  BY <1>1, <1>2 DEF CTypeOK, Message
<1> QED
  BY <1>1, <1>2, <1>3, <1>4 DEF Grows, BlankUntilSent, Exists

\* Telling the group of a message is recorded on its row alone.
LEMMA ToldEffect ==
    ASSUME CTypeOK, BlankUntilSent, NEW ids \in SUBSET Messages, \A m \in ids : Exists(m),
           message' = [m \in Messages |-> [message[m] EXCEPT !.told = @ \/ m \in ids]]
    PROVE  /\ message' \in [Messages -> Message]
           /\ Grows /\ BlankUntilSent'
           /\ \A m \in Messages : Exists(m)' <=> Exists(m)
           /\ \A m \in Messages : message'[m].told <=> message[m].told \/ m \in ids
<1>1. ASSUME NEW m \in Messages
      PROVE  /\ message'[m] \in Message
             /\ message'[m].sender = message[m].sender
             /\ message'[m].read_by_recipient = message[m].read_by_recipient
             /\ message'[m].told <=> message[m].told \/ m \in ids
             /\ ~Exists(m) => message'[m] = message[m]
  BY DEF CTypeOK, Message
<1>2. message' \in [Messages -> Message]
  BY <1>1
<1> QED
  BY <1>1, <1>2 DEF Grows, BlankUntilSent, Exists

\* What the history of a connection would not reach stays out of its reach.
LEMMA OutsideStays ==
    ASSUME Grows, BlankUntilSent', NEW m \in Messages, Outside(m)
    PROVE  Outside(m)'
<1> DEFINE Later == {n \in Messages : n > m /\ Exists(n)}
           LaterNow == {n \in Messages : n > m /\ Exists(n)'}
<1>1. IsFiniteSet(Messages)
  BY FS_Interval, BoundsAssumption DEF Messages
<1>2. Later \subseteq LaterNow /\ LaterNow \subseteq Messages
  BY DEF Grows, Exists
<1>3. IsFiniteSet(LaterNow) /\ IsFiniteSet(Later)
  BY <1>1, <1>2, FS_Subset
<1>4. Cardinality(Later) <= Cardinality(LaterNow)
  BY <1>2, <1>3, FS_Subset
<1>5. Cardinality(Later) \in Nat /\ Cardinality(LaterNow) \in Nat /\ HISTORY \in Nat
  BY <1>3, FS_CardinalityType, BoundsAssumption
<1>6. Cardinality(Later) >= HISTORY
  BY DEF Outside
<1> QED
  BY <1>4, <1>5, <1>6 DEF Outside

\* What the history does not show is older than it reaches back.
LEMMA HistoryOrOutside ==
    ASSUME NEW m \in Messages, Exists(m)
    PROVE  m \in RecentHistory \/ Outside(m)
<1> DEFINE Later == {n \in Messages : n > m /\ Exists(n)}
<1>1. IsFiniteSet(Messages)
  BY FS_Interval, BoundsAssumption DEF Messages
<1>2. Cardinality(Later) \in Nat /\ HISTORY \in Nat
  BY <1>1, FS_Subset, FS_CardinalityType, BoundsAssumption
<1>3. Cardinality(Later) < HISTORY \/ Cardinality(Later) >= HISTORY
  BY <1>2
<1> QED
  BY <1>3 DEF RecentHistory, Outside

---------------------------------------------------------------------------
(* What keeps each conjunct *)

\* The other consumers' knowledge survives a step, because rows only grow.
LEMMA HandlersStay ==
    ASSUME IInv, Grows, NEW s \in Sockets,
           \A t \in Sockets : t # s => socket'[t] = socket[t],
           socket'[s].phase = "marking" => \A m \in socket'[s].ids :
               m \in Messages /\ Exists(m) /\ message[m].sender # UserOf[s],
           socket'[s].phase = "marked" => \A m \in socket'[s].ids : message'[m].read_by_recipient,
           socket'[s].phase = "persisted" => \A m \in socket'[s].ids : Exists(m)',
           socket'[s].phase = "broadcast" => \A m \in socket'[s].ids :
               Exists(m)' /\ message'[m].told
    PROVE  HandlersAreTrue'
<1>1. \A m \in Messages : Exists(m) => Exists(m)' /\ message'[m].sender = message[m].sender
  BY DEF Grows, Exists
<1>2. \A t \in Sockets : socket[t].ids \subseteq Messages
  BY DEF IInv, CTypeOK, Socket
<1>3. ASSUME NEW t \in Sockets, t # s
      PROVE  /\ At(t, "marking")' => \A m \in socket'[t].ids :
                    Exists(m)' /\ message'[m].sender # UserOf[t]
             /\ At(t, "marked")' => \A m \in socket'[t].ids : message'[m].read_by_recipient
             /\ At(t, "persisted")' => \A m \in socket'[t].ids : Exists(m)'
             /\ At(t, "broadcast")' => \A m \in socket'[t].ids : Exists(m)' /\ message'[m].told
  BY <1>1, <1>2, <1>3 DEF IInv, HandlersAreTrue, At, Grows
<1> QED
  BY <1>1, <1>3 DEF HandlersAreTrue, At

\* Ticks stay true if whatever is newly ticked or announced is read.
LEMMA TicksStay ==
    ASSUME IInv, Grows,
           \A t \in Sockets, m \in Messages :
               m \in screen'[t].ticked \/ Holds(mailbox'[t], "chat.read", m) =>
                   \/ m \in screen[t].ticked \/ Holds(mailbox[t], "chat.read", m)
                   \/ message'[m].read_by_recipient
    PROVE  TicksAreTrue'
  BY DEF IInv, TicksAreTrue, InMailbox, Holds, Grows

\* No gap opens if each message told to a connection with its history was told
\* to it before and is not lost now, or is newly shown, waiting or too old.
LEMMA GapStays ==
    ASSUME IInv, Grows, BlankUntilSent',
           \A t \in Sockets, m \in Messages : message'[m].told /\ HasHistory(t)' =>
               \/ /\ message[m].told /\ HasHistory(t)
                  /\ m \in screen[t].shown \/ Holds(mailbox[t], "chat.message", m) =>
                         m \in screen'[t].shown \/ Holds(mailbox'[t], "chat.message", m)
               \/ m \in screen'[t].shown \/ Holds(mailbox'[t], "chat.message", m)
               \/ Outside(m)'
    PROVE  NoGapAfterHistory'
<1>1. \A m \in Messages : Outside(m) => Outside(m)'
  BY OutsideStays
<1> QED
  BY <1>1 DEF IInv, NoGapAfterHistory, InMailbox, Holds

---------------------------------------------------------------------------
(* The steps *)

\* Rows that do not change do grow.
LEMMA SameRows == UNCHANGED message => Grows /\ (BlankUntilSent <=> BlankUntilSent')
  BY DEF Grows, BlankUntilSent, Exists, NoMessage

\* A connection that opens has no history yet; one that ends has none either.
LEMMA OpenOrEndKeeps ==
    ASSUME IInv, NEW s \in Sockets, Connect(s) \/ Disconnect(s) \/ Crash(s)
    PROVE  IInv'
<1>1. PICK phase \in {"joined", "closed"} : Go(s, phase, {})
  BY DEF Connect, Disconnect, Crash
<1>2. /\ socket' \in [Sockets -> Socket]
      /\ socket'[s].phase = phase /\ socket'[s].ids = {}
      /\ \A t \in Sockets : t # s => socket'[t] = socket[t]
  BY <1>1, GoEffect DEF IInv, Phase
<1>3. /\ UNCHANGED <<message, notified>>
      /\ mailbox' = [mailbox EXCEPT ![s] = <<>>]
      /\ crashes' \in 0 .. MaxCrashes
  BY BoundsAssumption DEF Connect, Disconnect, Crash, IInv, CTypeOK
<1>4. /\ screen' \in [Sockets -> Screen]
      /\ \A t \in Sockets : t # s => screen'[t] = screen[t]
      /\ screen'[s].ticked \subseteq screen[s].ticked
  <2>1. screen \in [Sockets -> Screen]
    BY DEF IInv, CTypeOK
  <2>2. CASE Connect(s)
    <3>1. screen' = [screen EXCEPT ![s] = [shown |-> {}, ticked |-> {}]]
      BY <2>2 DEF Connect
    <3> QED
      BY <2>1, <3>1 DEF Screen
  <2>3. CASE Disconnect(s) \/ Crash(s)
    BY <2>1, <2>3 DEF Disconnect, Crash
  <2> QED
    BY <2>2, <2>3
<1>5. /\ mailbox' \in [Sockets -> Seq(Event)]
      /\ mailbox'[s] = <<>>
      /\ \A t \in Sockets : t # s => mailbox'[t] = mailbox[t]
  BY <1>3, EmptySeq DEF IInv, CTypeOK
<1>6. Grows /\ BlankUntilSent'
  BY <1>3, SameRows DEF IInv
<1>7. CTypeOK'
  BY <1>2, <1>3, <1>4, <1>5 DEF IInv, CTypeOK, Exists
<1>8. HandlersAreTrue'
  BY <1>2, <1>6, HandlersStay
<1>9. TicksAreTrue'
  BY <1>4, <1>5, <1>6, HoldsEmpty, TicksStay
<1>10. ~HasHistory(s)'
  BY <1>2 DEF HasHistory, Group, At
<1>11. \A t \in Sockets : t # s => (HasHistory(t)' <=> HasHistory(t))
  BY <1>2 DEF HasHistory, Group, At
<1>12. NoGapAfterHistory'
  BY <1>3, <1>4, <1>5, <1>6, <1>10, <1>11, GapStays
<1> QED
  BY <1>6, <1>7, <1>8, <1>9, <1>12 DEF IInv

\* The history shows what it reaches; live events have waited since joining.
LEMMA SendHistoryKeeps ==
    ASSUME IInv, NEW s \in Sockets, SendHistory(s)
    PROVE  IInv'
<1>1. /\ socket' \in [Sockets -> Socket]
      /\ socket'[s].phase = "reading" /\ socket'[s].ids = {}
      /\ \A t \in Sockets : t # s => socket'[t] = socket[t]
  BY GoEffect DEF SendHistory, IInv, Phase
<1>2. UNCHANGED <<message, mailbox, notified, crashes>>
  BY DEF SendHistory
<1>3. RecentHistory \subseteq Messages
  BY DEF RecentHistory
<1>4. /\ screen' \in [Sockets -> Screen]
      /\ \A t \in Sockets : t # s => screen'[t] = screen[t]
      /\ screen'[s].shown = RecentHistory
      /\ screen'[s].ticked = {m \in RecentHistory : message[m].read_by_recipient}
  BY <1>3 DEF SendHistory, IInv, CTypeOK, Screen
<1>5. Grows /\ BlankUntilSent'
  BY <1>2, SameRows DEF IInv
<1>6. CTypeOK'
  BY <1>1, <1>2, <1>4 DEF IInv, CTypeOK, Exists
<1>7. HandlersAreTrue'
  BY <1>1, <1>5, HandlersStay
<1>8. TicksAreTrue'
  BY <1>2, <1>4, <1>5, TicksStay
<1>9. \A m \in Messages : message[m].told => Exists(m)
  BY DEF IInv, BlankUntilSent, NoMessage
<1>10. \A m \in Messages : Outside(m) => Outside(m)'
  BY <1>5, OutsideStays
<1>11. \A m \in Messages : message'[m].told => m \in screen'[s].shown \/ Outside(m)'
  BY <1>2, <1>4, <1>9, <1>10, HistoryOrOutside
<1>12. \A t \in Sockets : t # s => (HasHistory(t)' <=> HasHistory(t))
  BY <1>1 DEF HasHistory, Group, At
<1>13. NoGapAfterHistory'
  BY <1>2, <1>4, <1>5, <1>11, <1>12, GapStays
<1> QED
  BY <1>5, <1>6, <1>7, <1>8, <1>13 DEF IInv

\* A step of a handler that has its history, sends nothing and shows nothing.
LEMMA QuietStepKeeps ==
    ASSUME IInv, NEW s \in Sockets, CTypeOK', BlankUntilSent', HandlersAreTrue', Grows,
           \A t \in Sockets : t # s => socket'[t] = socket[t],
           HasHistory(s),
           \A m \in Messages : message'[m].told = message[m].told,
           UNCHANGED <<mailbox, screen>>
    PROVE  IInv'
<1>1. TicksAreTrue'
  BY TicksStay
<1>2. \A t \in Sockets : HasHistory(t)' => HasHistory(t)
  BY DEF HasHistory, Group, At
<1>3. NoGapAfterHistory'
  BY <1>2, GapStays
<1> QED
  BY <1>1, <1>3 DEF IInv

\* The ids are inbound when they are read ...
LEMMA ReadInboundKeeps ==
    ASSUME IInv, NEW s \in Sockets, ReadInbound(s)
    PROVE  IInv'
<1> DEFINE ids == Inbound(UserOf[s])
<1>1. ids \subseteq Messages
      /\ \A m \in ids : Exists(m) /\ message[m].sender # UserOf[s]
  BY DEF Inbound
<1>2. PICK phase \in {"open", "marking"}, held \in {{}, ids} : Go(s, phase, held)
  BY DEF ReadInbound
<1>3. /\ socket' \in [Sockets -> Socket]
      /\ socket'[s].phase = phase /\ socket'[s].ids = held
      /\ \A t \in Sockets : t # s => socket'[t] = socket[t]
  BY <1>1, <1>2, GoEffect DEF IInv, Phase
<1>4. UNCHANGED <<message, mailbox, screen, notified, crashes>> /\ HasHistory(s)
  BY DEF ReadInbound, HasHistory, Group, At
<1>5. Grows /\ BlankUntilSent'
  BY <1>4, SameRows DEF IInv
<1>6. CTypeOK'
  BY <1>3, <1>4 DEF IInv, CTypeOK, Exists
<1>7. HandlersAreTrue'
  BY <1>1, <1>3, <1>5, HandlersStay
<1> QED
  BY <1>3, <1>4, <1>5, <1>6, <1>7, QuietStepKeeps

\* ... and all of them are read when the UPDATE is done: by it, or before it.
LEMMA MarkInboundKeeps ==
    ASSUME IInv, NEW s \in Sockets, MarkInbound(s)
    PROVE  IInv'
<1> DEFINE u == UserOf[s]
<1>1. u \in Users /\ socket[s].ids \subseteq Messages
  BY UsersAssumption DEF IInv, CTypeOK, Socket
<1>2. /\ socket' \in [Sockets -> Socket]
      /\ socket'[s].phase = "marked" /\ socket'[s].ids = socket[s].ids
      /\ \A t \in Sockets : t # s => socket'[t] = socket[t]
  BY <1>1, GoEffect DEF MarkInbound, IInv, Phase
<1>3. UNCHANGED <<mailbox, screen, notified, crashes>> /\ HasHistory(s)
  BY DEF MarkInbound, HasHistory, Group, At
<1>4. /\ message' \in [Messages -> Message]
      /\ Grows /\ BlankUntilSent'
      /\ \A m \in Messages : message'[m].told = message[m].told
      /\ \A m \in Messages : Exists(m)' <=> Exists(m)
      /\ \A m \in Messages : Exists(m) /\ message[m].sender # u
             => message'[m].read_by_recipient
  BY <1>1, MarkReadEffect DEF MarkInbound, IInv
<1>5. CTypeOK'
  BY <1>2, <1>3, <1>4 DEF IInv, CTypeOK
<1>6. \A m \in socket[s].ids : message'[m].read_by_recipient
  BY <1>1, <1>4 DEF MarkInbound, IInv, HandlersAreTrue
<1>7. HandlersAreTrue'
  BY <1>2, <1>4, <1>6, HandlersStay
<1> QED
  BY <1>2, <1>3, <1>4, <1>5, <1>7, QuietStepKeeps

\* A message persisted is not told yet.
LEMMA PersistKeeps ==
    ASSUME IInv, NEW s \in Sockets, Persist(s)
    PROVE  IInv'
<1>1. PICK m \in Messages : ~Exists(m) /\ Create(m, UserOf[s]) /\ Go(s, "persisted", {m})
  BY DEF Persist, NextId
<1>2. UserOf[s] \in Users
  BY UsersAssumption
<1>3. /\ socket' \in [Sockets -> Socket]
      /\ socket'[s].phase = "persisted" /\ socket'[s].ids = {m}
      /\ \A t \in Sockets : t # s => socket'[t] = socket[t]
  BY <1>1, GoEffect DEF IInv, Phase
<1>4. UNCHANGED <<mailbox, screen, notified, crashes>> /\ HasHistory(s)
  BY DEF Persist, HasHistory, Group, At
<1>5. /\ message' \in [Messages -> Message]
      /\ Grows /\ BlankUntilSent' /\ Exists(m)'
      /\ \A n \in Messages : message'[n].told = message[n].told
  BY <1>1, <1>2, CreateEffect DEF IInv
<1>6. CTypeOK'
  BY <1>3, <1>4, <1>5 DEF IInv, CTypeOK, Grows, Exists
<1>7. HandlersAreTrue'
  BY <1>3, <1>5, HandlersStay
<1> QED
  BY <1>3, <1>4, <1>5, <1>6, <1>7, QuietStepKeeps

\* A notification follows the broadcast, so it is about a message told.
LEMMA NotifyKeeps ==
    ASSUME IInv, NEW s \in Sockets, NEW ok \in BOOLEAN, Notify(s, ok)
    PROVE  IInv'
<1>1. /\ socket' \in [Sockets -> Socket]
      /\ socket'[s].phase = "open" /\ socket'[s].ids = {}
      /\ \A t \in Sockets : t # s => socket'[t] = socket[t]
  BY GoEffect DEF Notify, IInv, Phase
<1>2. UNCHANGED <<message, mailbox, screen, crashes>> /\ HasHistory(s)
  BY DEF Notify, HasHistory, Group, At
<1>3. Grows /\ BlankUntilSent'
  BY <1>2, SameRows DEF IInv
<1>4. /\ socket[s].ids \subseteq Messages
      /\ \A m \in socket[s].ids : Exists(m) /\ message[m].told
  BY DEF Notify, IInv, HandlersAreTrue, CTypeOK, Socket
<1>5. notified' \subseteq notified \cup socket[s].ids
  BY DEF Notify
<1>6. CTypeOK'
  BY <1>1, <1>2, <1>4, <1>5 DEF IInv, CTypeOK, Exists
<1>7. HandlersAreTrue'
  BY <1>1, <1>3, HandlersStay
<1> QED
  BY <1>1, <1>2, <1>3, <1>6, <1>7, QuietStepKeeps

\* The ids announced as read are read.
LEMMA BroadcastReadKeeps ==
    ASSUME IInv, NEW s \in Sockets, BroadcastRead(s)
    PROVE  IInv'
<1> DEFINE ids == socket[s].ids
<1>1. UserOf[s] \in Users /\ ids \in SUBSET Messages
  BY UsersAssumption DEF IInv, CTypeOK, Socket
<1>2. /\ socket' \in [Sockets -> Socket]
      /\ socket'[s].phase = "open" /\ socket'[s].ids = {}
      /\ \A t \in Sockets : t # s => socket'[t] = socket[t]
  BY GoEffect DEF BroadcastRead, IInv, Phase
<1>3. UNCHANGED <<message, screen, notified, crashes>> /\ HasHistory(s)
  BY DEF BroadcastRead, HasHistory, Group, At
<1>4. /\ mailbox' \in [Sockets -> Seq(Event)]
      /\ \A t \in Sockets : \A k, m :
             Holds(mailbox'[t], k, m) <=>
                 \/ Holds(mailbox[t], k, m)
                 \/ t \in Group /\ k = "chat.read" /\ m \in ids
  BY <1>1, GroupSendEffect DEF BroadcastRead, IInv
<1>5. Grows /\ BlankUntilSent'
  BY <1>3, SameRows DEF IInv
<1>6. CTypeOK'
  BY <1>2, <1>3, <1>4 DEF IInv, CTypeOK, Exists
<1>7. HandlersAreTrue'
  BY <1>2, <1>5, HandlersStay
<1>8. \A m \in ids : message'[m].read_by_recipient
  BY <1>3 DEF BroadcastRead, IInv, HandlersAreTrue
<1>9. TicksAreTrue'
  BY <1>3, <1>4, <1>5, <1>8, TicksStay
<1>10. \A t \in Sockets : HasHistory(t)' => HasHistory(t)
  BY <1>2, <1>3 DEF HasHistory, Group, At
<1>11. NoGapAfterHistory'
  BY <1>3, <1>4, <1>5, <1>10, GapStays
<1> QED
  BY <1>5, <1>6, <1>7, <1>9, <1>11 DEF IInv

\* Everyone who has a history, or will send one, is in the group already.
LEMMA BroadcastMessageKeeps ==
    ASSUME IInv, NEW s \in Sockets, BroadcastMessage(s)
    PROVE  IInv'
<1> DEFINE ids == socket[s].ids
<1>1. UserOf[s] \in Users /\ ids \in SUBSET Messages
  BY UsersAssumption DEF IInv, CTypeOK, Socket
<1>2. /\ socket' \in [Sockets -> Socket]
      /\ socket'[s].phase = "broadcast" /\ socket'[s].ids = ids
      /\ \A t \in Sockets : t # s => socket'[t] = socket[t]
  BY <1>1, GoEffect DEF BroadcastMessage, IInv, Phase
<1>3. UNCHANGED <<screen, notified, crashes>> /\ HasHistory(s)
  BY DEF BroadcastMessage, HasHistory, Group, At
<1>4. /\ mailbox' \in [Sockets -> Seq(Event)]
      /\ \A t \in Sockets : \A k, m :
             Holds(mailbox'[t], k, m) <=>
                 \/ Holds(mailbox[t], k, m)
                 \/ t \in Group /\ k = "chat.message" /\ m \in ids
  BY <1>1, GroupSendEffect DEF BroadcastMessage, IInv
<1>5. \A m \in ids : Exists(m)
  BY DEF BroadcastMessage, IInv, HandlersAreTrue
<1>6. /\ message' \in [Messages -> Message]
      /\ Grows /\ BlankUntilSent'
      /\ \A m \in Messages : Exists(m)' <=> Exists(m)
      /\ \A m \in Messages : message'[m].told <=> message[m].told \/ m \in ids
  BY <1>1, <1>5, ToldEffect DEF BroadcastMessage, IInv
<1>7. CTypeOK'
  BY <1>2, <1>3, <1>4, <1>6 DEF IInv, CTypeOK
<1>8. HandlersAreTrue'
  BY <1>1, <1>2, <1>5, <1>6, HandlersStay
<1>9. TicksAreTrue'
  BY <1>3, <1>4, <1>6, TicksStay
<1>10. \A t \in Sockets : HasHistory(t)' => HasHistory(t) /\ t \in Group
  BY <1>2, <1>3 DEF HasHistory, Group, At
<1>11. NoGapAfterHistory'
  BY <1>3, <1>4, <1>6, <1>10, GapStays
<1> QED
  BY <1>6, <1>7, <1>8, <1>9, <1>11 DEF IInv

\* What leaves the mailbox goes to the screen.
LEMMA HandleEventKeeps ==
    ASSUME IInv, NEW s \in Sockets, HandleEvent(s)
    PROVE  IInv'
<1> DEFINE e == Head(mailbox[s])
<1>1. mailbox[s] \in Seq(Event) /\ mailbox[s] # <<>>
  BY DEF HandleEvent, IInv, CTypeOK
<1>2. e \in Event /\ Tail(mailbox[s]) \in Seq(Event)
  BY <1>1, HeadTailProperties
<1>3. e.ids \in SUBSET Messages
  BY <1>2 DEF Event
<1>4. UNCHANGED <<message, socket, notified, crashes>>
  BY DEF HandleEvent
<1>5. /\ mailbox' \in [Sockets -> Seq(Event)]
      /\ mailbox'[s] = Tail(mailbox[s])
      /\ \A t \in Sockets : t # s => mailbox'[t] = mailbox[t]
  BY <1>2 DEF HandleEvent, IInv, CTypeOK
<1>6. /\ screen' \in [Sockets -> Screen]
      /\ \A t \in Sockets : t # s => screen'[t] = screen[t]
      /\ screen'[s].shown = screen[s].shown \cup (IF e.type = "chat.message" THEN e.ids ELSE {})
      /\ screen'[s].ticked \subseteq screen[s].ticked \cup
             (IF e.type = "chat.read" THEN e.ids ELSE {})
  <2>1. screen \in [Sockets -> Screen]
    BY DEF IInv, CTypeOK
  <2>2. screen' = [screen EXCEPT
            ![s].shown = IF e.type = "chat.message" THEN @ \cup e.ids ELSE @,
            ![s].ticked = IF e.type = "chat.read" /\ e.reader # UserOf[s]
                          THEN @ \cup e.ids ELSE @]
    BY DEF HandleEvent
  <2> HIDE DEF e
  <2> QED
    BY <1>3, <2>1, <2>2 DEF Screen
<1>7. \A k, m : Holds(mailbox[s], k, m) <=>
          Holds(mailbox'[s], k, m) \/ (e.type = k /\ m \in e.ids)
  BY <1>1, <1>5, HoldsHeadTail
<1> HIDE DEF e
<1>8. Grows /\ BlankUntilSent'
  BY <1>4, SameRows DEF IInv
<1>9. CTypeOK'
  BY <1>4, <1>5, <1>6 DEF IInv, CTypeOK, Exists
<1>10. HandlersAreTrue'
  BY <1>4 DEF IInv, HandlersAreTrue, At, Exists
<1>11. TicksAreTrue'
  BY <1>5, <1>6, <1>7, <1>8, TicksStay
<1>12. \A t \in Sockets : HasHistory(t)' <=> HasHistory(t)
  BY <1>4 DEF HasHistory, Group, At
<1>13. NoGapAfterHistory'
  BY <1>4, <1>5, <1>6, <1>7, <1>8, <1>12, GapStays
<1> QED
  BY <1>8, <1>9, <1>10, <1>11, <1>13 DEF IInv

\* The HTTP endpoints write rows only.
LEMMA HttpKeeps ==
    ASSUME IInv, NEW u \in Users, HttpPost(u) \/ HttpGet(u)
    PROVE  IInv'
<1>1. UNCHANGED <<socket, mailbox, screen, notified, crashes>>
  BY DEF HttpPost, HttpGet
<1>2. /\ message' \in [Messages -> Message]
      /\ Grows /\ BlankUntilSent'
      /\ \A m \in Messages : message'[m].told = message[m].told
  <2>1. CASE HttpPost(u)
    <3>1. PICK m \in Messages : ~Exists(m) /\ Create(m, u)
      BY <2>1 DEF HttpPost, NextId
    <3> QED
      BY <3>1, CreateEffect DEF IInv
  <2>2. CASE HttpGet(u)
    BY <2>2, MarkReadEffect DEF HttpGet, IInv
  <2> QED
    BY <2>1, <2>2
<1>3. CTypeOK'
  BY <1>1, <1>2 DEF IInv, CTypeOK, Grows, Exists
<1>4. \A s \in Sockets : socket[s].ids \subseteq Messages
  BY DEF IInv, CTypeOK, Socket
<1>5. HandlersAreTrue'
  BY <1>1, <1>2, <1>4 DEF IInv, HandlersAreTrue, At, Grows, Exists
<1>6. TicksAreTrue'
  BY <1>1, <1>2, TicksStay
<1>7. \A t \in Sockets : HasHistory(t)' <=> HasHistory(t)
  BY <1>1 DEF HasHistory, Group, At
<1>8. NoGapAfterHistory'
  BY <1>1, <1>2, <1>7, GapStays
<1> QED
  BY <1>2, <1>3, <1>5, <1>6, <1>8 DEF IInv

---------------------------------------------------------------------------

\* At first nothing was sent and nobody is connected.
LEMMA InitIInv == CInit => IInv
<1> SUFFICES ASSUME CInit PROVE IInv
  OBVIOUS
<1>1. /\ NoMessage \in Message /\ Closed \in Socket /\ <<>> \in Seq(Event)
      /\ [shown |-> {}, ticked |-> {}] \in Screen
      /\ 0 \in 0 .. MaxCrashes
  BY BoundsAssumption, EmptySeq
  DEF NoMessage, Message, Closed, Socket, Phase, Screen
<1>2. CTypeOK
  BY <1>1 DEF CInit, CTypeOK
<1>3. BlankUntilSent /\ HandlersAreTrue
  BY DEF CInit, BlankUntilSent, HandlersAreTrue, At, Closed
<1>4. TicksAreTrue
  BY HoldsEmpty DEF CInit, TicksAreTrue, InMailbox, Holds
<1>5. NoGapAfterHistory
  BY DEF CInit, NoGapAfterHistory, HasHistory, Group, At, Closed
<1> QED
  BY <1>2, <1>3, <1>4, <1>5 DEF IInv

\* Every step keeps the invariant.
LEMMA NextIInv == IInv /\ [CNext]_cvars => IInv'
<1> SUFFICES ASSUME IInv, [CNext]_cvars PROVE IInv'
  OBVIOUS
<1>1. ASSUME NEW s \in Sockets, Proceed(s) PROVE IInv'
  BY <1>1, SendHistoryKeeps, ReadInboundKeeps, MarkInboundKeeps, BroadcastReadKeeps,
     BroadcastMessageKeeps, NotifyKeeps DEF Proceed
<1>2. CASE UNCHANGED cvars
  BY <1>2 DEF cvars, IInv, CTypeOK, BlankUntilSent, HandlersAreTrue, TicksAreTrue,
              NoGapAfterHistory, InMailbox, HasHistory, Group, At, Outside, Exists
<1> QED
  BY <1>1, <1>2, OpenOrEndKeeps, PersistKeeps, HandleEventKeeps, HttpKeeps DEF CNext

\* The invariant holds of every behaviour.
LEMMA Invariance == CSpec => []IInv
  BY InitIInv, NextIInv, PTL DEF CSpec

\* Types: whoever is notified of a message could have been shown it, for any
\* users, connections and messages.
THEOREM TypeCorrect == CSpec => []CTypeOK
<1>1. IInv => CTypeOK
  BY DEF IInv
<1> QED
  BY <1>1, Invariance, PTL

\* No tick is shown or on its way for a message whose row is unread.
THEOREM TicksCanBeTrusted == CSpec => []TicksAreTrue
<1>1. IInv => TicksAreTrue
  BY DEF IInv
<1> QED
  BY <1>1, Invariance, PTL

\* Joining the group before reading the history leaves no gap between the two,
\* with any number of connections, crashes and requests at once.
THEOREM HistoryAndEventsMeet == CSpec => []NoGapAfterHistory
<1>1. IInv => NoGapAfterHistory
  BY DEF IInv
<1> QED
  BY <1>1, Invariance, PTL
=============================================================================
