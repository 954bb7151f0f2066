-------------------------------- MODULE Chat --------------------------------
(***************************************************************************)
(* One conversation of two users (backend/apps/chats): the WebSocket       *)
(* consumer, the HTTP endpoints beside it, and the notifications it leaves.*)
(* Every query is made within one conversation, so one is enough.          *)
(*                                                                         *)
(* A consumer handles one event at a time, and suspends at each await, so  *)
(* the steps of a handler are its awaits; group events that arrive         *)
(* meanwhile wait in its mailbox.  The channel layer puts an event into    *)
(* the mailbox of every socket of the group, in order; that it drops       *)
(* events above its capacity is left out.  A worker may crash at any await.*)
(***************************************************************************)
EXTENDS Integers, Sequences, FiniteSets

CONSTANTS
    Users,          \* the two participants
    Sockets,        \* WebSocket connections, one after the other on each
    UserOf,         \* whose connection a socket is
    MaxMessages,    \* BOUND: messages ever sent
    MaxCrashes,     \* BOUND: workers that crash
    HISTORY         \* how many messages a connection is shown at first

Messages == 1 .. MaxMessages

ASSUME UsersAssumption == UserOf \in [Sockets -> Users] /\ "none" \notin Users
ASSUME BoundsAssumption == {MaxMessages, MaxCrashes, HISTORY} \subseteq Nat

VARIABLES
    message,        \* message[m]: a Message row
    socket,         \* socket[s]:  where the consumer of s is in its handler
    mailbox,        \* mailbox[s]: the group events s has not handled yet
    screen,         \* screen[s]:  what the client of s was sent on this connection
    notified,       \* the messages with a Notification row for the recipient
    crashes

cvars == <<message, socket, mailbox, screen, notified, crashes>>

\* told: was chat.message of it sent to the group.
Message == [sender : Users \cup {"none"}, read_by_recipient : BOOLEAN, told : BOOLEAN]

NoMessage == [sender |-> "none", read_by_recipient |-> FALSE, told |-> FALSE]

Exists(m) == message[m].sender # "none"

Phase == {"closed", "joined", "reading", "marking", "marked", "open",
          "persisted", "broadcast"}

\* ids: the messages a handler works on.
Socket == [phase : Phase, ids : SUBSET Messages]

Screen == [shown : SUBSET Messages, ticked : SUBSET Messages]

Closed == [phase |-> "closed", ids |-> {}]

At(s, phase) == socket[s].phase = phase

Go(s, phase, ids) == socket' = [socket EXCEPT ![s] = [phase |-> phase, ids |-> ids]]

Event == [type : {"chat.message", "chat.read"}, reader : Users, ids : SUBSET Messages]

\* Mutant of Group: a socket joins after it has sent its history.
Group_Late == {s \in Sockets : socket[s].phase \notin {"closed", "joined", "reading"}}

\* Members of the group: from group_add to group_discard.
Group == {s \in Sockets : ~At(s, "closed")}

\* Mutant of GroupSend: the sender is left out.
GroupSend_Others(type, u, ids) ==
    mailbox' = [s \in Sockets |->
        IF s \in Group /\ UserOf[s] # u
        THEN Append(mailbox[s], [type |-> type, reader |-> u, ids |-> ids])
        ELSE mailbox[s]]

GroupSend(type, u, ids) ==
    mailbox' = [s \in Sockets |->
        IF s \in Group
        THEN Append(mailbox[s], [type |-> type, reader |-> u, ids |-> ids])
        ELSE mailbox[s]]

\* Message.objects.create by u gives the new row the next primary key.
NextId(m) == ~Exists(m) /\ \A n \in 1 .. m - 1 : Exists(n)

Create(m, u) == message' = [message EXCEPT ![m] = [NoMessage EXCEPT !.sender = u]]

Inbound(u) ==
    {m \in Messages : Exists(m) /\ message[m].sender # u /\ ~message[m].read_by_recipient}

MarkRead(ids) ==
    message' = [m \in Messages |->
        IF m \in ids THEN [message[m] EXCEPT !.read_by_recipient = TRUE] ELSE message[m]]

---------------------------------------------------------------------------
(* ChatConsumer.connect *)

Connect(s) ==
    /\ At(s, "closed")
    /\ Go(s, "joined", {})
    /\ mailbox' = [mailbox EXCEPT ![s] = <<>>]
    /\ screen' = [screen EXCEPT ![s] = [shown |-> {}, ticked |-> {}]]
    /\ UNCHANGED <<message, notified, crashes>>

RecentHistory ==
    {m \in Messages : Exists(m) /\ Cardinality({n \in Messages : n > m /\ Exists(n)}) < HISTORY}

SendHistory(s) ==
    /\ At(s, "joined")
    /\ screen' = [screen EXCEPT ![s] =
           [shown |-> RecentHistory,
            ticked |-> {m \in RecentHistory : message[m].read_by_recipient}]]
    /\ Go(s, "reading", {})
    /\ UNCHANGED <<message, mailbox, notified, crashes>>

\* _mark_inbound_as_read: the ids ...
ReadInbound(s) ==
    /\ At(s, "reading")
    /\ LET ids == Inbound(UserOf[s]) IN
           IF ids = {} THEN Go(s, "open", {}) ELSE Go(s, "marking", ids)
    /\ UNCHANGED <<message, mailbox, screen, notified, crashes>>

\* Mutant of MarkInbound: only what the history has shown is marked.
MarkInbound_Shown(s) ==
    /\ At(s, "marking")
    /\ MarkRead(Inbound(UserOf[s]) \cap screen[s].shown)
    /\ Go(s, "marked", socket[s].ids)
    /\ UNCHANGED <<mailbox, screen, notified, crashes>>

\* ... and the UPDATE, whose filter is evaluated afresh.
MarkInbound(s) ==
    /\ At(s, "marking")
    /\ MarkRead(Inbound(UserOf[s]))
    /\ Go(s, "marked", socket[s].ids)
    /\ UNCHANGED <<mailbox, screen, notified, crashes>>

BroadcastRead(s) ==
    /\ At(s, "marked")
    /\ GroupSend("chat.read", UserOf[s], socket[s].ids)
    /\ Go(s, "open", {})
    /\ UNCHANGED <<message, screen, notified, crashes>>

---------------------------------------------------------------------------
(* receive_json *)

Persist(s) ==
    /\ At(s, "open")
    /\ \E m \in Messages :
           /\ NextId(m)
           /\ Create(m, UserOf[s])
           /\ Go(s, "persisted", {m})
    /\ UNCHANGED <<mailbox, screen, notified, crashes>>

BroadcastMessage(s) ==
    /\ At(s, "persisted")
    /\ GroupSend("chat.message", UserOf[s], socket[s].ids)
    /\ message' = [m \in Messages |->
           [message[m] EXCEPT !.told = @ \/ m \in socket[s].ids]]
    /\ Go(s, "broadcast", socket[s].ids)
    /\ UNCHANGED <<screen, notified, crashes>>

\* _notify_offline_recipient; an error there is swallowed.
Notify(s, ok) ==
    /\ At(s, "broadcast")
    /\ notified' = IF ok THEN notified \cup socket[s].ids ELSE notified
    /\ Go(s, "open", {})
    /\ UNCHANGED <<message, mailbox, screen, crashes>>

---------------------------------------------------------------------------
(* chat_message, chat_read, disconnect *)

HandleEvent(s) ==
    /\ At(s, "open") /\ mailbox[s] # <<>>
    /\ LET e == Head(mailbox[s]) IN
           screen' = [screen EXCEPT
               ![s].shown = IF e.type = "chat.message" THEN @ \cup e.ids ELSE @,
               ![s].ticked = IF e.type = "chat.read" /\ e.reader # UserOf[s]
                             THEN @ \cup e.ids ELSE @]
    /\ mailbox' = [mailbox EXCEPT ![s] = Tail(@)]
    /\ UNCHANGED <<message, socket, notified, crashes>>

Disconnect(s) ==
    /\ At(s, "open")
    /\ Go(s, "closed", {})
    /\ mailbox' = [mailbox EXCEPT ![s] = <<>>]
    /\ UNCHANGED <<message, screen, notified, crashes>>

Crash(s) ==
    /\ crashes < MaxCrashes
    /\ ~At(s, "closed")
    /\ crashes' = crashes + 1
    /\ Go(s, "closed", {})
    /\ mailbox' = [mailbox EXCEPT ![s] = <<>>]
    /\ UNCHANGED <<message, screen, notified>>

---------------------------------------------------------------------------
(* MessageListCreateView: no broadcast, no notification *)

HttpPost(u) ==
    /\ \E m \in Messages : NextId(m) /\ Create(m, u)
    /\ UNCHANGED <<socket, mailbox, screen, notified, crashes>>

HttpGet(u) ==
    /\ MarkRead(Inbound(u))
    /\ UNCHANGED <<socket, mailbox, screen, notified, crashes>>
---------------------------------------------------------------------------

CInit ==
    /\ message = [m \in Messages |-> NoMessage]
    /\ socket = [s \in Sockets |-> Closed]
    /\ mailbox = [s \in Sockets |-> <<>>]
    /\ screen = [s \in Sockets |-> [shown |-> {}, ticked |-> {}]]
    /\ notified = {}
    /\ crashes = 0

\* The rest of a handler that has begun.
Proceed(s) ==
    \/ SendHistory(s)
    \/ ReadInbound(s)
    \/ MarkInbound(s)
    \/ BroadcastRead(s)
    \/ BroadcastMessage(s)
    \/ \E ok \in BOOLEAN : Notify(s, ok)

CNext ==
    \/ \E s \in Sockets :
           Connect(s) \/ Proceed(s) \/ Persist(s) \/ HandleEvent(s) \/ Disconnect(s) \/ Crash(s)
    \/ \E u \in Users : HttpPost(u) \/ HttpGet(u)

CSpec == CInit /\ [][CNext]_cvars

\* The event loop finishes the handlers it has begun, and a consumer takes what
\* is in its mailbox.  Nothing is assumed of clients.
CFairness == \A s \in Sockets : WF_cvars(Proceed(s)) /\ WF_cvars(HandleEvent(s))

CFairSpec == CSpec /\ CFairness

---------------------------------------------------------------------------
(* Properties *)

\* Types: only what was told to the group is notified, and only what exists.
CTypeOK ==
    /\ message \in [Messages -> Message]
    /\ socket \in [Sockets -> Socket]
    /\ mailbox \in [Sockets -> Seq(Event)]
    /\ screen \in [Sockets -> Screen]
    /\ notified \subseteq {m \in Messages : Exists(m) /\ message[m].told}
    /\ crashes \in 0 .. MaxCrashes

InMailbox(s, type, m) ==
    \E i \in DOMAIN mailbox[s] : mailbox[s][i].type = type /\ m \in mailbox[s][i].ids

HasHistory(s) == s \in Group /\ ~At(s, "joined")

Outside(m) == Cardinality({n \in Messages : n > m /\ Exists(n)}) >= HISTORY

\* No message falls between the history and the live events: one that was
\* broadcast is on the screen of every connection, waits in its mailbox, or is
\* older than the history reaches back.
NoGapAfterHistory ==
    \A s \in Sockets, m \in Messages : message[m].told /\ HasHistory(s) =>
        m \in screen[s].shown \/ InMailbox(s, "chat.message", m) \/ Outside(m)

\* Whoever sees a tick can rely on it: no client is shown or about to be told
\* that a message was read that its row does not say was read.
TicksAreTrue ==
    \A s \in Sockets, m \in Messages :
        m \in screen[s].ticked \/ InMailbox(s, "chat.read", m)
            => message[m].read_by_recipient

\* A message sent over a socket reaches every connection that was in the group
\* when it was sent and stays, unless the sender's worker crashes before it
\* broadcasts.
SentMessagesArrive ==
    \A s, t \in Sockets, m \in Messages :
        At(s, "persisted") /\ m \in socket[s].ids /\ t \in Group
            ~> \/ m \in screen[t].shown
               \/ At(t, "closed")
               \/ At(s, "closed") /\ ~message[m].told
=============================================================================
