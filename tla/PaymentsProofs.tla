--------------------------- MODULE PaymentsProofs ---------------------------
(***************************************************************************)
(* Proofs about Payments.  PaidWasCharged is not inductive by itself: what *)
(* a webhook in flight will write, and what a callback still to come will  *)
(* say, must be true of the provider already.  IInv adds just that.        *)
(***************************************************************************)
EXTENDS Payments, TLAPS

\* A row's transaction, where it is a page, is a page made for that order.
RowsNameTheirPages ==
    \A o \in OrderIds : payment[o].tx \in LinkIds => link[payment[o].tx] = o

\* A report comes from a page that exists, and says PAID only of a paid one.
ReportsAreTrue ==
    \A cb \in callbacks :
        link[cb.tx] # Null /\ (cb.status = "PAID" => cb.tx \in charged)

\* A webhook in flight is about the order its page was made for, and has read
\* a true report.
WebhooksAreTrue ==
    \A h \in Handlers : req[h].kind = "webhook" =>
        /\ link[req[h].callback.tx] = req[h].order
        /\ req[h].callback.status = "PAID" => req[h].callback.tx \in charged

IInv == TypeOK /\ RowsNameTheirPages /\ ReportsAreTrue /\ WebhooksAreTrue /\ PaidWasCharged

---------------------------------------------------------------------------

\* The request records of the three kinds, field by field.
LEMMA RequestFields ==
    ASSUME NEW r \in Request
    PROVE  /\ r.kind \in {"link", "card", "webhook"} => r.order \in OrderIds
           /\ r.kind = "webhook" => r.callback \in Callback
           /\ r.kind = "idle" => r = Idle
  BY DEF Request, Idle

\* Requests begin and end within their type.
LEMMA ReqTyped ==
    ASSUME TypeOK, NEW h \in Handlers, NEW r \in Request,
           Begin(h, r) \/ End(h)
    PROVE  req' \in [Handlers -> Request]
  BY DEF TypeOK, Begin, End, Request

\* The initial rows are typed: nothing is paid, made or reported.
LEMMA InitTypeOK == Init => TypeOK
  BY DEF Init, TypeOK, PaymentRow, PaymentStatus, Request

\* Every step keeps the types.
LEMMA NextTypeOK == TypeOK /\ [Next]_vars => TypeOK'
<1> SUFFICES ASSUME TypeOK, [Next]_vars PROVE TypeOK'
  OBVIOUS
<1>1. ASSUME NEW h \in Handlers, NEW o \in OrderIds, PayLinkRead(h, o) \/ CardRead(h, o)
      PROVE  TypeOK'
  <2>1. /\ [kind |-> "link", order |-> o, callback |-> Null] \in Request
        /\ [kind |-> "card", order |-> o, callback |-> Null] \in Request
    BY DEF Request
  <2>2. req' \in [Handlers -> Request]
    BY <1>1, <2>1, ReqTyped DEF PayLinkRead, CardRead
  <2> QED
    BY <1>1, <2>2 DEF TypeOK, PayLinkRead, CardRead
<1>2. ASSUME NEW h \in Handlers, NEW cb \in Callback, WebhookRead(h, cb)
      PROVE  TypeOK'
  <2>1. ASSUME NEW o \in OrderIds
        PROVE  [kind |-> "webhook", order |-> o, callback |-> cb] \in Request
    BY DEF Request
  <2>2. req' \in [Handlers -> Request]
    BY <1>2, <2>1, ReqTyped DEF WebhookRead, TypeOK
  <2>3. callbacks' \subseteq Callback
    BY <1>2 DEF WebhookRead, AnswerReplay, TypeOK
  <2> QED
    BY <1>2, <2>2, <2>3 DEF TypeOK, WebhookRead
<1>3. ASSUME NEW h \in Handlers, PayLinkWrite(h)
      PROVE  TypeOK'
  <2>1. req[h].order \in OrderIds
    BY <1>3, RequestFields DEF PayLinkWrite, TypeOK
  <2>2. req' \in [Handlers -> Request]
    BY <1>3 DEF PayLinkWrite, End, TypeOK, Request
  <2>3. payment' \in [OrderIds -> PaymentRow]
    BY <1>3, <2>1 DEF PayLinkWrite, ProviderTxId, TypeOK, PaymentRow, PaymentStatus
  <2>4. link' \in [LinkIds -> OrderIds \cup {Null}]
    BY <1>3, <2>1 DEF PayLinkWrite, TypeOK
  <2> QED
    BY <1>3, <2>2, <2>3, <2>4 DEF TypeOK, PayLinkWrite
<1>4. ASSUME NEW h \in Handlers, WebhookWrite(h)
      PROVE  TypeOK'
  <2>1. req[h].order \in OrderIds /\ req[h].callback.status \in PaymentStatus
    BY <1>4, RequestFields DEF WebhookWrite, TypeOK, Callback, Outcome, PaymentStatus
  <2>2. req' \in [Handlers -> Request]
    BY <1>4 DEF WebhookWrite, End, TypeOK, Request
  <2>3. payment' \in [OrderIds -> PaymentRow]
    BY <1>4, <2>1 DEF WebhookWrite, TypeOK, PaymentRow
  <2> QED
    BY <1>4, <2>2, <2>3 DEF TypeOK, WebhookWrite
<1>5. ASSUME NEW h \in Handlers, CardWrite(h)
      PROVE  TypeOK'
  <2>1. req' \in [Handlers -> Request]
    BY <1>5 DEF CardWrite, End, TypeOK, Request
  <2>2. payment' \in [OrderIds -> PaymentRow]
    BY <1>5 DEF CardWrite, TypeOK, PaymentRow, PaymentStatus
  <2> QED
    BY <1>5, <2>1, <2>2 DEF TypeOK, CardWrite
<1>6. ASSUME NEW x \in LinkIds, NEW s \in Outcome, ProviderReports(x, s)
      PROVE  TypeOK'
  BY <1>6 DEF ProviderReports, TypeOK, Callback
<1>7. CASE UNCHANGED vars
  BY <1>7 DEF vars, TypeOK
<1> QED
  BY <1>1, <1>2, <1>3, <1>4, <1>5, <1>6, <1>7 DEF Next, Finish

\* Types (property TypeOK) for every set of orders and of handlers.
THEOREM TypeCorrect == Spec => []TypeOK
  BY InitTypeOK, NextTypeOK, PTL DEF Spec

---------------------------------------------------------------------------

\* A page once made for an order stays that order's, and money once paid on
\* it stays paid: what the other invariants say of the provider is stable.
LEMMA PagesAreKept ==
    ASSUME TypeOK, [Next]_vars, NEW x \in LinkIds
    PROVE  /\ link[x] # Null => link'[x] = link[x]
           /\ x \in charged => x \in charged'
<1>1. CASE \E h \in Handlers : PayLinkWrite(h)
  BY <1>1 DEF PayLinkWrite, Minted, TypeOK
<1>2. CASE ~\E h \in Handlers : PayLinkWrite(h)
  <2>1. link' = link
    BY <1>2 DEF Next, Finish, PayLinkRead, CardRead, WebhookRead, WebhookWrite,
                CardWrite, ProviderReports, vars
  <2>2. charged \subseteq charged'
    BY <1>2 DEF Next, Finish, PayLinkRead, CardRead, WebhookRead, WebhookWrite,
                CardWrite, ProviderReports, vars
  <2> QED
    BY <2>1, <2>2
<1> QED
  BY <1>1, <1>2

\* A handler's copy changes when it reads, for an order it may act on, or when
\* it has written; nobody else touches it.
LEMMA CopiesAreOwn ==
    ASSUME TypeOK, [Next]_vars, NEW h \in Handlers, req'[h] # req[h]
    PROVE  \/ req'[h] = Idle
           \/ \E o \in OrderIds :
                  /\ payment[o].status # "PAID"
                  /\ req'[h].kind \in {"link", "card"} /\ req'[h].order = o
           \/ \E o \in OrderIds, cb \in callbacks :
                  /\ payment[o].status # "PAID" /\ payment[o].tx = cb.tx
                  /\ req'[h] = [kind |-> "webhook", order |-> o, callback |-> cb]
                  /\ link' = link /\ charged' = charged
<1>1. ASSUME NEW g \in Handlers, NEW o \in OrderIds, PayLinkRead(g, o) \/ CardRead(g, o)
      PROVE  /\ payment[o].status # "PAID"
             /\ req'[h].kind \in {"link", "card"} /\ req'[h].order = o
  <2>1. /\ payment[o].status # "PAID"
        /\ \E k \in {"link", "card"} :
               req' = [req EXCEPT ![g] = [kind |-> k, order |-> o, callback |-> Null]]
    BY <1>1 DEF PayLinkRead, CardRead, Payable, Begin
  <2> QED
    BY <2>1 DEF TypeOK
<1>2. ASSUME NEW g \in Handlers, NEW cb \in Callback, WebhookRead(g, cb)
      PROVE  \E o \in OrderIds :
                  /\ payment[o].status # "PAID" /\ payment[o].tx = cb.tx
                  /\ req'[h] = [kind |-> "webhook", order |-> o, callback |-> cb]
                  /\ cb \in callbacks /\ link' = link /\ charged' = charged
  <2>1. PICK o \in OrderIds :
            /\ payment[o].tx = cb.tx /\ ~IsReplay(o)
            /\ Begin(g, [kind |-> "webhook", order |-> o, callback |-> cb])
    BY <1>2 DEF WebhookRead
  <2>2. req'[h] = [kind |-> "webhook", order |-> o, callback |-> cb]
    BY <2>1 DEF Begin, TypeOK
  <2> QED
    BY <1>2, <2>1, <2>2 DEF WebhookRead, IsReplay
<1>3. ASSUME NEW g \in Handlers, Finish(g)
      PROVE  req'[h] = Idle
  <2>1. req' = [req EXCEPT ![g] = Idle]
    BY <1>3 DEF Finish, PayLinkWrite, WebhookWrite, CardWrite, End
  <2> QED
    BY <2>1 DEF TypeOK
<1>4. ~UNCHANGED req
  OBVIOUS
<1>5. \/ \E g \in Handlers : \/ \E o \in OrderIds : PayLinkRead(g, o) \/ CardRead(g, o)
                             \/ \E cb \in Callback : WebhookRead(g, cb)
                             \/ Finish(g)
  BY <1>4 DEF Next, ProviderReports, vars
<1>6. CASE \E g \in Handlers, o \in OrderIds : PayLinkRead(g, o) \/ CardRead(g, o)
  BY <1>1, <1>6
<1>7. CASE \E g \in Handlers, cb \in Callback : WebhookRead(g, cb)
  BY <1>2, <1>7
<1>8. CASE \E g \in Handlers : Finish(g)
  BY <1>3, <1>8
<1> QED
  BY <1>5, <1>6, <1>7, <1>8

\* Nothing is paid, reported or in flight at the start.
LEMMA InitIInv == Init => IInv
  BY InitTypeOK, NullAssumption
  DEF Init, IInv, RowsNameTheirPages, ReportsAreTrue, WebhooksAreTrue, PaidWasCharged, Idle

\* Rows keep naming their own pages.
LEMMA NextRows == IInv /\ [Next]_vars => RowsNameTheirPages'
<1> SUFFICES ASSUME IInv, [Next]_vars,
                    NEW o \in OrderIds, payment'[o].tx \in LinkIds
             PROVE  link'[payment'[o].tx] = o
  BY DEF RowsNameTheirPages
<1> USE DEF IInv
<1>1. CASE payment'[o].tx = payment[o].tx
  BY <1>1, PagesAreKept, NullAssumption DEF RowsNameTheirPages
<1>2. ASSUME NEW h \in Handlers, PayLinkWrite(h), payment'[o].tx # payment[o].tx
      PROVE  link'[payment'[o].tx] = o
  BY <1>2 DEF PayLinkWrite, ProviderTxId, TypeOK
<1>3. ASSUME NEW h \in Handlers, WebhookWrite(h)
      PROVE  payment'[o].tx = payment[o].tx
  BY <1>3 DEF WebhookWrite, TypeOK, PaymentRow
<1>4. ASSUME NEW h \in Handlers, CardWrite(h)
      PROVE  payment'[o].tx = payment[o].tx
  BY <1>4, CardTxAssumption DEF CardWrite, TypeOK
<1>5. CASE UNCHANGED payment
  BY <1>1, <1>5
<1>6. (\E h \in Handlers : Finish(h)) \/ UNCHANGED payment
  BY DEF Next, PayLinkRead, CardRead, WebhookRead, ProviderReports, vars
<1> QED
  BY <1>1, <1>2, <1>3, <1>4, <1>5, <1>6 DEF Finish

\* The reports on their way stay true.
LEMMA NextReports == IInv /\ [Next]_vars => ReportsAreTrue'
<1> SUFFICES ASSUME IInv, [Next]_vars, NEW cb \in callbacks'
             PROVE  link'[cb.tx] # Null /\ (cb.status = "PAID" => cb.tx \in charged')
  BY DEF ReportsAreTrue
<1> USE DEF IInv
<1>1. CASE cb \in callbacks
  <2>1. cb.tx \in LinkIds
    BY <1>1 DEF TypeOK, Callback
  <2> QED
    BY <1>1, <2>1, PagesAreKept DEF ReportsAreTrue
<1>2. CASE cb \notin callbacks
  <2>1. PICK x \in LinkIds, s \in Outcome : ProviderReports(x, s)
    BY <1>2 DEF Next, Finish, PayLinkRead, CardRead, WebhookRead, AnswerReplay,
                PayLinkWrite, WebhookWrite, CardWrite, vars
  <2>2. cb = [tx |-> x, status |-> s]
    BY <1>2, <2>1 DEF ProviderReports
  <2> QED
    BY <2>1, <2>2 DEF ProviderReports
<1> QED
  BY <1>1, <1>2

\* So does what a webhook in flight has read.
LEMMA NextWebhooks == IInv /\ [Next]_vars => WebhooksAreTrue'
<1> SUFFICES ASSUME IInv, [Next]_vars, NEW h \in Handlers, req'[h].kind = "webhook"
             PROVE  /\ link'[req'[h].callback.tx] = req'[h].order
                    /\ req'[h].callback.status = "PAID" => req'[h].callback.tx \in charged'
  BY DEF WebhooksAreTrue
<1> USE DEF IInv
<1>1. CASE req'[h] = req[h]
  <2>1. req[h].order \in OrderIds /\ req[h].callback \in Callback
    BY <1>1, RequestFields DEF TypeOK
  <2>2. req[h].callback.tx \in LinkIds /\ req[h].order # Null
    BY <2>1, NullAssumption DEF Callback
  <2> QED
    BY <1>1, <2>2, PagesAreKept DEF WebhooksAreTrue
<1>2. CASE req'[h] # req[h]
  <2>1. PICK o \in OrderIds, cb \in callbacks :
            /\ payment[o].tx = cb.tx
            /\ req'[h] = [kind |-> "webhook", order |-> o, callback |-> cb]
            /\ link' = link /\ charged' = charged
    <3>1. req'[h] # Idle /\ req'[h].kind \notin {"link", "card"}
      BY DEF Idle
    <3> QED
      BY <1>2, <3>1, CopiesAreOwn
  <2>2. link[cb.tx] = o
    BY <2>1 DEF RowsNameTheirPages, Callback, TypeOK
  <2>3. cb.status = "PAID" => cb.tx \in charged
    BY <2>1 DEF ReportsAreTrue
  <2> QED
    BY <2>1, <2>2, <2>3
<1> QED
  BY <1>1, <1>2

\* Only a card payment, or a webhook with a true report, makes an order PAID.
LEMMA NextPaid == IInv /\ [Next]_vars => PaidWasCharged'
<1> SUFFICES ASSUME IInv, [Next]_vars, NEW o \in OrderIds, payment'[o].status = "PAID"
             PROVE  payment'[o].tx = CardTx \/ \E x \in charged' : link'[x] = o
  BY DEF PaidWasCharged
<1> USE DEF IInv
<1>1. CASE payment'[o] = payment[o]
  <2>1. CASE payment[o].tx = CardTx
    BY <1>1, <2>1
  <2>2. CASE \E x \in charged : link[x] = o
    BY <2>2, PagesAreKept, NullAssumption DEF TypeOK
  <2> QED
    BY <1>1, <2>1, <2>2 DEF PaidWasCharged
<1>2. ASSUME NEW h \in Handlers, WebhookWrite(h), payment'[o] # payment[o]
      PROVE  \E x \in charged' : link'[x] = o
  <2>1. req[h].order = o /\ req[h].callback.status = "PAID"
    BY <1>2 DEF WebhookWrite, TypeOK, PaymentRow
  <2> QED
    BY <1>2, <2>1 DEF WebhookWrite, WebhooksAreTrue
<1>3. ASSUME NEW h \in Handlers, CardWrite(h), payment'[o] # payment[o]
      PROVE  payment'[o].tx = CardTx
  BY <1>3 DEF CardWrite, TypeOK
<1>4. ASSUME NEW h \in Handlers, PayLinkWrite(h), payment'[o] # payment[o]
      PROVE  FALSE
  BY <1>4 DEF PayLinkWrite, TypeOK
<1>5. (\E h \in Handlers : Finish(h)) \/ UNCHANGED payment
  BY DEF Next, PayLinkRead, CardRead, WebhookRead, ProviderReports, vars
<1> QED
  BY <1>1, <1>2, <1>3, <1>4, <1>5 DEF Finish

\* The inductive invariant.
LEMMA IInvariant == Spec => []IInv
<1>1. IInv /\ [Next]_vars => IInv'
  BY NextTypeOK, NextRows, NextReports, NextWebhooks, NextPaid DEF IInv
<1> QED
  BY InitIInv, <1>1, PTL DEF Spec

\* No order is PAID that was not paid for (property PaidWasCharged), for any
\* number of orders, links and overlapping requests.
THEOREM PaidOrdersWereCharged == Spec => []PaidWasCharged
  BY IInvariant, PTL DEF IInv

---------------------------------------------------------------------------

\* No answered payment is lost (property AnsweredPaymentsAreRecorded): the
\* only handlers that answer a callback leave its order PAID.
THEOREM AnsweredMeansRecorded == Spec => AnsweredPaymentsAreRecorded
<1>1. ASSUME IInv, [Next]_vars, NEW x \in LinkIds,
             [tx |-> x, status |-> "PAID"] \in callbacks,
             [tx |-> x, status |-> "PAID"] \notin callbacks'
      PROVE  payment'[link[x]].status = "PAID"
  <2> DEFINE cb == [tx |-> x, status |-> "PAID"]
  <2> USE DEF IInv
  <2>1. ASSUME NEW h \in Handlers, WebhookRead(h, cb)
        PROVE  payment'[link[x]].status = "PAID"
    <3>1. PICK o \in OrderIds : payment[o].tx = x /\ IsReplay(o)
      BY <1>1, <2>1 DEF WebhookRead
    <3> QED
      BY <1>1, <2>1, <3>1 DEF WebhookRead, IsReplay, RowsNameTheirPages
  <2>2. ASSUME NEW h \in Handlers, WebhookWrite(h)
        PROVE  payment'[link[x]].status = "PAID"
    <3>1. req[h].callback = cb
      BY <1>1, <2>2 DEF WebhookWrite
    <3>2. req[h].order = link[x] /\ req[h].order \in OrderIds
      BY <1>1, <2>2, <3>1, RequestFields DEF WebhookWrite, WebhooksAreTrue, TypeOK
    <3> QED
      BY <1>1, <2>2, <3>1, <3>2 DEF WebhookWrite, TypeOK, PaymentRow
  <2>3. \/ \E h \in Handlers : WebhookRead(h, cb)
        \/ \E h \in Handlers : WebhookWrite(h)
    BY <1>1 DEF Next, Finish, PayLinkRead, CardRead, WebhookRead, AnswerReplay,
                PayLinkWrite, CardWrite, ProviderReports, vars
  <2> QED
    BY <2>1, <2>2, <2>3
<1>2. IInv /\ [Next]_vars =>
         [\A x \in LinkIds :
              LET cb == [tx |-> x, status |-> "PAID"] IN
              cb \in callbacks /\ cb \notin callbacks'
                  => payment'[link[x]].status = "PAID"]_vars
  BY <1>1
<1> QED
  BY <1>2, IInvariant, PTL DEF Spec, AnsweredPaymentsAreRecorded

\* A paid order that no request is working on stays paid, with the same
\* transaction (property PaidAndQuietIsFinal): every later request reads PAID
\* before it could write.
THEOREM QuietPaymentsAreFinal == Spec => PaidAndQuietIsFinal
<1>1. ASSUME TypeOK, [Next]_vars, NEW o \in OrderIds, PaidAndQuiet(o)
      PROVE  PaidAndQuiet(o)' /\ payment'[o].tx = payment[o].tx
  <2>1. \A h \in Handlers : req[h].kind # "idle" => req[h].order # o
    BY <1>1 DEF PaidAndQuiet, Busy
  <2>2. payment'[o] = payment[o]
    <3>1. ASSUME NEW h \in Handlers, Finish(h)
          PROVE  req[h].order # o
      BY <2>1, <3>1 DEF Finish, PayLinkWrite, WebhookWrite, CardWrite
    <3>2. ASSUME NEW h \in Handlers, Finish(h)
          PROVE  payment'[o] = payment[o]
      BY <1>1, <3>1, <3>2 DEF Finish, PayLinkWrite, WebhookWrite, CardWrite, TypeOK
    <3> QED
      BY <1>1, <3>2 DEF Next, PayLinkRead, CardRead, WebhookRead, ProviderReports, vars
  <2>3. ASSUME NEW g \in Handlers, req'[g].kind # "idle"
        PROVE  req'[g].order # o
    <3>1. CASE req'[g] = req[g]
      BY <2>1, <2>3, <3>1
    <3>2. CASE req'[g] # req[g]
      <4>1. \E p \in OrderIds : payment[p].status # "PAID" /\ req'[g].order = p
        <5>1. req'[g] # Idle
          BY <2>3 DEF Idle
        <5>2. ASSUME NEW p \in OrderIds, NEW cb,
                     req'[g] = [kind |-> "webhook", order |-> p, callback |-> cb]
              PROVE  req'[g].order = p
          BY <5>2
        <5> QED
          BY <1>1, <3>2, <5>1, <5>2, CopiesAreOwn
      <4> QED
        BY <1>1, <4>1 DEF PaidAndQuiet
    <3> QED
      BY <3>1, <3>2
  <2> QED
    BY <1>1, <2>2, <2>3 DEF PaidAndQuiet, Busy
<1>2. TypeOK /\ [Next]_vars =>
         [\A o \in OrderIds : PaidAndQuiet(o) =>
              PaidAndQuiet(o)' /\ payment'[o].tx = payment[o].tx]_vars
  BY <1>1
<1> QED
  BY <1>2, TypeCorrect, PTL DEF Spec, PaidAndQuietIsFinal
=============================================================================
