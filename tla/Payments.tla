------------------------------ MODULE Payments ------------------------------
(***************************************************************************)
(* The payment axis of an order (backend/apps/payments): pay links, the    *)
(* provider's callbacks, and payment with a saved card.  It touches no     *)
(* column the fulfilment handlers use, and they none of these, so it       *)
(* stands beside Orders and not on top of it.                              *)
(*                                                                         *)
(* No handler here opens a transaction or locks the row: each reads it,    *)
(* tests it, and later writes with save(update_fields=...).  So each is a  *)
(* Read step and a Write step, between which other requests run.           *)
(*                                                                         *)
(* The provider is outside the repository (its sandbox page is not).  Of   *)
(* it we take what WebhookView's docstring does: it reports an outcome as  *)
(* often as it likes, and repeats a report until it is answered with 2xx.  *)
(***************************************************************************)
EXTENDS Integers, FiniteSets

CONSTANTS
    OrderIds,       \* orders of authenticated buyers
    Handlers,       \* BOUND: requests being served at the same time
    MaxLinks,       \* BOUND: how many pay links are ever generated
    CardTx,         \* the transaction id of a payment with a saved card
    Null            \* no transaction, no order, no callback

LinkIds == 1 .. MaxLinks

ASSUME MaxLinksAssumption == MaxLinks \in Nat
ASSUME CardTxAssumption == CardTx \notin LinkIds /\ CardTx # Null
ASSUME NullAssumption == Null \notin LinkIds /\ Null \notin OrderIds

VARIABLES
    payment,        \* payment[o]: the payment columns of an Order row
    link,           \* link[x]:    the order the provider made checkout page x for
    charged,        \* pages on which the buyer has paid
    callbacks,      \* reports of the provider not yet answered with 2xx
    req             \* req[h]:     what handler h has read and not yet written

vars == <<payment, link, charged, callbacks, req>>

PaymentStatus == {"UNPAID", "PENDING", "PAID", "FAILED", "REFUNDED"}

Outcome == {"PAID", "FAILED", "REFUNDED"}

PaymentRow == [status : PaymentStatus, tx : LinkIds \cup {CardTx, Null}]

Callback == [tx : LinkIds, status : Outcome]

Idle == [kind |-> "idle", order |-> Null, callback |-> Null]

Request ==
    {Idle}
    \cup [kind : {"link", "card"}, order : OrderIds, callback : {Null}]
    \cup [kind : {"webhook"}, order : OrderIds, callback : Callback]

Busy(o) == \E h \in Handlers : req[h].kind # "idle" /\ req[h].order = o

Begin(h, r) == req[h] = Idle /\ req' = [req EXCEPT ![h] = r]

End(h) == req' = [req EXCEPT ![h] = Idle]

---------------------------------------------------------------------------
(* GeneratePayLinkView *)

\* A paid order is answered with 409.
Payable(o) == payment[o].status # "PAID"

PayLinkRead(h, o) ==
    /\ Cardinality({x \in LinkIds : link[x] = Null})            \* MaxLinks
           > Cardinality({g \in Handlers : req[g].kind = "link"})
    /\ Payable(o)
    /\ Begin(h, [kind |-> "link", order |-> o, callback |-> Null])
    /\ UNCHANGED <<payment, link, charged, callbacks>>

\* Mutant of Minted: an id may be given out a second time.
Minted_Reused(x) == TRUE

\* The provider's new transaction id: secrets.token_hex, so one never used.
Minted(x) == link[x] = Null /\ \A y \in 1 .. x - 1 : link[y] # Null

\* The id by which the row will be looked up; MockProvider's is the minted one.
ProviderTxId(o, x) == x

PayLinkWrite(h) ==
    LET o == req[h].order IN
    /\ req[h].kind = "link"
    /\ \E x \in LinkIds :
           /\ Minted(x)
           /\ link' = [link EXCEPT ![x] = o]
           /\ payment' = [payment EXCEPT ![o] =
                  [status |-> "PENDING", tx |-> ProviderTxId(o, x)]]
    /\ End(h)
    /\ UNCHANGED <<charged, callbacks>>

---------------------------------------------------------------------------
(* The provider and WebhookView *)

\* The checkout page of x, or the provider behind it, reports an outcome; a
\* refund only of what was paid.
ProviderReports(x, s) ==
    /\ link[x] # Null
    /\ s = "REFUNDED" => x \in charged
    /\ callbacks' = callbacks \cup {[tx |-> x, status |-> s]}
    /\ charged' = IF s = "PAID" THEN charged \cup {x} ELSE charged
    /\ UNCHANGED <<payment, link, req>>

\* Mutants of IsReplay: nothing is; or an attempt that failed is closed too.
IsReplay_Never(o) == FALSE
IsReplay_AnyOutcome(o) == payment[o].status \in {"PAID", "FAILED"}

\* "Once PAID, stay PAID": the callback is answered and changes nothing.
IsReplay(o) == payment[o].status = "PAID"

\* Mutant of AnswerReplay: a replay is refused, so the provider keeps at it.
AnswerReplay_Conflict(cb) == UNCHANGED callbacks

AnswerReplay(cb) == callbacks' = callbacks \ {cb}

\* A callback whose transaction no order carries (any more) gets a 404.
WebhookRead(h, cb) ==
    /\ cb \in callbacks
    /\ \E o \in OrderIds :
           /\ payment[o].tx = cb.tx
           /\ \/ /\ IsReplay(o) /\ req[h] = Idle
                 /\ AnswerReplay(cb)
                 /\ UNCHANGED req
              \/ /\ ~IsReplay(o)
                 /\ Begin(h, [kind |-> "webhook", order |-> o, callback |-> cb])
                 /\ UNCHANGED callbacks
    /\ UNCHANGED <<payment, link, charged>>

\* save(update_fields=["payment_status", ...]), then 200.
WebhookWrite(h) ==
    LET r == req[h] IN
    /\ r.kind = "webhook"
    /\ payment' = [payment EXCEPT ![r.order].status = r.callback.status]
    /\ callbacks' = callbacks \ {r.callback}
    /\ End(h)
    /\ UNCHANGED <<link, charged>>

---------------------------------------------------------------------------
(* PayWithCardView, which in mock mode takes the money on the spot *)

CardRead(h, o) ==
    /\ Payable(o)
    /\ Begin(h, [kind |-> "card", order |-> o, callback |-> Null])
    /\ UNCHANGED <<payment, link, charged, callbacks>>

CardWrite(h) ==
    /\ req[h].kind = "card"
    /\ payment' = [payment EXCEPT ![req[h].order] = [status |-> "PAID", tx |-> CardTx]]
    /\ End(h)
    /\ UNCHANGED <<link, charged, callbacks>>

---------------------------------------------------------------------------

Init ==
    /\ payment = [o \in OrderIds |-> [status |-> "UNPAID", tx |-> Null]]
    /\ link = [x \in LinkIds |-> Null]
    /\ charged = {}
    /\ callbacks = {}
    /\ req = [h \in Handlers |-> Idle]

Finish(h) == PayLinkWrite(h) \/ WebhookWrite(h) \/ CardWrite(h)

Next ==
    \/ \E h \in Handlers :
           \/ \E o \in OrderIds : PayLinkRead(h, o) \/ CardRead(h, o)
           \/ \E cb \in Callback : WebhookRead(h, cb)
           \/ Finish(h)
    \/ \E x \in LinkIds, s \in Outcome : ProviderReports(x, s)

Spec == Init /\ [][Next]_vars

\* The server finishes what it has begun, and a provider that keeps repeating
\* a report gets through, whatever else is served meanwhile.  Nothing is
\* assumed of buyers, nor that a provider reports anything.
Fairness ==
    /\ \A h \in Handlers : WF_vars(Finish(h))
    /\ \A cb \in Callback : SF_vars(\E h \in Handlers : WebhookRead(h, cb))

FairSpec == Spec /\ Fairness

---------------------------------------------------------------------------
(* Properties *)

TypeOK ==
    /\ payment \in [OrderIds -> PaymentRow]
    /\ link \in [LinkIds -> OrderIds \cup {Null}]
    /\ charged \subseteq LinkIds
    /\ callbacks \subseteq Callback
    /\ req \in [Handlers -> Request]

\* Nobody's order counts as paid for free or on another order's money: behind
\* PAID there is a card payment of it, or a page made for it and paid on,
\* though not always the page the row names.
PaidWasCharged ==
    \A o \in OrderIds : payment[o].status = "PAID" =>
        payment[o].tx = CardTx \/ \E x \in charged : link[x] = o

\* When the provider is told 200 for a payment, that payment's order is PAID:
\* no callback is swallowed by the test for replays.
AnsweredPaymentsAreRecorded ==
    [][\A x \in LinkIds :
           LET cb == [tx |-> x, status |-> "PAID"] IN
           cb \in callbacks /\ cb \notin callbacks'
               => payment'[link[x]].status = "PAID"]_vars

\* Once an order is paid and no request about it is in flight, it is paid for
\* good, with the same transaction: neither a new link, a replay, nor a late
\* FAILED can undo it.  (With a request in flight it can; see PaidStaysPaid.)
PaidAndQuiet(o) == payment[o].status = "PAID" /\ ~Busy(o)

PaidAndQuietIsFinal ==
    [][\A o \in OrderIds : PaidAndQuiet(o) =>
           PaidAndQuiet(o)' /\ payment'[o].tx = payment[o].tx]_vars

\* Every report of the provider is answered in the end, unless the order has
\* since moved to another transaction.
AnsweredOrSuperseded ==
    \A cb \in Callback :
        cb \in callbacks ~>
            \/ cb \notin callbacks
            \/ \A o \in OrderIds : payment[o].tx # cb.tx

---------------------------------------------------------------------------
(* What the repository says and the code does not do *)

\* payments/views.py on the webhook: "Once PAID, stay PAID".
PaidStaysPaid ==
    [][\A o \in OrderIds : payment[o].status = "PAID" => payment'[o].status = "PAID"]_vars
=============================================================================
