# goshtli in TLA+

Goshtli is a marketplace for meat and livestock: suppliers list stock, buyers
order and pay, qassobs (butchers) claim the jobs that need cutting, couriers
bring the goods, and operators move everything along. This directory specifies
the Django backend's behaviour over time in TLA+, checks it with TLC on small
instances, and proves with TLAPS, for instances of any size, what matters most.

The question behind every module is the same one. Every request is a short
sequential program on shared database rows. Some lock the rows they read and
most do not. What do the rows promise when requests overlap, are retried, die
half way, or arrive in an order that nobody wrote a test for?

## 1. The system

### Components

| Component | State | Operations | Where it gets hard | What makes it correct |
|---|---|---|---|---|
| Order service layer (`orders/services.py`, `orders/views.py`, `orders/admin.py`) | `Listing.quantity_kg`, `Listing.status`, `Order` rows | place, cancel (buyer, operator), operator transitions, bulk admin actions | two buyers and one stock; returning stock once; the two status flips at zero | stock conserved, terminal orders final, listing orderable exactly while it has stock |
| Partner endpoints (`partner/views.py`) | `Order.assigned_qassob`, `qassob_payout` | accept, reject, advance, claim; inbox, dashboard, calendar | many qassobs, one job; status lists kept by hand | one winner, frozen payout, no order on nobody's board |
| Couriers and dispatch (`couriers/`) | `Delivery` rows, `is_online`, vehicles | dispatch signal, courier status, proof photo, buyer's confirmation, toggle, profile | unlocked reads, full-row saves, a signal on a save | nothing completes without dispatch, pay follows delivery, jobs go to who wants them |
| Catalog edits (`listings/views.py`) | `Listing` rows | PATCH, soft or hard DELETE | a copy outdated by orders; three-step DELETE | orders keep their listing; archived listings stay off sale |
| Price history (`listings/signals.py`) | `PriceHistory` | a row per price change | the old price is read before the save | entries form a chain |
| Listing photos (`listings/tasks.py`) | `ListingPhoto` rows, files in object storage | upload, delete, the resize task | a retried task that deletes before it stores | a photo shows its own picture, a file that nobody names has a known cause |
| Photo strips (`listings/`, `qassobs/`) | positions | upload, reorder, delete | the next position is read, then written | uploads go to the end |
| Payments (`payments/`) | `payment_status`, `provider_tx_id` | pay link, webhook, card payment | duplicate, late and reordered callbacks; overlapping requests | paid means charged; answered means recorded; paid is final |
| Saved cards and addresses (`payments/cards.py`, `buyers/`) | the `is_default` flags | add, edit, delete, make default | "one default" with two statements | one default address after any save that nothing overtook; a default card unless one of four mishaps took it |
| Telegram verification (`telegram_auth/`) | sessions, codes, attempts, time | start, contact, verify | four limits, tested on unlocked copies | single use; a fresh code works; a live one is not taken away |
| Accounts and roles (`accounts/`) | phone, email, role, password | register, log in, provision, PATCH, DELETE | two unique columns that move apart; full-row saves | credentials handed out open their account |
| Profiles and KYC (`qassobs/`, `suppliers/`, `accounts/kyc.py`) | `is_verified`, `is_open_now`, documents | upload, review, toggle, PATCH | five writers of one flag, two isolation regimes | a decision is undone by no step but three overlaps |
| Chats (`chats/`) | messages, read marks, sockets, mailboxes | connect, send, read; HTTP beside it | suspended at every await; history and live stream meet | every message on every screen, ticks true |
| Notifications (`notifications/`) | `Notification` rows | a row per status change | the old status is looked up outside any lock | the buyer was told the status that stands |
| Markets (`markets/`) | `Market` rows and their accounts | create, link, PATCH, archive, Django admin | three commits that belong together | a market has its supplier |
| Reviews, favorites, delivery quote, Flutter clients | rows of their own; screens | create, read, delete | little over time | - |

### How they interact

The database is the only shared state. A placed order takes stock from a
listing in the same transaction. A saved order whose status has *become*
`IN_TRANSIT` triggers the couriers' `post_save` signal in that transaction, and
the signal creates the delivery. The courier's `DELIVERED` writes to the order,
and the buyer's confirmation closes it; each save of an order also runs the
signals that write notices. Catalog edits write the same listing rows as orders
do, and each save of a listing runs the price log's signals. Payments use other
columns of the order and save only those (`update_fields`), so they do not meet
fulfilment in any column; the payment provider talks to them over an unreliable
channel. Boards (inbox, dashboards, queues) keep nothing and read all of it.
Accounts, profiles, Telegram sessions, the wallet and markets have rows of their
own, and meet the others only in who may take which action. Pushes go out after
saves and nothing waits for them.

### The concurrency the models assume

PostgreSQL under READ COMMITTED, with Django's autocommit: `ATOMIC_REQUESTS` is
not set, so each SELECT and UPDATE outside `transaction.atomic()` is its own
transaction. Four shapes of handler follow:

* `services.py` and the qassob's claim run in `transaction.atomic()` and take
  every row they test with `select_for_update()`. Nothing that takes the same
  locks comes between test and write, so each is **one action**.
* A handler that tests an unlocked copy and writes from it later is **a Read
  step and a Write step**, with the copy kept in a variable in between. A Write
  changes the columns the code saves: one column for
  `save(update_fields=...)`, the whole row for a bare `save()`; and a bare
  `save()` of a row that is gone inserts it again.
* A handler of several statements, or of storage and rows, is **one step per
  statement**, and may stop after each where the code can fail there and what it
  leaves half done matters to a property (`UploadFails`, `CardRequestDies`,
  `RequestDies`, `EditDies`, `TaskFails`, `Dies`, `Crash`).
* A WebSocket consumer is **one step per await**; group events wait in its
  mailbox meanwhile.

A refused request (4xx) changes nothing and is no step.

## 2. The modules

```
   StockLedger <--refines-- Orders <--extends-- Fulfilment     Payments   Chat
                              ^
                              +----extends-- Catalog           Photos  Gallery  PriceLog
                              +----extends-- Boards            Wallet  Notices  Markets
                                                               Accounts  Telegram
                                                               Profiles  Dispatch
```

**`Orders`**, the service layer. `listing`, `order` and `delivery` are the three
tables, each a function from ids to rows; `NoOrder` and `NoDelivery` stand for
rows not yet inserted. `SupplierTransitions` is the table of the same name as a
set of edges. `CreateOrder`, `CancelOrder`, `TransitionOrderStatus` and
`ClaimOrder` are the service functions; `AcceptOrder`, `RejectOrder`,
`BuyerCancels`, `AdvanceStatus`, `BulkTransition` the endpoints and admin
actions that call them; `AutoAssignDelivery` is the signal and a conjunct of the
step that saves the order. Who the buyer is, prices and addresses are left out
because nothing modelled reads them.

**`StockLedger`**, the abstract specification of stock: a reservation takes free
kilograms once and either keeps them or gives all of them back once. `Orders`
implements it under the mapping in `Orders!Ledger`: the order is the
reservation, and cancellation is its return.

**`Fulfilment`** extends `Orders` with `req`, the requests in flight.
`ConfirmRead`/`ConfirmWrite` are the buyer's confirmation and
`CourierRead`/`CourierWrite` the courier's status endpoint, whose write takes a
transaction for the order and the delivery but tests nothing again.
`Stored(r)` is the full-row save of a snapshot. `UploadProof` writes one column.

**`Catalog`** extends `Orders` with `edit`, the catalog requests in flight, and
`gone`, the deleted rows. `PatchRead`/`PatchWrite` are PATCH; `DestroyCount`,
`DestroyDecide` and `DestroyArchive` or `DestroyDelete` are the three queries of
`perform_destroy`. The foreign key's PROTECT makes a deletion fail.

**`Boards`** extends `Orders` with operators and no variable: the operator's and
the qassob's inbox with its page of fifty, the dashboards' counts, the calendar,
the courier's queue and earnings, the tiles of buyers and suppliers. Sums of
money are the sets of rows summed.

**`Payments`** stands beside `Orders`, for it shares no column with it. `payment`
is the order's payment columns, `link` the provider's checkout pages, `charged`
the pages on which the buyer paid, `callbacks` the reports not yet answered with
2xx, `req` the requests in flight. The provider is external; we take from it
only what `WebhookView`'s docstring relies on: it reports any outcome of a page,
any number of times, late or not at all, and repeats a report until it gets a
2xx. With `MockProvider`, the default, a saved-card payment is immediate.

**`Dispatch`** is `_pick_courier`: online couriers, those with the right vehicle,
the least loaded, the supplier who delivers himself, the administrator as a stub
when nobody is there. The signal's query and its insert are two steps
(`Pick`, `CreateDelivery`), between which couriers toggle `is_online`
(`Availability`, one column) and PATCH their profile (`MeLoad`/`MeSave`, all
columns). `wish` remembers what a courier last asked for.

**`Notices`** is the pair of signals around `Order.save`, with the status the
order has, the delivery's state as far as the tests need it, and the notices in
the order in which they are written. Service steps are atomic; the confirmation
tests, tracks, saves and tells in separate steps, and may die after each; the
courier's `DELIVERED` saves and tells in one transaction.

**`Photos`** is the life of a listing's files: `UploadName`, `UploadStores` and
`UploadInserts` (storage finds a free name, only later is the name taken, and later
still there is a row; `UploadFails` stops in between), `RemovalRead`/`File`/`Row`,
the rows that go without that endpoint (`RowCascades`), and the Celery task from
`TaskGet` to `TaskSaves`, which may fail, be retried or be killed at any step. A
file's content is the photo whose picture it is. **`Gallery`** is the order of a
strip, under the two codes for the next position and the qassob's reordering.
**`PriceLog`** is `_capture_old_price` and `_log_price_change` around the three
saves of an existing listing (Django Admin's form makes a fourth, in a transaction,
so with fewer interleavings than PATCH); a request that dies before the entry is
`EditDies`.

**`Wallet`** holds the default card, kept unique by a partial index, and the
default address, kept unique by `SavedAddress.save()` alone; one step per
statement. **`Markets`** is the creation of a market, its account and the link, in
three commits of which a dead worker leaves one or two (`Dies`), and the other
requests that write `owner_user`.

**`Telegram`** is the life of one phone number in the bot: `StartSweeps`/
`StartCreates`, `ContactRead`/`ContactWrite`, `VerifyRead`/`VerifyWrite` and `Tick`.
Time is an integer clock, and the code's limits are constants in their real order.
Codes are numbered as they are asked for; `entered` remembers whether anything was
entered since the last one was, `crossed` whether it was written over a
verification. **`Accounts`** is the user table with its two unique columns, the
logins as operators over it, and the requests that write it; `handed` remembers the
credentials that were handed to a partner. **`Profiles`** is one partner's profile
and the two required documents, with Django Admin's change form as a transaction (a
lock on its document, a query that sees what others have committed) and its list
action as separate commits. The signal they run is three statements, `SignalFinds`,
`SignalReads` and `SignalFlips`; a form's update of the flag is part of
`FormCommits`. `due` remembers what was decided last.

**`Chat`** is one conversation. `socket[s]` says at which await the consumer of `s`
is suspended, `mailbox[s]` holds the group's events it has not handled,
`screen[s]` what its client was sent. `Connect`, `SendHistory`, `ReadInbound`,
`MarkInbound`, `BroadcastRead` are `connect`; `Persist`, `BroadcastMessage`,
`Notify` are `receive_json`; `HttpPost` and `HttpGet` the endpoints beside it,
which broadcast nothing. A worker may crash at any await.

`MCOrders`, `MCFulfilment`, `MCCatalog`, `MCPayments` (one order) and `MCChat` give
the constants their values for TLC. `MCShop` and `MCPeople` do it for several
modules that share no state, `Payments` with two orders among them: `part` chooses
one, and the others stay in their initial state, so that the state spaces add up
instead of multiplying. The theorems are in eight modules: `OrdersProofs`,
`CatalogProofs`, `PaymentsProofs` and `ChatProofs` about the module each is named
after, `FulfilmentProofs` about `Fulfilment` and `Boards`, `ListingProofs` about
`PriceLog`, `Gallery` and `Photos`, `ShopProofs` about `Wallet`, `Notices`,
`Dispatch` and `Markets`, `PeopleProofs` about `Telegram`, `Accounts` and
`Profiles`.

## 3. What TLC checks

### Runs that pass

**`orders`** (`MCOrders.cfg`). The locked service layer does what it claims:
`StockConserved` (shelf plus live orders is always the supply),
`OrderableIffInStock`, `DispatchedOrdersHaveDelivery`, `ClaimedJobsLeftThePool`,
`TerminalIsFinal`, `ClaimIsFrozen`, and the refinement `ImplementsLedger`.
`BoardsMissNothing` adds what the screens make of it: every order is in exactly
one bucket of the operators' inbox and on its page unless enough newer ones push
it off, the dashboard's number of new orders is the inbox's, and the lists kept
by hand leave out only states that the property names.
*Bounds:* two listings, by weight (supply 4, minimum 2) and by the head (supply
2); three orders of 1 or 2; two qassobs; a page of one order instead of fifty.
Both listings can be drained exactly, by one order or two, and refilled; the
minimum refuses; a third order competes for returned stock and for the page; two
qassobs race for a job. More orders only repeat what three do: every property is
about one order, or about one listing's sum, in which one live, one returned and
one new order are the cases.

**`race`** (`MCFulfilment.cfg`). Two orders compete for all the stock of one
listing while two unlocked requests are in flight. Some things hold in spite of
every overlap: `CompletedWasDispatched`, `PaidIffDelivered`,
`CancelledBeforeDispatchStays`, `SettledIsFinal`, and `BoardsAgree`: what an
operator sees of an order and what the courier sees of its delivery fit together.
Others do not, and there the run pins down the only steps that undo them:
`OnlyStaleCopiesUndo` (a terminal delivery or a proof photo is lost to nothing
but the save of an outdated copy) and `OnlyRevivalBreaksTheBooks` (stock and
orders stop adding up in one kind of step, a cancelled order leaving
`CANCELLED`; the diagnosis of the run `oversell`). *Bounds:* a stale write needs
the request that is stale and one that overtakes it, so two handlers; the
service layer and uploads need none. A revival does harm with one order revived
and one that bought its stock. Nobody claims butcher jobs here (`NoQassobs`),
since no step of `Fulfilment` reads the claim; `orders` covers it.

**`catalog`** (`MCCatalog.cfg`). `OrdersKeepTheirListing` across the three-step
DELETE, `OrdersDoNotUnarchive`, and `OnlyPatchBreaksTheBooks`: only a PATCH that
writes another quantity than the row holds disturbs the books. *Bounds:* two
editors, so PATCH and DELETE overlap each other as well as two orders; an editor
may type the quantity 1, less than the supply, or none.

**`callbacks`** (`MCCallbacks.cfg`). Liveness, `AnsweredOrSuperseded`: a report
is answered in the end, or its order has moved to another transaction. One
order, two links, two handlers, no symmetry. The safety properties of `Payments` are in
`shop`, with two orders.

**`chat`** (`MCChat.cfg`). `NoGapAfterHistory`: joining the group before reading the
history leaves no hole between the two; `TicksAreTrue`: nobody is told of a read
that the row does not have, although the ids announced and the rows updated come
from two queries; `SentMessagesArrive`, liveness under the event loop's fairness,
with the one excuse the code has, a worker that dies between saving a message
and broadcasting it. Deadlock is checked: sockets may always close and open.
*Bounds:* one socket of each user, two messages, one crash, and a history of one
message instead of fifty, so that messages do fall out of it.

**`shop`** (`MCShop.cfg`), nine parts; 3.4 million states.
* *photos*: `PhotosShowTheirOwn` (a row shows its own picture; none only while
  its own task or its own deletion is between two steps, or its task failed
  there) and `LeaksAreExplained`: a file without a row is left over from an upload
  between storage and row, or that failed there; from a row that went with its
  listing or from the admin; from a task that is between storage and row, or
  failed; from a deletion that had read another name; or its name was given twice.
  Two uploads, two retries, three suffixes: names collide, tasks start over after
  the original is gone. That a photo's order survives two equal positions
  (`first() or -1`) is in *strip*; that they are equal is no violation of it.
* *strip*: `UploadsGoLast`, whatever was deleted or reordered before, for any
  upload that nothing overtook. Four photos, two requests; reorderings of up to
  three ids, one of them repeated.
* *prices*: `HistoryIsAChain` as long as no price was changed under another
  request and no request died between its save and its entry. Three prices, three
  saves, two at a time.
* *cards*: `OnlyMishapsLoseTheDefault`. The index refuses a second default; what no
  index keeps is that there is one. It is lost in four kinds of step: the user
  deletes the default card; a request dies after clearing the old default and
  before creating the new card (`payments/cards.py:134`); a promotion trusts its
  outdated copy, which said that the card was the default; a card added as one
  more turns out to be the only one. Every other order of statements, with the
  index's refusals, keeps it. *addresses*:
  `DefaultAddressHeals`: whatever overlapping saves have left, the next save of a
  default that nothing overtakes leaves one default. Three rows, two phones: one
  more row than two requests can fight over.
* *notices*: `StandingStatusWasTold`, with three overlapping requests, which is
  what it takes for a notice to be told late twice, and room for nine notices. A
  confirmation that dies between its save and its notice leaves `DELIVERED` untold
  (`untold`), and nothing else does. It need not be the newest
  notice: a courier's `DELIVERED` that has looked the status up before a
  cancellation puts the order back after it, and says so only if the status it
  had found was another.
* *markets*: `OnlyMishapsOrphan` lists every way in which a market ends without
  the supplier it needs, so that deleting and recreating one is none of them.
  Two markets, two slugs of one name, two admin requests, one seller.
* *dispatch*: `NewJobsFollowWishes`. Two couriers, three jobs one of which the
  supplier delivers, two dispatches at once.
* *payments*: `PaidWasCharged`, `AnsweredPaymentsAreRecorded` and
  `PaidAndQuietIsFinal`. Two orders, two pay links, two overlapping requests, any
  callbacks: two links can be of one order (one replaces the other) or of two (a
  callback could hit the wrong one). `PaidAndQuietIsFinal` says that the tests for
  PAID suffice when nothing is in flight; the overlaps are the run `paid_undone`.

**`people`** (`MCPeople.cfg`), three parts; 3.9 million states.
* *accounts*: `HandedCredentialsWork`. Two users, two numbers, two passwords, one
  provisioned role beside the courier's, two requests: a provisioning overtaken by
  a PATCH, an email-based one over a phone-based one, a number that moves.
* *telegram*: `SpentCodesStaySpent`, `LiveCodesAreLostForAReason` and
  `FreshCodesWork`: from the contact until something is entered, time is over or the
  session is swept, the last code sent is acceptable with all its attempts, unless
  `crossed`: a verification of the same row was under way or done when it was
  written. Both halves of that exception are needed; the first is the run
  `burned_code`. Two sessions, three codes, two requests, five ticks, limits
  1 < 2 < 3 < 4 in the order of the real 60 s < 120 s < 15 min < 1 h, two attempts,
  two sends: each limit is reached and passed.
* *profiles*: `OnlyOverlapsUndoDecisions`. What buyers see stops being what was
  decided last in three kinds of step only: a PATCH saves back a value that it did
  not post and that has changed since; the signal of an approval, having found the
  profile unverified, sets the flag after an administrator has taken it away; a
  change form commits what a write since its queries has overtaken (two forms that
  miss each other's documents are one case). TLC refutes the property without any
  one of them. Both kinds of partner, both documents, two reviewers and one PATCH.

Symmetry is used among qassobs, handlers, editors, numbers and servers, and only in
runs without liveness; no definition tells the members of
these sets apart. `CHECK_DEADLOCK FALSE` everywhere but in `chat`, because the
system may stop: when all orders are terminal, the bounded supply of rows is used
up, and nobody has a request in flight, there is nothing left to do.

### Runs that find a disagreement

Each checks one sentence of the repository, which the code does not keep. The
counterexample is short and is the story told here.

| Run | Property | The sentence | What happens |
|---|---|---|---|
| `oversell` | `NoOversell` | `orders/services.py:3`: "concurrent order placements can't oversell stock" | cancelled in transit, its kilograms sold to another buyer, then the courier posts `DELIVERED`: alive again |
| `destroy_active` | `DestroyRefusesActiveOrders` | `listings/views.py:127`: "Any NON-terminal order → 400" | an order awaiting the buyer's confirmation is not counted |
| `paid_undone` | `PaidStaysPaid` | `payments/views.py:94`: "Once PAID, stay PAID" | a link or `FAILED` request that read before writes after |
| `stranded_phone` | `EveryPhoneCanRegister` | `accounts/managers.py:49`: the email is "guaranteed unique because phone is unique" | PATCH moves the phone and leaves the email; the old number is free and cannot register |
| `burned_code` | `AttemptsAreAgainstTheCode` | `telegram_auth/models.py:34`: "wrong verify attempts against code_hash" | a verification reads the row, a second contact puts a fresh code there, and the wrong entry of the old code is counted on it |

`oversell` and `stranded_phone` need no overlap of requests at all, only ordinary
calls in an unlucky order.

Reading the code beside its comments showed more differences, which the models
contain but no run singles out:

* The operator's edge `AWAITING_QASSOB` to `PROCESSING_BUTCHER`
  (`orders/services.py:47`) goes round the claim that stamps a qassob and a payout.
* A refund of a paid order is answered as a replay and recorded nowhere
  (`payments/views.py:96`), and the callback of a page that a newer link replaced
  gets 404 for ever, even when the buyer paid there (`payments/views.py:89`).
  `payments/views.py:30` says a pending attempt keeps its transaction id, and
  `PayLinkWrite` gives every link a new one, which is how pages are orphaned.
* `couriers/models.py:107` says the payout is snapshotted at assignment;
  `CourierWrite` computes it on delivery.
* A listing's PATCH resets `available_from` and `location` when they are not
  posted (`listings/serializers.py:138`), and `_actor`, which the price log records
  as the editor, is set only by Django Admin (`listings/admin.py:138`): a price
  changed through the API is logged without its editor.
* The cap "per rolling hour" (`telegram_auth/otp.py:28`) counts rows, and a resend
  reuses its row; the cooldown is "to the same phone", and kept on the session.
* A qassob's profile made by the first request to `/me` is verified
  (`qassobs/views.py:43`), though `qassobs/models.py:3` makes that the result of a
  review; and a rejected or replaced document does not take the flag away.
* `orders/models.py:118` places a 60 second reservation for the preferred qassob in
  the service layer, which has none.
* An order awaiting the buyer is in no bucket of the qassob who did the work, and
  on no tile of buyer or supplier; a qassob's number of open orders ignores the
  filter that his inbox applies.

### Fairness

Two modules have liveness properties. `Payments`' `FairSpec` assumes weak
fairness of every handler's `Finish` (a request whose read is done is a running
Python function: it goes on to its write) and strong fairness of each callback's
`WebhookRead` (the provider repeats an unanswered report, so it arrives again
whenever handlers are free infinitely often; weak fairness would let other
requests keep every handler busy at each attempt). Nothing is assumed of buyers,
or that the provider reports anything. `Chat`'s `CFairSpec` assumes weak fairness
of each consumer's `Proceed` and `HandleEvent`: the event loop finishes the
handlers it has begun and delivers what is in a mailbox. Clients, crashes and the
HTTP endpoints are not fair. Everywhere else a step forward is somebody's
decision, which no code forces, so we claim no liveness there.

### Mutants

Definitions named `X_Something`, just above `X`, are plausible mistakes: a test
dropped, a column forgotten, a save of the wrong fields. With `X_Something` in
the place of `X`, TLC finds the property listed with it in `PROJECT.json`
violated; each property of the passing runs has one, so none of them is true of
just any code.

## 4. What is proved

TLAPS checks the theorems for any sets of listings, orders, qassobs, handlers,
editors, links, sessions, sockets, phones, requests, photos, couriers, markets, users
and reviewers, and any limits, under the assumptions named in the modules: quantities are
positive naturals, fees and prices naturals, the initial supply is positive, limits are positive, jobs
are finitely many, ids differ from `Null`, the users of a chat from "none". For each
module an inductive invariant is proved first, one step per action, and the rest follows
from it. Every safety property of section 3 that holds, invariant or action property, and the
refinement, is stated by a theorem.

**`OrdersProofs`.** `TypeCorrect`; `DispatchIsComplete`, `ClaimsLeaveThePool`,
`TerminalOrdersStay`, `ClaimsAreFrozen`, `OrderableStaysInStock` from an
invariant `LifecycleInv` which relates status, claim and delivery of each order;
`StockIsConserved`; and `OrdersImplementLedger`, the refinement. Conservation is
the interesting one. A sum over the orders would be recursive, so
`StockConserved` says instead that a *running total* exists: a function from
0 to `MaxOrders` that starts at 0, grows by what each order holds, stays within
the supply and ends with the shelf completing it. An order's step changes the
total from its id onwards by one amount, so the new running total is the old one
shifted from there. That it stays within its bounds needs monotonicity of running
totals, an induction over order ids, which is done by least counterexample
(`LeastNatural`), as a least element exists for every non-empty set of naturals.

**`FulfilmentProofs`.** The invariant `FInv` adds to the types what a request in
flight may still believe about its row (`InFlightInv`): a courier's request
names an order with a delivery, and a confirmation names one that has been
dispatched. This is exactly why stale writes cannot complete an order that never
left: `CompletionNeedsDispatch`, `PayFollowsDelivery`, `EarlyCancellationStays`.
A request also only moves along an edge of the courier's state machine, seen
from its copy; so a write that leaves a terminal row has an outdated copy, which
is `OnlyStaleCopiesUndoDeliveries`. `SettledOrdersStay` is about the end of an
order's life, and `OnlyRevivalLosesStock` reuses the stock lemmas of
`OrdersProofs`.

The boards' two properties need two facts each. `BoardsAreComplete`: every status of an
order is in exactly one list of the inbox, or is one that the property names, which is a
case split once `LifecycleInv` says what else a status implies; and an order that is not
on the page has a page of newer ones before it, which is about cardinalities of ids.
`BoardsOfAllAgree` needs `DispatchIsBehind`: whatever overlaps, an order with a delivery
never returns to where dispatch is still to come, and one whose delivery is `DELIVERED`
has arrived or is over.

**`CatalogProofs`.** `CInv` consists of the types, `QuantityInv` (placed orders hold a
positive quantity) and `OrdersKeepTheirListing`, itself inductive because PROTECT is
tested when the row is deleted and not when DELETE decides. From it come
`ListingsOutliveTheirOrders`, `ArchivedStaysOffSale` and `OnlyPatchLosesStock`.

**`PaymentsProofs`.** `PaidWasCharged` is not inductive: a webhook in flight
carries a report about a page, and the row it will write was found by that
page's id some time ago. `IInv` adds that rows name pages made for them
(`RowsNameTheirPages`), that what is reported as paid was paid (`ReportsAreTrue`),
and that a webhook in flight is about its order's page (`WebhooksAreTrue`). Then
`PaidOrdersWereCharged`, `AnsweredMeansRecorded` and `QuietPaymentsAreFinal`.

**`ChatProofs`.** `HandlersAreTrue` says what stays true of the ids a consumer carries
from one await to the next: those it is marking were inbound, those it announces
are read, those it broadcasts exist. It holds across other consumers' steps because
rows only grow (`Grows`). `TicksCanBeTrusted` follows. For `HistoryAndEventsMeet`,
a broadcast reaches the mailbox of everyone who has joined
(`GroupSendEffect`), an event leaves it only for the screen (`HoldsHeadTail`), and a
message once out of the history's reach stays there (`OutsideStays`, by
monotonicity of cardinality).

**`ListingProofs`.** `HistoryIsAChain` says what the log's last entry is, but the next
entry is written from what two signals have read. `PriceInv` adds, as long as nothing was
overtaken and no entry lost, that every copy in hand has the row's price (`CopiesAreCurrent`) and that at
most one change has yet to be logged (`OnePending`): `HistoryStaysAChain`.
`UploadsLandLast` needs two facts of `StripInv`: ids and insertions go in one order
(`KeysInOrder`), and a request not overtaken holds a position that no photo exceeds
(`NextIsHighest`). The two codes compute that position differently, and that the
largest of finitely many exists is `MaxIsGreatest`.

The files are the hardest part, as nothing is atomic there. `FilesInv` is a conjunction over
photos: how far upload, deletion and task can be, one with another (`InStep`); what storage
holds under a photo's names if they are its own (`OwnPicture`); which names it was told, if its
task was never started over (`NamesKnown`); and under which of them nothing is stored,
because it is still to be written or was deleted (`EmptyNames`). A step of one photo
touches no name that was given to it alone of another (`OthersStayTidy`), so each of its
steps is shown to keep its own four facts only. `PhotosKeepTheirOwn` and
`LeaksAreAccountedFor` follow. In the model storage gives a free name if there is one:
`Nameable` bounds the suffixes instead of inventing one.

**`ShopProofs`.** `DefaultIsLostOnlySo` is about the step after which a user with cards
has no default and no request is about to make one (`Between`). `CardInv` is little more
than types; the weight is in the steps. Clearing leaves the request that cleared between
its statements; creating ends with a default unless the card was added as one more, and
then somebody else's default, or somebody else between statements, was there before
(`AnotherPends`) or there was no card at all. So what remains is what the property lists,
a death between the two statements among it. For addresses,
`AddressInv` says that a request which has cleared the others, and which no save has
overtaken, will find no default but its own: `DefaultsHeal`.

A request that finds its own status stored tells nothing; so
`ConfirmationWillTell` says that once `DELIVERED` was saved the buyer has been told, or
the confirmation which saved it over another status is still to tell or died before it
could, and
`TrackedWasTold` that whoever found the courier's status found it told:
`BuyerKnowsTheStatus`, for any number of overlapping requests.

`JobsFollowWishes` is about a query's result that may be outdated when it is used.
`DispatchInv` says of every courier shown online, and of every one picked and not yet
given the job, that they wished for work, or what came in between (`OnlineWasWished`,
`PicksFollowWishes`). That whoever is least loaded comes from the pool
(`FirstIsInThePool`) needs the counts to have a minimum, hence the finiteness of jobs.

`MarketsKeepTheirSupplier` needs little of the past: the types, and that a market
without a supplier is excused while a POST is about to link one. Its proof is about each
step that removes the supplier or the excuse, and `Explained` names the mishap.

**`PeopleProofs`.** What a request holds decides what becomes of a row, so `CodesInv`
says of a code about to be written that it was on no row before (`NewInHand`), and
of a code being compared that it is on no row but the one it was read from
(`ComparedOnItsRow`, which needs `OneRowPerCode`). Then a spent code sits
on a consumed row at most (`SpentIsConsumed`): `CodesAreSingleUse`. The same invariant
gives `CodesAreLostForAReason`, one lemma per step that can end a code's life.

`SentCodesWork` covers the whole time from the contact to the first entry. `FreshInv` adds
that codes are asked for in order (`AskedInOrder`), so that there is one newest code and a
step that is not a contact's does not change which it is (`SameNewest`), and that as long as
nothing was entered or crossed, the row with the newest code is `Untouched`: its code is
sent, unconsumed, without attempts, and no verification under way has read it. So a
`VerifyWrite` in that time is of another row, and `ContactWrite` either writes an
older code or makes the row untouched again.

For `CredentialsKeepWorking`, `SavesAreSound` says what a loaded user row is when it is saved:
its role and password are still the row's unless it was overtaken, and a save that hands a
password out saves a partner. With the unique phone (`OnePhoneEach`), each
write either keeps the one account that some handed credentials open, or takes the number
away from them, which is where `handed` forgets them.

`DecisionsAreUndoneOnlySo` compares the flags with the last decisions in each step.
Its invariant, `ProfilesInv`, is types and that a PATCH holds a copy of a row that exists. The rest is said
of steps
(`StepIsSound`). A step that decides sets flag and decision alike, or leaves an approval's
signal `Pending`, which may end only by setting the flag (`PendingStays`). A step that
writes without deciding is one of three: for `PatchSave`, a value not posted is the row's or
the overlap; for `SignalFlips`, the decision was taken away or the flag is due; for
`FormCommits`, the signal's queries are still true when it commits, or `Missed` says that
they are not. It holds for any number of reviewers and PATCH requests.

Only model-checked: the two liveness properties, `AnsweredOrSuperseded` and
`SentMessagesArrive`, because the prover does not reason about fairness and ENABLED; and
the five violations, whose counterexamples are TLC's.

## 5. What is not modelled

* Most forms of Django Admin. Those of an order, which by its own comment bypasses the
  guards of the service layer, of users, listings, deliveries, couriers and profiles, and of
  photos, are not modelled, though they write modelled columns; the orders' bulk actions,
  the profiles' list actions, the review of documents and the admin of markets are. A
  listing's form (`listings/admin.py`) saves every column of the row it loaded, as PATCH
  does, and breaks the books in the same way; a profile's form is a PATCH that posts
  `is_verified`. Replacing the image in a photo's form leaves the old file in storage,
  which is one more leak than `LeaksAreExplained` lists.
* The preferred qassob: the service layer stores it and nothing reads it.
* Sums of money in the dashboards, the income export and the courier's series,
  beyond which rows are summed. (The courier's total includes today, his series
  omits it; the operator's revenue counts orders that were paid and cancelled.)
* The prices a client sends with an order for delivery and butcher, which the
  server does not recompute; the delivery quote, a formula on distances.
* A listing's creation, categories, search; a conversation's opening and the
  unread totals; the channel layer's capacity, above which it drops events.
* Reviews, one row per delivered order under a one-to-one key, and favorites, a
  set of pairs under a unique constraint: a row that is added once and removed has
  no behaviour over time. `rating_avg` of a qassob, which a comment says a signal
  keeps, has no code.
* Push delivery and device tokens (best effort, nobody waits for them); JWTs, the
  verification of Firebase tokens and of signatures, the hashing of codes; Payme's
  library; the pixels of photos.
* The Flutter clients, whose every request the models let come at any time.
* Client-facing details everywhere: serializers' formats, messages, languages.

`PROJECT.json` lists with each hazard the properties about it, or why there is
none.

## 6. Plan

The suite is kept to a dozen runs or so, few enough to be all repeated at every change.
Every safety property is proved. What remains, in the order of what is at stake:

1. To say what the diagnoses leave open: which of the exceptions in
   `OnlyOverlapsUndoDecisions`, `FreshCodesWork`, `OnlyMishapsLoseTheDefault`,
   `OnlyMishapsOrphan` and `LeaksAreExplained` the code should lose, and to
   strengthen property and proof with each repair.
2. Abstract specifications of other components, as `StockLedger` is of the orders': the
   receipt that a payment amounts to, the single-use code of a phone, with the proofs that
   `Payments` and `Telegram` implement them.

Of the code, what could still become a module is the composition of cancellation
and payment (a cancelled order can be paid), once the repository says what is to
happen then, and the unread totals of chats.
