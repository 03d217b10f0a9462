# TLA+ models of the local business platform

The repository is a multi-tenant platform for local businesses: a NestJS API
(`platform/apps/api`), a worker, three web applications and shared packages.
This directory holds TLA+ modules for the core logic of the API and for the
customer's checkout, TLC configurations that check them on small instances, and
TLAPS proofs.

The API keeps its state in in-memory repositories and runs on one JavaScript
thread. A service method runs without interruption except at an `await`, so
**an action is a stretch of code between two awaits**. Awaits that matter are
those on a partner: the payment provider's adapter (payments, connections), the
adapter of a notification channel, the scanner of an upload, and, in the
browser, the API. Everywhere else what goes stale is what a *caller* holds from
an earlier call: the slots on a booking page, the quote a customer reads, the
copy of the cart on the checkout page, the contract of a subscriber. The worker
is a bootstrap and a contract; where a service hands it work and takes its
reports, the model has an external worker that honours the contract, is late, or
crashes.

The components are mostly not wired to each other in the code (controllers
construct their own services; `POST /bookings` passes an empty list of
existing bookings), so the models compose components where the code does:
webhooks share the payment records with the payment calls, booking pages are
computed by the slot service and booked through the booking service,
what the checkout page posts meets the contract of the order controller, and
`OrderPaymentService` finds the payment of an order by its number. Nothing in the
repository calls that service; `OrderPayments` adds the caller that its comments
ask for (`CallerCaptures`, `CallerVoids`), who looks at the order and then calls as
often as it likes, with the calls overlapping. That the caller looks is a hypothesis: the
service does not.

## 1. Inventory

| Component (under `apps/api/src`) | State | Operations | What is hard | What makes it correct |
|---|---|---|---|---|
| Payment transactions (`payment/payment-transaction.*`) | transaction records, audit events, failover events | create intent (with failover), capture, void, refund | every operation checks before and writes after an await | one record per idempotency key, no money without authorization, refunds within captures, an audit trail that adds up |
| Payment webhooks (`payment/webhook-*`) | stored events with status | ingest, deduplicate, reconcile, replay | duplicates, reordering, replay, events for a transaction that a call is changing | idempotence, convergence, nothing undone |
| Payment connections (`payment/payment-connection.*`) | connections, their status | create, verify, health check, deactivate, pick the webhook secret | overlapping checks write after an await | active only if vouched for, no stuck verification |
| Payment integration (`payment/payment-integration.service.ts`) | none of its own | start, capture or void the payment of an order or booking | order of the calls, partial failure | payment follows the order |
| Bookings (`booking/booking.*`) | bookings | create, confirm, check in, complete, no-show, cancel | stale lists of existing bookings, two places that check for conflicts | no double booking, cancellation window |
| Slots (`booking/slot-*`, `availability-input`) | a cache (not wired up) | compute slots of dates | boundaries of windows, buffers, lead times; invalidation | offered slots are exactly the free ones |
| Notifications (`notification/*`) | delivery records by idempotency key, jobs, in-app notifications | process an event, deliver, retry, dead-letter, mark as read | an event processed again while its jobs are retried, two workers on one key | nothing stranded, nothing sent twice, bounded attempts |
| Imports (`import/*`) and the worker | artifacts, jobs, payloads | upload with scan, import again, review, retry, delete, resume | deletion during a scan, late reports of an earlier attempt, a crash between steps, statuses set by hand | no import lost that nobody took into their own hands |
| Quotes (`quote/*`) | quotes with line items | draft, edit, clone, send, view, answer, convert, expire | expiry racing the answer, edits after sending | the customer answers what was sent, closed is closed |
| Orders (`order/*`) | orders with the times of their statuses | create from cart, status pipeline, cancel | the contract in front of the service, cancellation on the way | the recorded times tell the way through the pipeline |
| Checkout (`apps/web-customer/src/pages/cart-page.ts`, `checkout-page.ts`) with pricing (`cart/*`) | the cart in the browser's storage, a page, requests under way | edit the cart, fill in three steps, place the order | two tabs, late answers, prices recomputed in the client | what is posted is what the API would quote |
| Carts of the API (`cart/cart.*`) | sessions, items and modifiers in flat tables | one session per owner, put in, change, remove, clear, way of fulfillment | ids of items that are old or another's | every owner has a basket of their own |
| Subscriptions (`subscription/*`) | packages, versions, contracts, usage counters | create, update, deprecate, subscribe, cancel, count usage | packages that change under their subscribers | what was sold can be looked up and is honoured |
| Loyalty (`loyalty/*`) | program, accounts, ledger | earn, redeem, adjust, expire, batch | five writers of balance and ledger, repeated batches | ledger explains balance, only awarded points are spent |
| Integration alerts (`integration-alerts/*`) | events, alerts | group, acknowledge, resolve | duplicates | one open alert per cause |
| Session, MFA, reset, impersonation lifecycles (`auth/*-lifecycle*`) | session and challenge records | issue, verify, revoke, expire | expiry boundaries, replayed tokens | single use, no revival |
| Tenant lifecycle, provisioning, publication (`auth/tenant-*`) | tenant status, audit | transitions | policies in several files | legal transitions, audited |
| Custom domains (`auth/domain-*`) | domain records | verify, promote, activate, roll back | partial failure | one active domain |
| Request context and policies, templates, registries (`auth/*`) | none | decisions on one request | combinations | deny by default |
| Settings, locations, memberships, catalog, content, customers, portfolio, search, staff, analytics, verticals | records | record keeping and queries | little | validation |
| Other pages of the web applications, SDK, generated types | - | forms and lists | - | not modelled |

`PROJECT.json` lists every component with its files, its status and the reason
where it is not modelled, and under `hazards` the places in the code where
things could go wrong that a test would hardly reach.

## 2. Modules

| Module | Models | State ↔ code |
|---|---|---|
| `PaymentStates` | `packages/types/src/payment.ts` | transition table, order of states |
| `PaymentLifecycle` | abstract: a payment as it is seen from outside | `book` |
| `PaymentTransactions` | `PaymentTransactionService`, its repository, the adapter's verdicts | `txns` records, `audit` totals of the audit events per transaction, `failoverLog` failover events, `calls` what a suspended call holds, `ledger` what the (external) providers did, with the refund keys they have executed, `refundUses` how often a key was used |
| `PaymentWebhooks` | ingress, event repository, event processor, on top of the above | `emitted` events at the providers (external), `inbox` status of each stored event, `direct` bounds the merchant's own actions at the provider |
| `PaymentConnections` | connection service and repository | `conns`, `checks` calls that await a provider, `vouched` and `retired` history |
| `Notifications` | `NotificationDeliveryService`, its store and queue, workers | `deliveries` records by idempotency key, `jobs` what was queued and where it is, `inApp`, `eventCalls` suspended calls of `processEvent`, `workers` the concurrency, `sends` history |
| `Imports` | `ImportService`, both repositories, the worker's contract | `artifacts` (with the upload that awaits the scan), `importJobs`, `payloads` what was dispatched and where it is, `crashes`, `up`, `astray` jobs set waiting or processing by hand (history), `byHand` how often |
| `Calendar` | abstract: appointments that never clash | `entries`, `issued` the ids given out |
| `SlotComputation` | `SlotComputationService`, operators only | |
| `Bookings` | `BookingService`, `BookingRepository`, with the pages of customers | `bookings`, `now`, `pages` |
| `Loyalty` | `LoyaltyService`, `LoyaltyRepository` | `configs`, `accounts`, `ledger`, `day` |
| `Quotes` | `QuoteService`, `QuoteRepository` | `quotes`, `offers` what was sent (history), `today` |
| `Orders` | order controller, service and repository | `orders` |
| `OrderPayments` | `OrderPaymentService`, composing `Orders` and `PaymentTransactions` | none of its own: an order's number is the reference of its payment |
| `Checkout` | cart and checkout pages, the quote of the pricing engine, on top of `Orders` | `stored` the cart in the browser's storage, `page`, `posts` requests without an answer |
| `Baskets` | abstract: every owner has one basket | `baskets`, `named` the last call |
| `CartSessions` | `CartService`, `CartRepository` | `sessions`, `cartItems`, `modifiers`, `itemIds`, `cartCall` the last call (history) |
| `Subscriptions` | `SubscriptionPackageService`, its repository, usage limits | `packages`, `versions`, `contracts`, `usage`, `allowed` limits contracted since the last reset (history) |
| `Tenancy` | the constants `Tenants` and `Customers` that bookings and loyalty share | |
| `...Props`, `...Proofs` | properties, proofs | |
| `MCPaymentTransactions`, `MCPaymentWebhooks` | finite instances | |
| `MCOrderPayments` | the payment service called by anybody, or for orders | `client` |
| `MCBackground` | connections, notifications and imports in one instance | `part` |
| `MCCommerce` | bookings, loyalty, quotes, orders, checkout, carts and subscriptions in one instance | `part` |

Components that share no state in the code are put side by side in `MCBackground` and
`MCCommerce`:
`part` is chosen initially and says which of them the behaviour is a behaviour
of. Nothing is lost, since their product has no other interleavings of interest.
`Orders` appears on its own with requests of any client; that none of the
requests of the page reaches it is what `CheckoutRefused` shows.

Every operation is an action named after the method. A call that awaits is cut
in two or three: up to the await (`CapturePayment`, `TakeJob`,
`UploadArtifact`, `PlaceOrder`), for payments the provider's decision
(`Accept`, `Decline`), and the rest (`CaptureSettles`, `AdapterFails`,
`ScanPasses`, `OrderFails`). Repositories hand out live objects, so a resumed
call reads its record as it is *then*, while what it computed before the await is
what it was *before*. A call that is rejected changes nothing and has no action,
with two exceptions: in `Loyalty` it may leave the default program behind
(`GetConfig`), and in `Imports` a retry whose artifact is gone throws after it
has written the status (`RetryJob`).

History variables (`vouched`, `retired`, `sends`, `offers`, `cartCall`, `astray`, `allowed`, and
the field `first` of a transaction, the connection its intent was sent to first) are
read by no guard.

Inputs are not narrowed to sensible ones. `capturePayment` takes any amount (`Captures`,
any set of integers besides the whole: `PaymentSerial` has -1 and 0); refunds
come under keys already used; `transitionJobStatus` is called by anybody along the whole
table; `createImportJob` by anybody for an artifact in any state; an event about a
refund carries the amount of its charge or none. What the provider does with them
is external: nothing is captured for zero or less (`Positive`), and a refund under a key
it has executed is answered again and pays nothing (`Repeats`), since the adapters derive
the refund id from the key.

Definitions with an underscore and a suffix (`RefundTarget_IgnoresEarlier`) are
mutants: the definition they precede, changed as a plausible bug would
change it. Each property is violated by at least one of them, so no property
holds merely by the shape of the model.

## 3. Runs

| Run | Question | Bounds |
|---|---|---|
| `PaymentSerial` | with one call at a time, does the service implement `PaymentLifecycle`, do its books equal the providers' ledgers, is there never a second hold under one key, is every failover logged, does every intent leave a record? | 2 orders, 2 providers, amounts to 2, captures of -1 to 2, 2 refunds under 1 key |
| `PaymentConcurrent` | what survives two overlapping calls on everything? And when the calls are those of a caller that looks at the order, does the money go the way the order went? | 1 order, 2 providers, 2 calls, 2 records, amounts of 1, captures of the whole, 2 refunds under each of 2 keys |
| `WebhookBetween` | webhooks in any order between calls, with merchants acting at the provider: idempotence, convergence, who marks what as refunded | 3 events, 2 direct actions, amounts to 2, 2 refunds under 1 key |
| `Background` | overlapping checks of connections; deliveries retried while their event comes again; imports through scans, retries, late reports, deletions, a status set by hand and a crash: is nothing stranded or lost, and does everything end? | 2 tenants, 2 checks; 1 event of 3 channels, 3 calls, 3 jobs, 2 attempts, 1 or 2 workers; 1 artifact, 2 imports, 1 retry, 1 crash, 1 status by hand |
| `Commerce` | no double booking and honest pages; points under five writers; quotes as sent; orders on their way; two tabs on one cart; baskets of their own in the flat tables of the API's carts; packages that change under their subscribers | bookings: 2 tenants, 2 staff, 2 services, 3 dates of 4 units, 2 bookings; loyalty: 4 programs (the initial one, which is off, included), 4 ledger entries, 3 days; 2 quotes, 3 days; 2 orders; a cart of 2 items, 1 visit; 2 carts of 4 owners, 2 items put in; 2 packages, 3 versions, 1 subscriber, usage to 2 |
| `PaymentDuplicateIntent`, `PaymentOverRefund`, `PaymentRepeatedRefund`, `WebhookReplayRace`, `ConnectionDeactivated`, `LoyaltyExpiration`, `CheckoutRefused` | each refutes one statement of the documentation | smallest that shows it |

Why the bounds suffice: every race in the payment code is between two calls on
one transaction, or a call and one event, and the third event in `WebhookBetween`
lets a replay meet a transaction that was moved on by both others. Amounts up
to two distinguish a partial from a full capture and refund. Two connections
distinguish primary and failover; which of them routing prefers, and which
are active, is chosen anew at every stretch of a call.

Deliveries of different keys share only the number of workers, so one event is
enough; three calls queue a key again while it waits, is in flight, and after it
ended, and two attempts have a first and a last. An import is disturbed by a
second one of its artifact, by its deletion or by one crash; a retry gives a
job an earlier attempt whose report comes late.

A double booking needs two bookings; the second and third dates show closures, leave
and the advance limit. In the slot geometry, four units give room for a slot, its
buffer and a cut-off at closing time. Four ledger entries fit earn, expire,
earn, expire. Two quotes are one and its clone; with three days a quote of
validity zero or one is sent before, on and after its day. Three versions let one
package change twice, or two change once; the module maps contain one that
differs from another by a key that is missing and one that is off. Two carts and two
items are what a call can confuse: another's cart, another's item, one that is
gone.

`CHECK_DEADLOCK FALSE` stands where a run really ends: when all payments are
final, deliveries and imports done, or when bounds (records, refunds, events,
ledger entries, days, orders, versions, jobs) are used up. It hides nothing:
what must go on is stated by the liveness properties.

Symmetry is used for interchangeable model values only (orders, calls, keys, events,
tenants, customers, names of packages), and never in the runs that check liveness.

**Fairness.** `PaymentSerial` states weak fairness of the provider's decision and
of the resumption of each call; `Background` the same for the checks of
connections (`FairConns`), weak fairness of the workers that deliver
(`FairWorkers`), and of the worker's restart and of its steps on imports
(`FairImports`). The adapters in the repository resolve their promises, the event
loop runs continuations of resolved promises, the queue hands out what waits,
and a supervisor restarts a worker. Nothing is assumed about users,
administrators, providers that emit events, which job a worker takes, whether
adapters and scans succeed, or routing and activation of connections. An
adapter that rejects where the connection service awaits it is outside the
model: then a connection would stay in `verifying` (listed as a hazard).

### What the violation runs show

* `PaymentDuplicateIntent`: the idempotency lookup is before the await and the
  insertion after it, so two overlapping calls with one key record two
  transactions.
* `PaymentOverRefund`: two overlapping refunds both pass the remaining-amount
  check.
* `PaymentRepeatedRefund`: a refund key is forwarded and never looked up. A second partial
  refund under one key, after the first, is answered by the provider with the first and
  pays nothing; the transaction and its audit trail count it.
* `WebhookReplayRace`: a call that resumes after a webhook overwrites its result,
  so that replaying a processed event has an effect.
* `ConnectionDeactivated`: a health check that was under way when a connection was
  deactivated activates it again.
* `LoyaltyExpiration`: each expiration sums all points past their day, those
  already expired included; a second run takes points that are still valid.
* `CheckoutRefused`: the page posts `null` for the e-mail address and the telephone
  number it does not ask for; the contract of the controller takes a string or
  nothing.

Three more statements are kept as definitions that are known to fail and are not
run. To see one fail, put it as `INVARIANT` into a copy of the run's cfg:

* `NoDuplicateSends` (`Notifications`, `Background`): the idempotency key of
  `packages/types/src/notification.ts:285` "prevents duplicate sends", but the status is
  checked before the adapter is awaited; two workers with two jobs of one key
  send twice. What holds, and is checked and proved, is `OneWorkerSendsOnce`.
* `ActiveJobsHaveArtifacts` (`Imports`, `Background`): `import.service.ts:547` checks
  "that no active job references this artifact", and looks at the first job of
  the artifact only; the second goes on without it.
* `NoLateAnswers` (`Quotes`, `Commerce`): a handoff document
  (`2026-03-23-E11-S4-T6.md:49`) has token expiry "enforced at the service layer";
  `acceptQuote` does not look at the date, only reading and the sweep do.

Seen while modelling and visible in the modules, but not kept as runs:

* Payments: a capture of zero or less is asked of the provider and recorded as a capture; a void and a capture that
  overlap leave the status of the one that is answered last; no failure event is
  accepted for a partially refunded payment; a refund event marks the whole
  capture as refunded, although the refund at the provider may have been partial
  (`RefundedMeansRepaid` says that nothing else does); a webhook that names no tenant is
  checked against the secret of the first active connection that has one, while the
  comment (`webhook-ingress.service.ts:245`) says that all are tried.
* Imports: a retry whose artifact is gone throws after the status was written, and the job
  stays pending; `transitionJobStatus` takes a failed job back to pending without
  dispatching it or counting a retry, and a processing one to staged and completed with no
  output, as the tests of the service do.
* Payments of orders: an order that is cancelled while its intent awaits the provider has
  no transaction yet, so `voidOrderPayment` returns null, and nobody releases the
  hold that is recorded afterwards; captures asked for at `ready` and at
  `completed` that overlap both find the transaction authorized and both go
  to the provider; a declined intent is returned for its key ever after, so an order
  whose first payment failed cannot be paid (`createOrderPaymentIntent` derives the
  key from the order).
* Loyalty: `accumulatePoints` reports a zero balance when an order earns nothing;
  the comment on `pointRedemptionRate` (points per cent) and
  `computeRedemptionDiscount` (points per dollar) disagree.
* Bookings: the service does not check that a window ends after it starts (the
  runs' inputs are proper windows). One that does not may be recorded, and takes
  slots off pages in which it has no moment (`PagesAlwaysFree` excludes it).
* Quotes: an accepted quote can be converted again, and keeps the last order only;
  `revision_requested` leads back to `draft` in the transition table, but no
  operation takes it there (a clone is made instead).
* Orders and checkout: `cart-state.ts:12` says "The client NEVER computes prices", and
  `cart-page.ts:250-287` computes lines and totals (that they are what the pricing engine would
  quote is `SubmissionsAreReviewed`); an order to be picked up carries no location, although
  the page asks for one; the SDK's `orders.updateStatus` takes a `status` where the
  server requires a `targetStatus`; payment methods that arrive late override a
  choice the customer has already made; the request carries no payment method
  and no idempotency key, so an order whose answer is lost is placed twice; the
  pricing engine takes a percentage tip from the subtotal before tax, its comment
  (`cart/pricing-engine.service.ts:24`) says post-tax.
* Carts: all guests of a tenant share one session, because a `customerId` of null is
  looked up like any other (`findSession`); a loyalty code, if one were valid, would
  not become a discount (`buildPricingInput` looks at the promo code only).
* Subscriptions: in a grace period the feature gate denies every module, entitled
  or not and for reading too, while the downgrade protection blocks only writes
  to modules that were lost.

## 4. Proofs

`tlapm` checks, for every value of the constants, the type invariant of each of the
components below and **every invariant that a passing run checks**, with the
refinements of `Calendar`, `PaymentLifecycle` and `Baskets` and the action properties. Each theorem
stands under the assumptions that its component's module states on its constants; where it
has another hypothesis, the hypothesis is part of it.

| Module | Proves about |
|---|---|
| `PaymentTransactionsProofs`, `PaymentSerialProofs` | `PaymentTransactions`: any number of calls; one call at a time |
| `PaymentWebhooksProofs` | `PaymentWebhooks` |
| `OrdersProofs` | `Orders`, `OrderPayments` |
| `BookingsProofs` | `Bookings`, `SlotComputation` |
| `CommerceProofs` | `Quotes`, `Subscriptions`, `Loyalty`, `Checkout`, `CartSessions` |
| `BackgroundProofs` | `PaymentConnections`, `Notifications`, `Imports` |
| `FiniteSums` | the sum of a function over a finite set, least counterexamples |

*Sums and recursion* (`FiniteSums`). The properties that add amounts up use
`SumFunctionOnSet`, a recursive fold. The library's induction rules cannot be used, but
its theorem that `<` and the strict subsets are well founded can: what fails somewhere
fails on a smallest number or set (`SmallestNumber`, `SmallestSet`), and there the
recursion contradicts it. So the sum of the empty set, of one element more, of one value
changed, and of disjoint parts are proved, and the loop that lays out slots (below).

*Payments, calls overlapping at will* (`PaymentTransactionsProofs`, from `PaymentAssumption`,
`CallsAssumption`, which says that the calls in flight are finitely many):

1. `AlwaysGrounded`: the inductive invariant `Grounding`. The properties are not
   inductive: that a refund in flight meets an authorized intent depends on the
   record it was started from, whose status depends on what the provider did before
   the record was written. `Grounding` ties each record and each call in flight,
   answered or not, to the ledger of the provider it names; it is preserved
   because ledgers only grow.
2. `CallsAreBacked`, `MoneyIsAuthorized`, `StatusesAreBacked` follow from it.
3. `AuditIsCurrent` is inductive together with `TypeOK`.
4. `RefundsAlwaysReconcile`, `RefundsAlwaysAudited`: a refund moves its amount from the
   requests at a provider to the records one term at a time, so that the sums
   on both sides change by the same amount, whichever calls overlap. What the provider
   answered is what it paid and what it had paid before under the same key; the second part
   is exactly what the books are in excess.

*Payments, one call at a time* (`PaymentSerialProofs`; every theorem has the hypothesis
`SingleCaller`, since `PaymentDuplicateIntent` and `PaymentOverRefund` show what two calls can do):
`AlwaysSerial` is the inductive invariant `Serial`. Nothing overtakes the checks of the call
in flight (`ChecksStand`), so what it is about to write is what its provider has done
(`BooksAgree`, with what is owed by the call), an authorization belongs to a record or
to the intent in flight (`HoldsAreKnown`), and a failover is the story of one intent
(`FailoversAreTold`). A reference is its idempotency key, as `OrderPaymentService` derives it:
a caller that makes up a second key for one order is not covered. From it `OneHold`, `BooksMatch`, `FailoverAccounted`, and
`ImplementsLifecycle`: each second half of a call is a step of `PaymentLifecycle` and every
other step is a stutter.

*Webhooks* (`PaymentWebhooksProofs`):

1. For webhooks between calls (`Overlap = FALSE`; `WebhookReplayRace` shows why), `AlwaysPast`: an
   event that is done names a transaction that is past what the event announces, *and that
   no call in flight will take back* - without the second half it is not
   inductive. `DoneHasNoEffect`, `ProcessedStands` and `Converges` follow.
2. `RefundedIsRepaid`, with `SingleCaller` as well: among webhooks and the merchant's own
   actions, the service marks a transaction as refunded only when the provider has answered for
   the whole capture. Two refunds that overlap would not keep to it, nor do refund
   events, which the property sets aside by name.

*Connections* (`BackgroundProofs`): a check that has been answered may find
the connection in any status, so `VerifyingIsUnderWay` and `ActiveIsVouchedFor` are
carried through each action separately.

*Bookings* (`BookingsProofs`, from `DayAssumption`, `BookingAssumption`, `InputAssumption`):

1. `BookingsTypeCorrect`: in particular, the slots that the computation offers are windows of
   known staff (`SlotsAreWindows`).
2. `NeverDoubleBooked`: `NoDoubleBooking` is inductive with the types. The argument has two
   halves: a creation is checked against all bookings that hold their time, whatever
   list it was given (`CreatedApart`), and no transition leads from a status that
   released its time to one that holds it (`NeverHoldsAgain`) - the second is what
   the transition table of another package has to guarantee.
3. `ImplementsCalendar`: the specification implies `Calendar`'s under the refinement
   mapping `Entries`. A creation is `Enter`, a transition is `Strike` or a stutter;
   ids are never given out again, so what was struck out stays out.
4. `OffersStayBookable`: an open page is a record of what was known when it was opened
   (`PagesAreRecords`). Of the bookings recorded by then, those that still hold their time
   are among those the slots were computed from, and no slot meets one of these; so what
   refuses a slot came later.
5. `PagesAlwaysFree`: the loop of the slot computation visits every (duration + buffer)-th
   moment of the shift that leaves time for the service (`StartsAreRegular`, by a smallest
   counterexample counted from closing time); a service fits the common part of opening
   hours and shift exactly if all its moments do (`ServiceFits`); and two windows meet in the
   sense of the code exactly if they have a moment in common (`WindowsMeet`). The last is
   false of a window that ends before it starts, which the service does not refuse, so
   the theorem has the hypothesis `ProperRequests`.

`InputAssumption` takes opening hours as times of a day, as `location-hours.ts` validates
them, and leaves the shifts of the staff, which nothing validates, to be anything.

*Loyalty* (`CommerceProofs`, from `LoyaltyAssumption`, which gives programs the types of
`LoyaltyProgramConfig`): `LoyaltyTypeCorrect`, `LedgerAlwaysExplains`, `LifetimeAlwaysAwarded`,
`SpentAlwaysAwarded`. Each of the five writers appends one entry or, the batch, several, and
what an entry says follows from the one before of its account (`LoyaltyStep`, `OneMove`,
`SomeExpire`). The three accounts of the same entries are inductive together, with
the fact that what is earned is positive (`LoyaltyInv`).

*Checkout* (`CommerceProofs`, from `OrderAssumption`, `CheckoutAssumption`, which gives items the
types of the cart's contract): `SubmissionsAlwaysReviewed`. The inductive part is that the
cart in storage is at all times the quote of its items (`CheckoutTypeOK`), although the cart
page computes lines and subtotal of its own and lines are changed and removed by
position; and that a request under way blocks another of its visit (`CheckoutInv`).

*Carts of the API* (`CommerceProofs`, from `CartAssumption`, which gives requests the types of
the cart's contract, with prices as the catalog's contract has them): `CartsAreBaskets`.
What a table has at a set of places is written as a recursive function (`At`), and a
smallest counterexample shows that it is the only enumeration of these places in their
order; so appending a row, changing one, taking one out or dropping rows of others does to
what a cart shows what it says. The inductive invariant (`CartInv`): ids of items are never
used again, every modifier belongs to an id that was given, and an owner has one session.
Without the first, a new item could inherit the modifiers of one that is gone; without the
last, a basket could change its session. Each call is then a step of one basket, in the
name of the tenant that called.

*Notifications* (`BackgroundProofs`, from `NotificationAssumption`, `ChannelAssumption`):

1. `DeliveriesHaveJobs`, for any number of workers: a job that leaves for good leaves a
   delivery that has ended behind; one that comes back keeps its key.
2. `OneWorkerSends`, for one worker. `OneWorkerInv` strengthens it: what is in flight is
   what its record says, a key that was sent is delivered, and a queued attempt may
   be one above the limit only behind a record that has reached it and has not
   ended - whose own attempt is then in flight and will end it, so that
   the queued one is dropped.

*Imports* (`BackgroundProofs`, from `ImportAssumption`):

`ImportsAreKept`: `LostInv` is stronger than `NoImportIsLost`, which is not inductive. A
job that is processing needs a payload in the worker's hands or a *resumed* one in
the queue, because the worker would drop a plain one. Jobs that somebody set to pending or
processing by hand are excepted (`astray`) until they are retried or resumed, since
nothing is dispatched for them.

*Orders and their payments* (`OrdersProofs`, from `OrderAssumption`, `OrderPaymentAssumption`):

1. `OrdersKeepToThePipeline`, with the position of each status.
2. `IntegrationIsAClient`: a step of `OrderPayments` is a step of `Orders` or of
   `PaymentTransactions`, so all that is proved of either holds of the two
   together. It needs the types first, since the number of an order must be a
   reference and the amount of a transaction one that may be captured.
3. `ChargesFollowOrders`, whose specification contains the caller that captures for orders
   that are ready or completed and voids for cancelled ones: `MoneyFollowsOrders` adds to the ledgers what is in flight, since a
   capture that was asked for while its order was ready is carried out at any
   later time. `ready`, `completed` and `cancelled` are never left for one
   another (`OrderStep`), and a transaction keeps its order (`ResumeKeepsRefs`).

*Quotes* (`CommerceProofs`, from `QuoteAssumption`): `SentQuotesStand` and `ClosedStaysClosed`. What a
quote says is compared with the offer stored at its sending; nothing leads back to
`draft` but a new quote, and edits need a draft. Nothing is used of
`Total` but that it is a function of the lines.

*Subscriptions* (`CommerceProofs`, from `SubscriptionAssumption`): `EntitlementsAreRecorded`. The four
parts are inductive together. A changed package gets a version numbered one above
its latest, which is then the only latest and grants what the package now grants; a
package that is updated without a version of its own has the same grants as before
(a module that is off counts as one that is missing). Contracts point at versions,
which are never changed, and the usage of a subscriber is bounded by a limit that a
contract of theirs granted since the last reset.

Only model-checked: liveness (`IntentLeavesRecord`, `VerificationEnds`, `DeliveriesEnd`,
`ImportsEnd`), which rests on fairness and `ENABLED` and is out of the prover's reach.

## 5. Not modelled

* Cryptography of credentials and webhook signatures, and the choice of the secret that
  a signature is checked with; HTTP, validation of field
  formats, logging.
* Reads that change nothing: listings, pagination, dashboards.
* Rendering of notifications and the length of their backoff: a job that waits
  may be taken at any time.
* The contents of an import and what a review of them does.
* `BookingPaymentService`, which is `OrderPaymentService` over bookings.
* The slot cache, which nothing calls, and the assembly of availability inputs.
* Time zones: the slot code compares ISO strings of one zone, the model uses one
  time line.
* Negative or zero service durations, and windows that end before they start.
* In carts, order notes, and promo and loyalty codes, none of which is valid.
* Discount, tax, tip and fees in the API's quote: no controller asks for them, no promo
  code is valid; the tip that the page adds is modelled.
* The feature gate, the resolution of entitlements and the assessment of a
  downgrade: decisions on one subscription.
* The components marked `not_modelled` in `PROJECT.json`, with their reasons. Every service
  of the API that awaits anything is modelled; of the rest, most are
  registries, listings and decisions on one request, a large part of the code by
  size: generated and shared types, pages of forms, record keeping. They hold little
  state that several steps could bring into disorder.

## 6. Plan

In this order; each item ends with its properties checked, then proved where the
argument is by invariant:

1. `Alerts` (grouping); `Sessions` (sessions, MFA, password reset, impersonation);
   `Domains` (verification, promotion, rollback); `TenantLifecycle`; `StagedSettings`.
2. `SlotCache` over `SlotComputation` and `Bookings`: which writes must invalidate it.
3. `Pricing`: the pipeline as operators against a reference definition.
4. The feature gate and the downgrade protection on top of `Subscriptions`.

Where a new component needs a run, it joins `Background` or `Commerce` as one
more value of `part`; a property that others imply gives way.
