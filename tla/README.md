# A verification project for the recharge platform API

The platform sells packages of Bigo diamonds. A buyer creates an order, pays it
through Bravive (PIX), and once Bravive reports the payment the platform asks
the Bigo API to grant the diamonds. Stores, coupons, influencers and a daily
metrics job live around this core. The code is a NestJS server with a PostgreSQL
database: one process, one event loop, every `await` a point at which another
request, webhook, timer or cron job may run.

This directory models what that interleaving can do to the tables: TLA+ modules,
TLC configurations that check them on small instances, and proofs checked by
TLAPS for every instance. `PROJECT.json` lists the runs, the lines of code each
definition stands for, the hazards of the code, and the theorems.

Run a configuration with `tlc -config X.cfg M.tla` (`runs` in `PROJECT.json` says
which module goes with which configuration), a proof with `tlapm M_proofs.tla`.


## 1. Inventory

| component | state | operations | what is hard | what makes it correct |
|---|---|---|---|---|
| Bigo recharges (`bigo.service.ts`, `bigo-retry.service.ts`) | table `BigoRecharge`; retry timers in memory | `diamondRecharge`, `disableRecharge`, `addToRetryQueue`, `processSpecificRetry` | overlapping callers, lost answers, backup domain, timers lost in a restart | one grant per order number, no forgotten retry, bounded retries, honest SUCCESS |
| Payments (`bravive.service.ts`, its controller) | `Payment`, `Order`, `Recharge` rows | `handleWebhook` and its five handlers, `checkAndUpdatePaymentStatus` | webhooks repeated and out of order, racing with checks and expiry; two transactions around an HTTP exchange | only paid orders are recharged, only delivered orders are completed, paid orders are in fulfilment |
| Orders: creation (`order.service.ts`) | `Order`, `Payment`, `Recharge`, `CouponUsage` rows | `create`, `validateCoupon`, `generateOrderNumber` | check-then-act over many awaits; a payment is created before the order | unique numbers, the order given is the order asked for, coupon limits |
| Orders: expiry and coupon usage | `Order.orderStatus`, `Coupon.timesUsed`, `InfluencerMonthlySales` | `checkAndExpireOrders`, `confirmCouponUsage`, `revertCouponUsage`, `updateInfluencerMonthlySales` | find-then-create under a unique index, month boundaries, nested transactions | both books of sales agree |
| Orders: reading | none | `findAll`, `findAllByStore`, `findOne` | the expiry they trigger | (expiry, above) |
| Metrics (`metrics-cron.service.ts`, `metrics.service.ts`, controller) | `MetricsCronExecution` per day, sums per store | the daily cron with recovery, `POST metrics/recalculate`, refresh, `updateMetricsForOrder` | crash in the middle of a day, stores failing, administrators working on the same rows | SUCCESS means counted; no gap after a clean run |
| Coupons (`coupon.service.ts`) | `Coupon`, `FeaturedCoupon` | create, update, remove, feature | title looked up before it is inserted | unique titles, featured coupons within their store |
| Influencers (`influencer.service.ts`) | `Influencer` and the monthly sales | create, update, remove | removal while coupons are in use | (sales, above) |
| Registration (`user.service.ts`, `auth.service.ts`, `user-cleanup.service.ts`) | `User` with one confirmation code for two purposes | create, verify, resend, change of address, cleanup, removal | a code is checked on one row and written by address some awaits later; cleanup races with verification | a verified account is never cleaned up; an account is verified by its own code; an address is not held for ever |
| Roles and passwords (`user.service.ts`, `auth.service.ts`, `jwt.strategy.ts`) | `User.role`, `password`, reset code | promote, demote, update, remove, forgot, reset, change | role of the caller read before the request; lookups before hashing and writing | one reseller per address, a store keeps a reseller, a password changes on what is still true |
| Stores and banners (`store.service.ts`) | `Store.bannersUrl` (array), `secondaryBannerUrl`, files | add, remove, replace, PATCH | read, delete, upload, write: lost updates, failures in between; maximum of 5 | bound, shown files exist, a banner is lost only to a stale write |
| Packages, products and images (`package.service.ts`, `product.service.ts`, `storage.service.ts`) | `imgCardUrl` of packages and customizations, files | upload for one or all, removal, cleanup, customization | an image may be shared, or be the default of the product; each request looks at other rows first and deletes later | the default survives, an image goes only for a named cause |
| Server-sent events (`sse.*`) | subjects in memory | tell a browser of a confirmation | - | (a lost event is lost) |
| Frontend notifications, mail, storage, encryption | none | outgoing HTTP | failure is logged | (no state) |

Interactions. `OrderService.create` asks Bravive for a payment and then writes
order, payment, recharge and coupon usage in one transaction. Bravive calls
`handleWebhook`; the buyer calls `check-payment`; both run
`handleApprovedPayment`, which writes one transaction, awaits
`BigoService.diamondRecharge`, writes a second one and then calls
`confirmCouponUsage` and `updateMetricsForOrder`. `diamondRecharge` throws after it
has queued a retry; nobody waits for the retry. Every reading of orders expires
old ones first. The cron recalculates the metrics of all stores, and a completed
order those of its own day and month.


## 2. Modules

| module | models | extends / uses |
|---|---|---|
| `RechargeLedger` | what the Bigo side promises: a recharge is opened once and has one outcome | - |
| `BigoRecharge` | `BigoService` and `BigoRetryService` | implements `RechargeLedger` |
| `OrderPayment` | `BraviveService`, expiry, the life of an order | implements `RechargeLedger` |
| `OrderCreation` | `OrderService.create` with `validateCoupon` | a coarse life of orders stands for `OrderPayment` |
| `InfluencerSales` | coupon usage and monthly sales | - |
| `MetricsCron` | `MetricsCronService` and the manual recalculation: which days, which stores | - |
| `DashboardMetrics` | `MetricsService`: what a recalculation reads and writes, and the dashboard | a coarse life of orders stands for `OrderPayment` |
| `Registration` | accounts until they are confirmed, change of address, cleanup | - |
| `UserAccounts` | roles, passwords, sign-in of administrators | accounts that `Registration` has confirmed |
| `StoreBanners` | banners and offer banner of a store, with their files | - |
| `CatalogImages` | card images of packages and of a customization, with their files | - |
| `MC*` | model values and symmetry for TLC | the module they name |
| `*_proofs` | theorems; `Sales_proofs` about `InfluencerSales` and `DashboardMetrics`, `Images_proofs` about `StoreBanners` and `CatalogImages` | the modules they are about, TLAPS |

Some modules define an operator twice, for instance `CanInsert` and
`CanInsertUnchecked`. The second is a plausible defect (a dropped guard, an
off-by-one) and is used by no action; it is there to show, by taking its place,
that a property depends on the code it names.

### BigoRecharge

State: `row` is the table (status and attempts); `calls` are the activations that
hold a row, each with its attempt number and the await it has reached; `timers`
are the armed `setTimeout`s; `ready` are the callers that have found no row and are
about to insert one; `accepted` and `granted` are Bigo's.

`FindExisting` and `CreateRow` are the lookup and the insert of `diamondRecharge`, two
steps with the unique index in `CanInsert`. `Exchange` is one HTTP request of
`makeSignedRequest` to the primary or the backup domain; after any error of the
primary the backup is asked. `SaveSuccess`, `RecordFailure`, `ArmTimer` are the ends
of an attempt: `addToRetryQueue` writes the row first and sets the timer
afterwards. `FireTimer` and `Claim` are `processSpecificRetry`. A retry of a disable
inserts a row with a seqid that exists and never gets as far as a request
(`RetryStage`). `Restart` loses activations and timers.

External: `BigoAnswer`. Bigo may execute a request whose answer is lost
("retryable"), and refuses an id it has executed (code 7212010).

### OrderPayment

State: the statuses of order, payment and recharge, `timesUsed` of one coupon, the
pool of `worker`s. A worker is one activation of `handleWebhook` or of
`checkAndUpdatePaymentStatus`; its stage is the await it has reached. `bigo` is the
Bigo side as `RechargeLedger` shows it, `queued` the retries for which no handler
waits. `provider` and `notices` belong to Bravive.

`Webhook` is `handleWebhook` up to its switch (unknown payment, idempotency test, map of
statuses); `CheckStart` and `CheckDecide` are the manual check, with Bravive's answer in
between, which may be old when it is used. `Approve`, `RequestRecharge`,
`BigoAnswers`, `Complete` and `ConfirmCoupon` are `handleApprovedPayment` in the order
of its awaits; `Reject`, `Refund` and `Chargeback` are the other handlers, one
transaction each. `ExpireOrders` is the one UPDATE of `checkAndExpireOrders`.
`FindUnpaid` and `ExpireFound` are `expireUnpaidOrders`, which updates each order it
has found whatever has become of it; `late` holds the orders it has expired
that way. Its one caller, `manualExpireOrders`, has no endpoint; it is modelled
for a start by hand.
Left out: the update of metrics, mails, `statusUpdatedAt`.

### OrderCreation

A call is one activation of `create`. Its stages are the queries in their order: the
coupon, three queries of its history, the loop for an order number, the search
for an order of the last five seconds, the request to Bravive, the transaction.
The price due is computed from the discount that was read (`FinalAmount`) and compared
with the price the buyer sent. Orders live on in between (`OrderLife`), the
administrator closes the coupon and changes its discount.

Nothing in the life of a saved order is final: the handlers of `bravive.service.ts` write
the order without looking at it, some awaits after they have compared the report
with the payment, so that `Expire`, `Reject`, `Approve` and `Refund` may hit it in any status. A late
approval makes an expired or refunded order PROCESSING again (`:407-437`), and the end of its
exchange with Bigo makes it COMPLETED whatever has been reported since (`Fulfil`,
`:460-467`), once, as Bigo is asked once per order number. `freed` is history: which orders
have ever been in a status that gives their coupon back.

### InfluencerSales

A transaction updates its coupon first and holds that row's lock until it ends,
so there is at most one for each coupon. It then looks for the row of the month
and updates or creates it. Two first sales of a month through different coupons
clash on the unique index (`Clash`): one confirmation is rolled back and only
logged. A reversal works on the month of the order's creation, a confirmation on
the current month; a reversal that finds no row leaves the coupon decremented
(`SkipRecord`). The influencer of a transaction is the one the coupon had when the order
was read, which may be any: the administrator may give a coupon to another
influencer between two transactions (`coupon.service.ts:474`).

### MetricsCron

`Fire` selects the days, `ReadDay` reads the row of the day, `StartDay` or `GiveDayUp`
write it, `DoStore` recalculates one store, `EndDay` writes the outcome. `DayThrows` is
a query that throws, including the case in which the catch block throws too and
the remaining days are dropped. `ManualStart`, `ManualStore` and `ManualMark` are the
administrator's recalculation, interleaved with the cron. `counted[s]` is the set of
days whose metrics store `s` has, whenever they were computed: that the current
day may be counted before it is over is not in this module. What one
recalculation reads and writes is `DashboardMetrics`.

### DashboardMetrics

State: the orders (day and status), the rows of the day, the month and the
products, and one `job` for each recalculation, whose stage is the query it has
reached. A total is the set of the orders summed, so that "counted twice" and
"not counted" can be told apart; `Dashboard` turns the sets into the amounts and
percentages that the endpoint answers. Of the status of an order the totals tell
apart CREATED (it may expire when orders are read), COMPLETED (it is summed) and the
others: `Report` is whatever Bravive says about the payment, which may take a completed
order out of the sales again, by a refund or by a second approval; `Complete` is the second transaction
of `handleApprovedPayment`. `sold` is history: the orders that have been completed. `excused` holds the orders whose update
has failed, or whose sale was taken off the day by a recalculation that had
read the orders before: these are what the code can lose, and `SaleCounted` says
that it loses nothing else. `clean` says that the last recalculation ran alone and to
its end; only then can day, month and products be expected to agree.

### Registration

State: the rows, the codes generated and to which address each was mailed, the
open requests, and what the cron job has found. `Begin` is the first query of a
request with its early returns; `CheckExpiry`, `CheckNewEmail` are later queries;
`Insert`, `MarkVerified`, `NewCode`, `ChangeEmail` are the writes. `With(e)` is the
`updateMany` by email: the row that has the address when the write runs. `found`
and `changed` are history: the row that a verification has compared with its
code, and whether it has been written since. A code is a number that grows, so
two rows never draw the same six digits by accident. `ConfirmEmailChange` takes any code
that was mailed to anyone, as the code compares it with the row only, not with the
new address. The "insert" stage ends
with the mail, which arrives or not. `Row` allows `late` only with a code.

### UserAccounts

State: role, password, address and reset code of each account, and the open
requests with who makes them. `ChangeRole` begins a promotion or demotion with the
caller's role as `JwtStrategy` read it; `FindUser`, `FindOtherStore` and `WriteRole` are the
queries of `promoteToAdmin` and `demoteToUser`. The partial unique index that only a
migration declares (`20251208121020_update_admin_email_constraint_exclude_master`: resellers
by address) is part of `Fits`.
`WriteCode`, `WriteReset` and `WriteChange` are the writes of the three password
requests. Hashing is the time between check and write.

### StoreBanners

A request reads a field (`snap`), deletes files (`DeleteFile`), uploads
(`UploadFile`, `UploadFails`) and writes the field (`Save`). A field is the set of the entries of
its list: the file an entry names, and which copy of that name it is. An
index is the entry it selects, and an index named twice takes the following
entry along (`RemoveMultipleBanners`). `UpdateStore` is a PATCH, which writes any list from
`Lists`, however long, with URLs of no file (file 0), with one file twice or in both
fields; no file is touched and nothing is checked (`store.service.ts:104`). `oversized` and
`relisted` are history: whether a PATCH has listed more than `MaxBanners`, and which files
PATCHes have listed anew. `disturbed` holds the fields that were written
from a stale read or left between their files and their row by a failure or a
restart: `ImagesServed` cannot hold for them.

### CatalogImages

A file is named by its folder and extension, a URL by file and version; uploading
again into the same folder replaces the file and gives another URL. `ReadDefaults`,
`CountOthers` and `ListFiles` are what a request looks at before it deletes;
`DeletePrevious` and `Sweep` delete. Updates of many rows sent together are one
`SaveRow` each, in any order. `SetPackage` and `PatchSettings` are the creation and change of
a package and of the customization with the image that is shown already or with any of
`Typed`: the code stores the URL it is given, also one of another package. The product's
own default is constant here. `fresh` is history: the packages that have got another
image since the request began.


## 3. Runs

All passing runs complete their state space.

| run | instance | states | shows |
|---|---|---|---|
| `BigoRecharge_calls` | 1 order number, 3 callers, 1 disable, 3 retries, backup, 2 restarts | 69 thousand | one attempt at a time, one grant, honest SUCCESS, no retry forgotten while the process lives, every row settles, the ledger is implemented |
| `OrderPayment_races` | 1 order with coupon, 2 workers, 1 repeated webhook, 1 restart | 255 thousand | recharged only if paid, completed only if delivered, a paid order never expired, one fulfilment, coupon counted once, an approval takes effect and leads to a recharge, the ledger is implemented |
| `OrderCreation_overlap` | 2 overlapping requests, 2 Bigo accounts, 1 free number, 2 discounts, `maxUses` 1, 1 refund | 545 thousand | unique numbers, the order given is the one asked for, a closed coupon is not taken, every request is answered |
| `OrderCreation_limits` | 3 requests with the coupon, 2 at a time, 2 users, 1 Bigo account, 3 numbers, 1 refund | 693 thousand | of the orders that have held a once-per-account or first-purchase coupon without a break there are never more than requests overlap |
| `InfluencerSales_months` | 3 orders, 2 coupons, 2 influencers, 2 months, 2 reversals, 1 rollback | 133 thousand | sales of influencers and coupons agree, but for reversals without a row |
| `MetricsCron_recovery` | 4 days, 2 stores, window 2, 2 faults, 1 crash, 1 manual recalculation | 908 thousand | SUCCESS means all stores, no gap after a clean run |
| `DashboardMetrics_overlap` | 2 orders, 2 products, 2 days, 2 recalculations at a time, 1 of them by cron or administrator | 2.7 million | a sale is counted on its day unless an older read takes it off; no order that never was completed is in a total; an undisturbed recalculation adds up |
| `Registration_codes` | 2 accounts, 2 addresses, 2 documents, 2 requests at a time, 2 codes | 589 thousand | the cleanup spares verified accounts, own code only, no code keeps an unverified account for ever |
| `UserAccounts_roles` | 3 accounts, 2 stores, 2 addresses, 2 passwords, 2 requests at a time, 1 reset code | 421 thousand | one reseller per address, a store keeps its last reseller, a password changes on what is still true |
| `StoreBanners_overlap` | 2 requests at a time, limit 2, 2 files, 2 copies, PATCHes with a foreign image or with three entries, failures, restarts | 2.2 million | the limit until a PATCH exceeds it, shown files exist or were listed by a PATCH, banners lost only to a PATCH or a stale write |
| `CatalogImages_overlap` | 2 packages, either with the image of the other at any time, 2 requests, 2 uploads, failures, restarts | 431 thousand | the default survives, images go for a named cause only |

One run shows where the code does not do what its own text says; TLC ends it
with a counterexample.

| run | the text | the code |
|---|---|---|
| `OrderPayment_retry` | "Order remains in PROCESSING status until recharge succeeds" (`bravive.service.ts:568`) | a successful retry does not move the order on; nor does anything when a second handler of the same approval runs its first transaction after the first handler has completed the order |

Met while reading and modelling, and not stated as runs. Where text of the
repository and its code differ:

- "Add to retry queue" (`bigo.service.ts:166`): a retried disable fails on the unique
  seqid and never asks Bigo. (In the model: `RetryStage`.)
- "Payment already in target status (idempotency)" (`bravive.service.ts:319`): a
  repeated refund webhook takes the coupon back again. `CouponNeverOvercounted`
  bounds the counter from above only.
- "Whether the coupon can only be used once per bigoId" (`create-coupon.dto.ts:116`): as many
  requests as overlap may use it; and, without any overlap, an order that has given
  the coupon back and comes to life again is a second use beside the one made
  meanwhile. An order gives it back by expiring or by a refund or chargeback (in any
  status, `bravive.service.ts:639-647`), and comes to life by a late or second approval (`:407-437`) or
  by the end of its exchange with Bigo (`:460-467`). What `OrderCreation_limits` shows is about
  the orders that have never given it back. The same holds for a first purchase and
  orders that expired. `maxUses` is exceeded without any overlap: orders that wait for payment
  or delivery do not count.
- "Processes metrics from previous day and checks for missing days"
  (`metrics-cron.service.ts:18`): the loop reaches the current day, which is counted in
  the morning and marked SUCCESS.
- "Check previous attempts to avoid infinite loop" (`metrics-cron.service.ts:134`): there is
  one row per day, so the count of attempts never exceeds 1.
- `docs/DASHBOARD_METRICS.md:55-66, 248-251` has totals "Decremented" when an order is
  refunded; no recalculation is started for a refund (`Report` starts no job), so the order
  stays in the totals until something else recalculates its day. `OnlySoldCounted` therefore says that what is counted has been sold, not that it
  is still COMPLETED; the same goes for an order that a second approval has set back to
  PROCESSING.
- "Maximum of 5 banners allowed" (`store.service.ts:146`): POST and PATCH of a store take a list
  of any length (`create-store.dto.ts:103-115`), of any URLs. Removing one banner of a URL that
  is listed twice, or in both fields, deletes the file of the other.
- "unique partial index ensures only one admin per email" (`auth.service.ts:134`): the index
  covers resellers only; a master administrator may share the address of a reseller,
  and `adminLogin` takes the first it finds. `ResellerCanSignIn` is stated with that exception.

Other behaviour a maintainer should know of: a refund handled during the exchange
with Bigo is overwritten by COMPLETED (`bravive.service.ts:459`); a manual recalculation
by one store's administrator marks the day as SUCCESS for all stores
(`metrics.controller.ts:158`); a recharge that Bigo executed while its answer was lost
ends FAILED (`bigo-retry.service.ts:35`); the resending of a confirmation code, open to
anyone, renews its 24 hours without limit (`auth.service.ts:586`), so an account that is sent a
code every day is never cleaned up and holds its address, which is why
`RegistrationSettles` speaks of one code at a time; a package or customization that was given
the image of another package loses it when that one gets another image
(`package.service.ts:478`, `product.service.ts:199`), and an update of all packages deletes every file in
the folders of the packages, though the customization may show one
(`package.service.ts:580-606`); `refreshAccessToken` finds an administrator by
address only.

Some properties say that a harm has one cause and no other, because the code does
not prevent the cause itself: `NoRetryForgotten` and `PaidLeadsToRecharge` except restarts,
`ApprovedNoticeTakesEffect` notices before the order exists, `CouponNeverOvercounted` bounds the counter
on one side, `SalesAgree` counts reversals without a row and sums over the rows,
`SuccessMeansAllStores` ends with the first manual recalculation, `LostOnlyToStaleWrite` and `ImagesServed`
except stale and interrupted writes, `VerifiedByOwnCode` and `PasswordChangeKnows` rows changed since
they were checked, `StoreKeepsReseller` mutual demotion, `SaleCounted` and `DashboardAddsUp` recalculations
that overlap. The excepted behaviour is in the models, and in the notes of the hazards.

### Bounds

Every bound is a CONSTANT. `MaxRestarts`, `MaxDuplicates`, `MaxFaults`, `MaxCrashes`,
`MaxManual`, `MaxReverts`, `MaxRefunds`, `MaxActive`, `LastDay`, `LastMonth`,
`MaxRecalculations`, `MaxCodes`, `MaxFiles`, `MaxCopies`, `MaxVersion`, `MaxRequests`, and the sets
`Lists` and `Typed`, limit what the environment does; `MaxRetries`, `MaxAttempts`, `Window` are parameters of the code.
`BigoRecharge` uses the code's 3 retries. `OrderCreation` uses 2 attempts for the
code's 5; `OrderCreation_overlap` has one number, so that both requests find it free
or the second finds none, and `OrderCreation_limits` a third request, the least that can
exceed what two overlapping ones may use. That run follows only the requests that may use
the coupon (the constraint `CouponRequests`): one without it neither blocks another in `bigo` or
`account` nor is counted by a property, and in `first` it can only refuse. `MetricsCron_recovery` uses `MAX_RETRIES` 1 for 3, for only then is
FAILED_PERMANENT ever reached, and a window of 2 for 5.

One order suffices in `OrderPayment`, and one order number in `BigoRecharge`: no handler
touches two orders but `ExpireOrders`, which treats each alike, and the coupon's
counter, which is a sum. Two workers give every pair of handlers, three callers a
second loser at the unique index. Two coupons are the least for a clash, two
months the least for a reversal in another month; four days with a window of
two give two days that leave the window.

In the modules of accounts, banners and images the number of open requests is
what matters: each write is computed from what one request has read, so two
requests give every pair of read and overtaking write, while any number of
requests follow each other in their places (`CatalogImages` counts them, 2 in all).
`StoreBanners` has a limit of 2 for the code's 5, so that a field can be full, full but one,
and empty, and a PATCH of three entries, the least that exceeds it. `Registration` has two addresses and documents, the least for an address
that passes from one row to another; `UserAccounts` a store with two accounts, the
least for two resellers who demote each other, and a second store for the index.
`DashboardMetrics` has two recalculations at a time and two days, the least for a write that
overtakes another and for an order completed on a later day. For the safety properties that are
proved (section 5) the bounds do not matter.

The configurations with liveness properties use no symmetry. CHECK_DEADLOCK is FALSE
where the environment may have nothing left to do: all orders final, the last
day over.

### Fairness

Weak fairness of each activation (`Progress`, `HandlerStep`, `CallStep`): the event
loop runs a continuation whose promise has settled, and the database and HTTP
clients answer or fail. A timer that is set fires. Strong fairness of the arrival
of a webhook that reports an approval, and of no other: Bravive repeats a webhook
until it is accepted; in the model the worker pool is finite, so that an arrival
can be disabled again and again, though the server would have accepted it.
In `Registration`, weak fairness of the two steps of the cron job, which runs
every other day, and of the expiry of codes (time passes); none none of any user's step,
so that `RegistrationSettles` rests on the cleanup alone. Nothing forces a buyer to pay or to ask
for a check, Bravive to change a status, orders to expire, or the process to
restart or not. Liveness properties are excused after a restart, because timers and
activations are lost then; that they fail without the excuse is the hazard noted
at `bigo-retry.service.ts:103` and `bravive.service.ts:437`.


## 4. What is not modelled

- Signatures, DTO validation, guards, encryption, logging, and what mails and files
  contain: no state that another step depends on. (Whether a code has been mailed,
  and which files exist, is modelled.)
- Database faults in the middle of handlers, except the rollback in `InfluencerSales`,
  the throwing queries of `MetricsCron` and `DashboardMetrics` and the failed
  `confirmCouponUsage` in `OrderPayment`. A crash of the process at any await is
  modelled in `BigoRecharge`, `OrderPayment`, `MetricsCron`, `StoreBanners` and `CatalogImages`;
  in `Registration` and `UserAccounts` a request that stops is one that takes no
  further step.
- Time: 24 hours, 5 seconds, the life of codes and retry delays are "any moment
  later".
- Several server processes. The code keeps timers in memory and has no locks; it
  is written for one process.
- In the metrics, the counts of expired and refunded orders and of new customers,
  the split by coupon and the choice of a period: sums of the same kind.
- Operations on one row that nothing else depends on: names and prices of
  packages, the columns of a store, of a product and of an influencer. Titles and
  featured coupons are planned, below.
- Server-sent events: a subject per address in memory; an event without a
  subscriber is lost, and no table depends on it.
- Login and the refresh of tokens, which only read; what `adminLogin` may find is in
  `UserAccounts`.


## 5. Proofs

Assumptions are those of the modules (`BigoAssumption`, `OrderAssumption`,
`CreationAssumption`, `SalesAssumption`, `CronAssumption`, `AccountsAssumption`,
`RegistrationAssumption`, `BannersAssumption`, `MetricsAssumption`, `CatalogAssumption`):
sorts of the constants, and finiteness where a cardinality or a nonempty set is
needed. TLC evaluates them in every run.

- `BigoRecharge_proofs`. `TypeCorrect`, `OneAttemptAtATime`, `AtMostOneGrant`,
  `SuccessIsGranted`, `RequestsBounded`, `NothingForgotten`, `KeepsLedger`, `SettledRowsStay` (which
  rests on the ledger: what it never changes the table never changes). The inductive
  invariant says how the row of an entry fits the activation or the timer that
  works on it (`StageFitsRow`: RETRY_PENDING for a timer and for the stages "claim" and
  "arm", REQUESTED otherwise), how often Bigo has been asked at most (`AskedSoFar`), and
  what Bigo has executed (`BookKept`). `SingleAttempt` is not inductive by itself: a
  timer might fire for a row that an activation holds.
- `OrderPayment_proofs`. `TypeCorrect`, `RechargeOnlyIfPaid`, `CompletedIsDelivered`,
  `PaidStaysInFulfilment`, `OneFulfilment`, `PaymentIsReported`, `CouponWithinDeliveries`,
  `KeepsLedger`. The inductive invariant adds two facts: a report under way, sent or
  read some time ago, is still borne out by Bravive, because a payment never
  returns to a state it has left except through a dispute; and the stage of a
  handler tells how far Bigo has got with its order. For the coupon, `timesUsed` is
  bounded by the delivered orders that no handler has yet to count (`Settled`): a
  confirmation settles its order, and a settled order stays so.
- `OrderCreation_proofs`. `TypeCorrect`, `UniqueNumbers`, `AnswersMatch`, `ClosedCouponRefused`,
  `UsesBounded`, `FirstPurchasesBounded`, `SerialUsedOnce`, `SerialFirstPurchase`. The invariant
  adds that a call past its validation is asked the price that is due, and that
  an order is saved, and an answer given, only by a call that has ended, so that
  the columns of a saved order never change. A call begun after the coupon was
  closed stays shut out, for the coupon is never opened again (`ShutOut`). The bounds on
  the uses are about claims: orders that have held the coupon ever since they were
  saved, and calls that have passed the check (`FewClaims`). A call joins the
  claims only when no order holds the coupon, so that all other claims are calls
  under way, at most `MaxActive`; the claim of an order that is freed ends for good. That an
  order which has not been freed counts for the check, although reports and
  expiries may hit it in any status, is `FreedFits`. The two `Serial` theorems are what is left
  of this for `MaxActive <= 1`: no two orders have held the coupon without a break. No theorem
  assumes a bound on expiries, refunds or approvals.
- `MetricsCron_proofs`. `TypeCorrect`, `CleanRunRecovers`, `SuccessIsComplete`. `Covered` says that a
  day of the window that is not SUCCESS is still to be done unless something has
  failed in the run; `Counted` that the stores a run has passed on its current day
  have been recalculated, except those noted as failed.
- `Sales_proofs`. `SalesTypeCorrect`, `FewClashes`, `SalesOfCouponsAgree`, `DashboardTypeCorrect`,
  `CompletedSaleCounted`, `NoSaleInvented`, `SharesAddUp`. Sums over finite sets come first: `MapThenSumSet`
  is a recursive function on the subsets, and what it yields is proved by taking a
  minimal set for which a claim fails (`MinimalSubset`, from `WFMin`), because the library's
  induction theorems take an operator as a parameter. In `InfluencerSales`, every
  transaction that may still clash has found no row of its influencer and month, and holds a coupon of its
  own, so that clashes and such transactions together stay below the number of
  coupons; and a row that was found is still there (`RowsStand`), so that each
  transaction adds the same to both books. In `DashboardMetrics`, `JobsFit` says of a
  recalculation that has read the day that it has every completed order of it
  but those that changed since; `AloneFits` that one which nothing has disturbed has
  read all there is, and that the products it has written are parts of the month;
  `SoldInv` that what is read or written as sold stays sold.
  The shares then lose less than one percent per product to rounding (`FloorSum`).
- `UserAccounts_proofs`. `TypeCorrect`, `OneResellerPerAddress`, `LastResellerLeaves`,
  `OwnSecretChangesPassword`. `KeysHold` (addresses are unique in a store, resellers across
  stores) gives the first; `DemotesOther` (a demotion is asked for by a reseller of
  the same store about someone else, unless he has lost his role since) the
  second; `ChecksHold` (what a password request has checked holds unless its row
  is marked as changed) the third. Each write is split into what it changes
  (lemmas on records) and whom it touches (`TouchedRequests`).
- `Registration_proofs`. `Invariant`, `TypeCorrect`, `CleanupSparesVerified`, `OwnCodeVerifies`. A write
  by address hits the row that was checked because the keys are unique
  (`KeysUnique`), a request has found one row at most (`FoundOne`), and what it found
  still matches its code unless the row has been written since (`ChecksHold`). `Writes`
  lists what any step may do to a row.
- `Images_proofs`. `BannersInvariant`, `BannersTypeCorrect`, `LimitHolds`, `ImagesAreServed`,
  `BannersKept`, `CatalogTypeCorrect`, `DefaultNeverDeleted`, `ImagesLostWithCause`. The limit of the
  banners holds, until a PATCH lists more, because each request has room for its own
  uploads in what it has read (`RoomLeft`), whatever the row has become since. The images
  are served because a file that no PATCH has listed belongs to one entry of one field
  and, until it is saved, to one request (`FilesApart`), and because a request that is not
  stale knows what the row holds (`Begun`). In `CatalogImages` nothing is assumed of the URLs in
  the rows; a request holds no file to delete but those it has found unused (`Holds`), never
  the default, and of the packages that have not got another image since it began it
  knows what they show (`Knows`).

Every state and action property of the passing runs is stated by a theorem. Type
correctness is proved for all ten components; a run checks it where a defect of the
code would break it. Some properties are proved and checked by no run: the other
type invariants, `RequestsBounded`, `PaymentMirrorsProvider`, `ClashesBounded`,
`OutcomeIsFinal`, and the two `Serial` theorems.

Only model-checked: what holds under fairness (`EveryRowSettles`,
`ApprovedNoticeTakesEffect`, `PaidLeadsToRecharge`, `EveryRequestAnswered`, `RegistrationSettles`), for
the prover has no liveness rules; and the counterexample of `OrderPayment_retry`.


## 6. Plan

Order: what grants diamonds first (done), then what decides prices and counts
(done), then the tables around it.

1. `BigoRecharge`, `OrderPayment`, `RechargeLedger`: done. Next, `RechargeSystem`: the composition of
   the two, with `OrderPayment`'s `bigo` replaced by the rows of `BigoRecharge`, so that the
   time of a queued retry and of a restart is the same on both sides.
2. `OrderCreation`, `InfluencerSales`, `MetricsCron`, `DashboardMetrics`: done.
3. `Registration`, `UserAccounts`: done.
4. `StoreBanners`, `CatalogImages`: done. `CouponAdmin` (titles and featured coupons) is left.
5. Pure functions against reference definitions: retry delays, discounts, cron
   health.
6. Theorems: every safety property of the runs is proved. Next, those of
   `RechargeSystem` and `CouponAdmin`, once they are written.
