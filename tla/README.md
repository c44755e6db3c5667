# A TLA+ model of scoutlgs (mtg-scraper)

The repository scrapes Magic card offers from Shopify stores, keeps them in
Postgres and serves lists, carts and an optimizer over them.  This directory
holds TLA+ modules of its concurrent parts, the TLC configurations that check
them on small instances, and TLAPS proofs.

## 1. The system

Six processes share Postgres and Redis (Bull job queues, counters, channels):
`apps/scheduler` (crons, manual triggers), `apps/scraper` (three replicas of the
queue workers), `apps/api`, `apps/optimizer`, `apps/auth` and the front ends.
`packages/core` and `packages/shared` hold what they share.

| Component | State | Operations | What is hard | What makes it correct |
|---|---|---|---|---|
| Catalogue discovery (`scraper/storefront`) | jobs in Redis; what has been processed | plan, bucket, recovery of known offers; throttling | follow-up jobs are separate writes; a job is run again after a crash or an error; the shop's pagination limit; cursors | every product of a planned discovery is processed, reported, or still promised by a job |
| Job queue and sweeper (`core/queue`, scheduler) | waiting and failed jobs | enqueue, retry, park, evict, sweep | add and remove are two steps; counters carried in job data; bounded history | work is not lost silently; sweeping ends |
| Batched listing writes (`scraper/extraction`) | in-memory buffers; listing tables; run counters | addMany, flush (upsert, clean-ups, counts), drain | overlapping flushes, retry of half-done batches, crash with a full buffer | an extraction is written exactly once, or lost only with its process; the tables converge to the last answer |
| Product pipeline (`processPage`, extraction, unmatched cards) | product_urls, shopify_products, unmatched_cards | process a page, re-extract, rename, exclude | many writes outside a transaction, statuses written before the flush | a product is in exactly one of matched, unmatched, excluded; a re-run repairs |
| Cart product refresh (API, scraper, tab) | cooldown key in Redis, job with progress and result, the tab's poll | request, run, status, poll | two systems without a transaction; rows read while their writes are buffered; parallel batches that report through one chain; abandoned attempts | one refresh at a time; offers and reports are what a shop said; the tab's button comes back |
| Extraction runs (scheduler) | extraction_runs; plan jobs | cron, manual trigger, stale cleanup | check-then-act; late completion; restart in the middle | completed means kicked off; a run by hand is alone; no row stays running |
| Printing and token matchers | caches per process, negative answers too | match, warm up, flush | a flush or a warm-up racing a lookup; what earlier products left in a cache; numbers that differ by zeros | no sticky miss after an announcement; a product is filed under its card and the printing it names |
| Card lists (API and tab) | lists, entries; the lists a tab shows | create, replace, add, rename, delete, expire; optimistic changes | count-then-insert, MAX+1, delete+insert outside a transaction; overlapping answers | limits, no emptied list, the tab agrees with the rows |
| Carts (tab, API), clean-up | the tab's cart with a version; cart rows | change, persist, hydrate; nightly clean-up | answers out of order; find, check elsewhere, delete | the tab agrees with the row; carts in use survive |
| Checkout, limiter | the page's links; INCR/EXPIRE counter | prepare, build, abort, retry | the cart changes while links are built; crash between two commands | links of the cart that is shown |
| Sessions, sign-in (`apps/auth`) | principals, sessions, users, cookies | refresh, logout, anonymous creation, sign-in and upgrade | entities loaded, then saved; races on unique indexes; lost answers | quota; one owner per principal; late saves die out |
| Fill Best Cards (builder page, API) | the cart's lock, delivery selections, a fill per page | estimate, quote, optimize, poll, add, select delivery | the page is left and opened again, puts in flight, a quote that is refused or late | cards are brought once; deliveries are those of the fill; the lock has an owner |
| Cart optimizer | the best subset so far | query, prepare, enumerate | 32-bit masks, deadline, policies after a ranking | the result is a minimum |
| Catalogue sync (Scryfall) | sets, printings, re-match jobs | import, announce, queue re-matches | a stop between import, message and queue; message against delayed job | products of a new set are matched in the end |

Read-only queries (card and token search, stores, admin, health), the legacy
caches, proxies, request signing, the Shopify client and the presentation of the
front ends have no protocol of their own and are not modelled (section 7).

## 2. Modules

| Module | Role |
|---|---|
| `CatalogueDiscovery` | what discovery promises: a product is owed until it is processed or reported, and discovery closes only when nothing is owed |
| `BucketDiscovery` | the plan, bucket and recovery handlers, the queue and the sweeper |
| `BucketDiscoveryProofs` | its theorems |
| `MCBucketDiscovery` | its instances: catalogues of three or four products, years of two ticks |
| `BatchAccumulator` | the accumulators, upserts, clean-ups, counters, crashes and shutdown |
| `BatchAccumulatorProofs` | its type invariant and its three safety properties |
| `MCBatchAccumulator` | its instances |
| `ProductPipeline` | what `processPage` and its four callers write to the product tables, one statement at a time |
| `ProductPipelineProofs` | its type invariant and where offers come from |
| `MCProductPipeline` | its instances |
| `ExtractionRuns` | crons, manual triggers, waves and stale rows of the scheduler |
| `CatalogueSync` | new sets: the import, the announcement, the scrapers' caches, re-matches |
| `Scheduler` | these two side by side, with the properties of both |
| `SchedulerProofs` | the safety theorems of both, and of `Scheduler` as a whole |
| `MCScheduler` | its instance |
| `Accounts` | principals, sessions, sign-ins and the creation quota, behind a browser with several tabs |
| `AccountsProofs` | all its properties, as theorems |
| `MCAccounts` | its instance |
| `CartRefresh` | a refresh of a list's offers: the tab that polls, the job, its batches and the buffered rows |
| `PrintingMatch` | which printing a product is: both matchers with their caches |
| `Jobs` | these two side by side, with the property of the latter |
| `JobsProofs` | the theorems about both: what a refresh says was so, its bar never falls and counts each product once; caches agree with the tables, a product gets the printing it names |
| `MCJobs` | one instance of `Jobs`, the sweeping part of `BucketDiscovery` and the draining of `BatchAccumulator`, side by side |
| `Carts` | a tab's cart, the checkout page, the cart rows, the limiter and the clean-up |
| `CardLists` | list rows, list requests, the refresh cooldown and a tab's view |
| `CartOptimizer` | an optimization job |
| `FillBestCards` | the builder page's fill, with the cart's lock and delivery quotes |
| `Shopper` | these four side by side, with the properties of each |
| `ShopperCartProofs` | the theorems about `Carts`, `FillBestCards` and `CartOptimizer` |
| `ShopperListProofs` | the theorems about `CardLists`, and about `Shopper` as a whole |
| `MCShopper` | its instance |

### BucketDiscovery

`job` maps slots to jobs.  A slot stands for a Bull job identifier and is reused
after the job is gone.  A job is *waiting* (queued, delayed or being fetched),
*adding* (the handler has its answer and still has to await some `queue.add`) or
*failed*.  `todo` holds the job data still to be added, so a crash, an error or
the eviction of another job can fall between any two writes.  A cursor is the
set of products the walk has already served.

| Action | Code |
|---|---|
| `EnqueuePlan` | `QueueService.enqueueStorefrontPlanJob` |
| `RunPlan`, `AddFollowUp`, `Return` | `StorefrontProcessor.plan`, one awaited add at a time |
| `ServePage`, `Split`, `GiveUp`, `BrokenPage` | `StorefrontProcessor.bucket`: a page, the pagination limit above and at millisecond precision, a page that cannot be served |
| `Recover` | `recoverKnownOffers`, which swallows the error of a batch |
| `Throttle` | `rescheduleIfThrottled`: the job's own data is added again, then it succeeds |
| `Error`, `Crash` | a throwing handler (one try less, parked after the last); a worker that dies (the stalled job runs again or is parked) |
| `SweepAdd`, `SweepRemove`, `SweepAbort` | `sweepFailedStorefrontJobs`: add, then remove, with a stop in between |

Abstractions, besides those named at the head of the module.  The two
`removeOnFail` limits (100 for a plan, 500 for any other job) are one number
`KeepFailed`, and which failed job is evicted is left open.  The sweeper's
30-minute age limit is untimed, and one sweep runs at a time.  The recovery may
process any known products, not only those of its range, as in the code.  A
shop's `hasNextPage` comes with a cursor.  A job is retried `PlanAttempts` or
`JobAttempts` times (3 and 5 in the code).  `bucketDepth` only reaches a log
line: the comment of `StorefrontBucketJobData` (queue.types.ts:137) says it caps
the splitting, but no code reads it for that; what ends the splitting is the
millisecond.

### BatchAccumulator

An item is one extraction of one product, an index into `log`.  `buffer` and
`flight` are the worker's memory, `flight[w][s]` being a batch in one of
`MaxConcurrentFlushes` slots with its stage (upsert, clean-ups one item at a
time, counters one run at a time).  `stock` is what the tables offer.  `flushed`,
`lost` and `alone` are history: items whose flush succeeded, items that went
down with a process, and items extracted while no other item of their product
was pending.

| Action | Code |
|---|---|
| `Extract` | the end of `processExtractedVariants` and `handleTokenProduct` with `addMany`; a token product that is sold out is cleaned up directly |
| `Tick` | the two-second interval, or a turn of `drain` |
| `Upsert`, `Cleanup`, `Count`, `Finish` | the promise chain of `drainBuffer` with `upsertBatch`, `deleteStaleListings`, `incrementRunExtractions` |
| `Fail` | its `catch` and `finally`; the failing statement may have taken effect |
| `Stop`, `Drained`, `Exit`, `Crash` | SIGTERM, `onModuleDestroy` with `drain`, the end of the process |

`TokenPipeline` chooses between the two twins.  `ShutdownHooks` says whether the
process runs `onModuleDestroy` when it is stopped: `main.ts` does not enable
that; it is TRUE in the runs in which a process stops, where it stands for any
caller of `app.close()`, and a stop without it is the `Crash` of the model.  Prices, quantities and titles are left out: a
property about which extraction shows is decided by the stock alone.  Variants
without a platform identifier, which clean-ups skip, are left out.  An upsert
merges the rows of one product in place, so that a failed batch carries merged
rows; merging anew gives the same tables and is what the model does.

### ProductPipeline

`shop` is what the store would answer about a product; `row` is its
`shopify_products` row, `listing` and `unmatched` are `card_listings` (with the
stock of their variants) and `unmatched_cards` by product URL, and `pending` is
what the accumulators hold, a bag from which any element may be written next.
`job` holds what a handler has read so far: the shop's answer, the URL it chose,
whether the row was matched when it looked.  All of that may be old when it is
used, which is the point of the module.  `given` is history: the stocks the shop
has answered.

| Action | Code |
|---|---|
| `Start` | a handler chooses the product: a page of the discovery, `reextractUnmatched` with and without set codes, `recoverKnownOffers`, `refreshCartProducts` |
| `Fetch`, `MarkMissing`, `Drop` | the request; the sell-out of an absent known product; the delete of the batch's unmatched rows |
| `Classify`, `ClearListing`, `ClearUnmatched` | `excludeArtSeriesProducts`, whose two deletes run at once |
| `Lookup` | step 1 and 2 of `processPage`: known products keep their row's URL, the others get the URL of their handle |
| `Extract`, `ExtractFails`, `TokenStepFails` | `processExtractedVariants` and `handleTokenProduct`, with the errors that are caught and those that are not |
| `Save` | `bulkUpsertShopifyProducts`, which keeps the URL of a row that exists |
| `Flush` | a listing handed over earlier is upserted (`BatchAccumulator` in detail) |
| `Abort`, `Crash` | a handler that gives a batch up; a worker that dies with its buffers |
| `Edit` | the shop changes, renames, hides or restores the product |

A batch is followed for one of its products; that others are in it shows in one
place, the delete of a re-extraction for a product that did not come back.  A
throttled re-extraction queues itself again and ends, which is `Abort` and a
later `Start`.  A product that matches a token, the `token_listings` and the
`token` status (which no result of an extraction can bring about) are left out.
Two products share a product URL only if one takes a handle the other has
given up; the runs have one product.

### ExtractionRuns

`run` is the table `extraction_runs` in the order of `startedAt`, `planned[r]` the
stores that have a plan job of run `r`, `activity` what the scheduler's process is
doing: a wave a cron or a trigger has started, statement by statement.

| Action | Code |
|---|---|
| `CronTick`, `LateTick` | the nightly and hourly crons of `ExtractionScheduler.onModuleInit`, which clean up first or not |
| `Trigger`, `CheckLatest` | `ManualService.triggerExtractionRun`: the latest run's status |
| `CheckRunning` | `ExtractionScheduler.triggerExtractionRun`: is a row running |
| `CleanupStaleRuns` | rows running for six hours are marked `failed` |
| `CreateRun`, `Enqueue`, `Complete` | `queueExtractionForAllStores`, one store at a time; the completion is an update of the row whatever its status is by then |
| `Age`, `Fail`, `Crash` | six hours; a statement that fails (the wave is given up, its row stays); a restart |

### CatalogueSync

`imported` are the sets in the database, `mail[w]` announcements a scraper has not
received, `cache[w]` what it knows of each set's card name, `warm[w]` the
warm-ups under way with what they have read, `gen[w]` counts its flushes.  `task`
holds matches: each waits for the warm-up that ran when it began, looks at the
cache, asks the database, remembers the answer and saves the status.

| Action | Code |
|---|---|
| `Release`, `Fetch`, `ImportSet`, `Publish`, `QueueRematches`, `SyncFails` | `syncMissingSets`, one set at a time, and what cuts it short |
| `Hear`, `Read`, `Load` | `subscribeToCardDataChanges`, `warmCaches`: flush, query, fill |
| `Begin`, `Warm`, `Lookup`, `Answer`, `Save` | `PrintingMatcherService.match` for a page or a re-match, and the status that is saved |
| `Scan`, `StartRematch`, `Rematch` | what hands products to the matcher: a page of the discovery, a delayed re-match job |
| `Restart`, `TaskFails` | a scraper starts with an empty cache; a statement fails |

### CartRefresh

An item is one variant.  `shop` is what its shop would answer, `row` what is stored,
`buffered` an answer that `processPage` has handed to the accumulator and `late` what
a batch of an abandoned attempt still does to the rows.  `state`, `failures`,
`stalled`, `progress` and `result` are the Bull job's, `at`, `answer` and `outcome` an
attempt's; `tab`, `overdue`, `seen` and `report` the hook's.  `known` is history.

| Action | Code |
|---|---|
| `Click`, `Request`, `RequestFails`, `ReadJob`, `Answer`, `PollAgain`, `DeadlinePasses`, `Close` | `useListRefresh` with `ListRefreshService.request` and `status`: the job is read before its state |
| `Take`, `Complete`, `LastWrite` | `refreshCartProducts` from the query to its `return`, and the worker |
| `Fetch`, `MarkMissing`, `ProcessPage`, `ReadRows` | a batch: the request, the sell-out of what is absent, the page, the rows that are read back |
| `PageErrors`, `BatchFails`, `StoreFails` | what the batch's and the store's `catch` make of an error |
| `WriteProgress`, `WriteFails` | the chain of `reportProgress` |
| `AttemptFails`, `Crash`, `Flush`, `Apply`, `Rediscover`, `ShopChanges` | an attempt that throws, a stall; writes that come later; discovery beside the refresh; the shops |

### PrintingMatch

`Match` is the whole of `PrintingMatcherService.match` and, for what it leaves
unmatched, `TokenMatcherService.match`, for one product after the other: the name a
title means (exact, front face, similar), the set (code, name, part of a name), the
row with that number, `resolvePrinting`, and what each look-up leaves in the caches
(`Learned`).  Text similarity itself is the database's and enters as constants.

### Accounts

`principal`, `anonymous`, `session`, `owner` and the like are the tables; `cookie`
is the browser's jar, shared by its tabs; `req[r]` is a request with the cookies it
carried and the entities it has loaded.  TypeORM's `save` writes the entity it has
in memory, so `SaveUserSession` writes what `LoadUserSession` read.

| Action | Code |
|---|---|
| `Send`, `Receive`, `LoseAnswer` | a route is called with the jar's cookies; its answer sets cookies, or is lost |
| `CheckAccess`, `LoadUserSession`, `SaveUserSession`, `SavePrincipal` | `getSession` and `refreshUserSession` |
| `LoadAnonymousSession`, `SaveAnonymousSession`, `SaveShopper` | `getExistingAnonymousSession`, `refreshAnonymousSession` |
| `CreateAnonymousPrincipal` | `createAnonymousPrincipal` with `consumeAnonymousCreationQuota`, one transaction |
| `StartGoogleSignIn`, `HandleGoogleCallback` | the state cookie and the exchange with Google |
| `Identify`, `CommitSignIn`, `RollBackSignIn` | `OAuthSignInService.signInWithGoogle`: what its transaction read, its commit under the unique indexes, and a refusal |
| `Logout`, `RevokeSession` | `UserAuthService.logout` |
| `Expire`, `Disable` | time; an operator disables an account |

### Carts

`items` is what the tab shows, `version` its `syncVersionRef`, `page` the checkout
page, `calls` the tab's requests in the order they were sent.

| Action | Code |
|---|---|
| `AddMany`, `RemoveItem`, `Clear` | `CartContext`: the tab changes, sends the whole cart, and the checkout page is told (`Shown`) |
| `Reload`, `Hydrated`, `Pushed`, `Ignore` | `hydrateCart` after a sign-in: the row, or the local cart if there is none |
| `FindVariants`, `UpsertCart`, `ReadBack`, `GetCart` | `CartService`, a statement at a time |
| `Persisted` | the answer of `persist`, used only if it is of the latest version |
| `OpenCheckout`, `Retry`, `Prepared`, `Built`, `CheckoutFails`, `TimeOut` | `buildCheckoutLinks` in `checkout.tsx` |
| `Count`, `SetExpiry`, `BuildLinks`, `WindowEnds` | the limiter's INCR and EXPIRE; `CheckoutService.buildCheckout` |
| `SelectCandidates`, `FindRegistered`, `ExcludeRegistered`, `DeleteCarts` | `CartCleanupService`, across two databases |
| `Age`, `Register`, `SellOut`, `Break` | time, a sign-up, a shop, a request that dies |

### CardLists

`row` is `card_lists` with its entries by position, `shown` the tab's lists, `calls`
the requests of the tab and of another client of the same owner.

| Action | Code |
|---|---|
| `Save`, `Rename`, `RemoveList`, `AddCardToList`, `RemoveCardFromList`, `AddCardToListById` | `ListsContext`: change at once, send, and `FetchList`, `ShowList` or `RollBack` |
| `FindOwnedList`, `CountLists`, `SaveNewList`, `SaveList`, `DeleteList`, `GetList` | `ListsService` |
| `DeleteEntries`, `InsertEntries`, `NextPosition`, `InsertEntry`, `TouchExpiry` | `replaceCards` and `addCardById`, one statement at a time |
| `Claim`, `EnqueueRefresh`, `MarkRefresh`, `CooldownEnds` | `ListRefreshService.request` |
| `Foreign`, `Break`, `Expire` | another client, a request that dies, a list that expires |

The second half of `replaceCards` and a rename work on the entity they loaded: a
`save` after a `delete` inserts the row again, without entries.

### FillBestCards

`items`, `puts` and `stored` are the tab's cart, the requests that carry it and the
row; `locked` is `mutationLockedRef`, `delivery` the selections that go to checkout,
each the number of the fill it was made for; `fill[m]` is what the page's `m`-th
showing has under way, which goes on after the page has been left.

| Action | Code |
|---|---|
| `Add`, `Remove`, `Clear`, `ServePut`, `LosePut` | `CartContext` under its lock; the request with the cart, whose failure undoes a fill's own items |
| `OpenDialog`, `CloseDialog`, `Leave` | the delivery dialog; the page goes and comes |
| `StartEstimatedFill`, `LoadDeliveryOptions`, `StartQuotedFill` | the three ways to begin |
| `CreateJob`, `Optimize`, `ReadJob`, `ReadState` | `createOptimization`, the job, `getOptimizationStatus`, which reads the job and then its state |
| `GetQuote`, `RefuseQuote` | `DeliveryQuoteService` |
| `TimerFires`, `RequestFails`, `SellOut` | the poll's timeout; a request that fails; an offer that is gone |

### CartOptimizer

`Load` is the query of `CardOptimizationService` (offers that are eligible, the
cheapest per position and store) with `prepareCandidates` and
`applyDowngradeSavingsPolicy`; `Evaluate` one turn of the loop over subset masks;
`Deadline` leaves it.  Masks are exact (`1 << index` wraps at 32 stores, which the
minute of a job never gets through), and so are sums of prices, which are counted in
parts of a dollar, `Dollar` of them.  `NoBetterCart` compares the result with every
choice of offers, not with another enumeration of subsets; `MissingUnavailable` says
what "better" must come to: no card is left out that can be bought, except by the
policy of mode `cheaper`.

## 3. Runs

| Run | Bounds | Checks |
|---|---|---|
| `discovery` | 4 products in 2 years, two in one millisecond; pages of 1, depth limit 1; one page never served; 4 job slots, one plan with 2 tries, others with 1, one sweep, one failed job kept, one fault | `NoSilentLoss`, `CursorHonest`, `FlaggedOnlyIfDense`, `ImplementsDiscovery` |
| `sweep_cycle` | second page broken, no fault | `SweeperSettles` is violated (finding) |
| `batch` | 2 workers, 2 runs, 1 product with 2 variants, 3 extractions, batches of 2, 2 flushes at once, an answer with both variants and one with neither, 1 failure, crash or stop with its drain | `OneHome`, `CountedOnce`, `LastAnswerShown` |
| `batch_last` | 1 worker, 2 extractions, no fault | `LastOccurrenceKept` is violated (finding) |
| `pipeline` | 1 product, 2 handles, 7 answers, 2 slots (discovery; the rest), 3 jobs and buffered listings at a time, 1 change of the shop, 1 fault | `OffersFromAnswers`; `OffersRepaired`, `MarksRepaired` under fairness |
| `pipeline_stale` | 1 handle, 2 answers, 1 change, no fault | `KnownUpdated` is violated (finding) |
| `accounts` | 3 Google identities with 2 addresses (Google speaks for two of them), 3 principals, 2 user sessions, 2 sign-in states, 2 requests at a time and 4 in all, quota 2, 1 expiry, lost answer or disabled account | `QuotaHeld`, `OneOwner`, `RevokedSettles`, `UpgradeSettles` |
| `shopper`, part carts | 2 owners, 2 variants, 3 requests at a time, 2 changes, 1 checkout per window, 1 fault, sell-out or timeout | `ShopperTypeOK`, `QuietAgreement`, `LinksMatchCart`, `SparedCartsKept` |
| `shopper`, part lists | 2 rows, a limit of 1, lists of at most 2 cards, one of them unknown, 2 requests at a time and 3 in all, new lists and foreign replacements without or with a known card | `ShopperTypeOK`, `NeverEmptied`, `LimitHeldAlone`, `ShownIsStored`, `RefreshedOnce` |
| `shopper`, part optimizer | 2 positions, 2 stores, every subset of 8 offers in 3 conditions and 2 sets, 3 modes, 3 minima, with and without a penalty and a cart | `ShopperTypeOK`, `NoBetterCart`, `MissingUnavailable` |
| `shopper`, part fill | 1 card offered by 2 stores, 2 showings of the page, 2 fills, 1 change, failure or sell-out | `FillAddsMissing`, `DeliveryMatchesFill`, `LockHasOwner` |
| `optimizer_condition` | the optimizer part alone | `RequestedConditionFound` is violated (finding) |
| `scheduler`, part runs | 2 stores, 2 rows, 2 activities, 1 manual trigger, 1 restart or failure | `CompletedIsKickedOff`, `ManualRunsAlone`, `RunsSettle` |
| `scheduler`, part catalogue | 2 sets, 1 product, 1 scraper with 2 tasks, 1 failure, restart or lost message | `RematchSeesTheSet`, `NoStickyMiss`, `MatchedAtLast` |
| `jobs`, part refresh | 2 offers of a card in 2 batches of one store, 2 prices, 2 attempts, 1 change, 1 fault | `NothingInvented`, `ProgressHonest`; `RefreshReleased` under fairness |
| `jobs`, part sweep | 3 products, first page broken, jobs with 2 tries, depth limit 2 | `SweeperSettles`, `EveryProductResolved` under fairness |
| `jobs`, part drain | 1 worker, token pipeline, 3 extractions, 1 fault, 1 stop | `EverythingFlushed` under fairness |
| `jobs`, part match | 4 printings of cards in 2 sets, 2 of a token, 4 catalogues, pairs of products | `FindsThePrinting` |
| `refresh_unconfirmed` | the refresh part alone | `UnavailableConfirmed` is violated (finding) |

Why the bounds are enough.  Discovery: the catalogue makes a plan with two
buckets, a bucket that splits, one that is given up at one millisecond, a
recovery, a continuation, a parked and swept bucket and an eviction all happen
within one behaviour, with a fault before or after each queue write; the proofs
then lift the safety properties to every catalogue and number of faults.
Accumulator: three extractions with batches of two give a full batch and a
remainder, two slots give overlapping flushes of one worker, two workers
overlapping processes; products are independent of each other, so one suffices
for the conflicts; a failure, a crash and a stop are each enough to break a batch
anywhere, and `OneMishap` allows one of them.  Pipeline: one change of answer and handle lets every pair of
judgements, with and without a rename, meet in two jobs at different steps and a
buffered listing of the older one.  (With three answers, two changes were checked
as well: 641 thousand states.)  The number of job slots limits how many jobs are alive, so
an enqueue waits when they are all in use; the runs about liveness have enough
slots for every job their catalogue can bring about.  Deadlock is not checked:
an idle queue and a bounded number of extractions simply stop.

The later modules.  Accounts: two requests at a time let every pair of routes
interleave statement by statement, four in all make a sign-in, a creation, a
refresh and a log-out of one session; three identities with two addresses give
every way the sign-in may find, link or refuse a user.  Carts: two changes and a
hydration give three answers in any order, with a page opened between them
(with three changes: 3.8 million states).  Lists: a limit of one and two rows
make the limit bite, two requests at a time an interleaving of each pair.
Optimizer: eight offers make stores with one, several and no eligible copies.
Runs: two activities overlap, two rows give a latest and an older one (with
three rows, and with two manual triggers, the module passes as well).  Catalogue:
two sets make a second announcement arrive during the warm-up of the first (one
set with two scrapers, and two tasks on each, passes as well).  Fill: one card with
two offers is brought twice as soon as one fill misses what another has brought, and
two showings of the page are enough for two fills at once.  Refresh: two batches of
one store meet in the chain of progress writes, in one `Promise.all`, and in an
attempt that is abandoned while one of them goes on; two attempts make a retry.
Matching: a pair of products is what one look-up can leave for the next.

`Shopper`, `Scheduler`, `Jobs` and `MCJobs` put modules that share no state next to each other:
a behaviour chooses one part and leaves the others at rest, so that the states
are the sum of the parts' and not their product.

Symmetry (workers, runs; identifiers of principals, sessions, states and requests;
variants) is used in `batch`, `accounts` and `shopper`, which have no liveness.

Fairness.  `BucketDiscovery!FairSpec` lets every job slot's worker and sweeper
steps happen if they stay possible: Bull's workers poll the queue for as long
as they run and restart with their container, and the sweeper is a cron job.
Nothing forces a plan, a throttle, an error or a crash.  `BatchAccumulator!Fairness`
assumes that the interval fires, that the database answers and that the drain
loop polls; a failure and a stop are never forced.  `ProductPipeline!FairSpec`
lets a job that has begun go on and a buffered listing be written, and lets the
discovery, which the scheduler starts every day, come by a product again and
again (strong fairness, since the worker may be busy whenever its turn comes); no
re-extraction, recovery or refresh is ever forced.  `MaxLoad` is a guard of `Start`
alone, so that the bound never holds up a job that has begun.
`ExtractionRuns!Fairness` assumes that an activity that has begun goes on (a wave
that fails or is cut off by a restart is a fault, bounded and never forced), that
crons come by, and that six hours pass.  `CatalogueSync!Fairness` assumes that the
sync, the scrapers' messages and warm-ups, queries and delayed jobs go on, and that
discovery and a queued re-match come by each product again and again (strong, since
the scraper's tasks may all be busy).  `CartRefresh!Fairness` assumes only that the
tab's own requests are answered or refused and that its clock runs: the button comes
back whatever the job does, or if nothing takes it.  `MCJobs` states the fairness of
each part under that part's name.

Constants that stand for the world.  `InOrder` and `Early` in `Carts`: requests of
one tab are served in the order they are sent, and the shopper changes the cart
only once it is loaded; without either the tab and the row may disagree (section
4).  `Prompt` in `CatalogueSync`: a query begun before an import answers before
the caches are warm again.  The cart's and the lists' rows at the start, the offers
and requests of the optimizer are inputs.

## 4. What the runs found

* `sweep_cycle`: the data of a next page and of half buckets is built without
  `sweeperAttempts`, so a bucket that fails after its first page is swept for
  ever, against the comment in `extraction.scheduler.ts:69-70`.
* `batch_last`: when one batch holds two extractions of a product, the older
  one's stale clean-up runs after the upsert of the newer one's rows, so that a
  restocked variant ends out of stock until the next extraction.
* `pipeline_stale`: a matched product goes through the matcher every time, against
  the entity's comment; when its title stops matching, its offer keeps an old stock.
* `refresh_unconfirmed`: the rows of a page are only buffered when the batch reads them
  back, so a product that the shop has just returned in stock is reported unavailable
  if its row said so, and a report counts a card as unavailable although no shop has,
  against `refresh-result-summary.ts:23-25`.
* `optimizer_condition`: the query hands the optimizer only a store's cheapest
  eligible copy; when the policy rules that copy out, the card is missing although
  the store has it in the requested condition, against `cart-optimizer.spec.ts:282`.
  `MissingUnavailable`, which is proved, says that only mode `cheaper` does this.

`OffersRepaired` and `MarksRepaired` bound the damage of everything that goes
wrong inside a page: whatever order the handlers' statements took, the next
discoveries put it right.  They say nothing of a product the shop has removed:
discovery never marks one as sold out, only a recovery or a refresh does.  Nor do
they speak of the listing at the handle an unmatched product had before a rename.

`LastAnswerShown` says how far `batch_last` goes: an extraction that overlaps
with no other one of its product repairs the tables.

Observed while modelling; each is behaviour of the model, and the named property is
stated so that it holds beside it.

* Scraper: nothing enables Nest's shutdown hooks (`main.ts`), so the drain "used
  during graceful shutdown" is not reached when the container is stopped.  A
  re-extraction of set codes that stops after its delete does not find the product
  when the same job is run again, against the comment at `storefront.processor.ts:534`.
* Catalogue: a failure between the import and the announcement leaves sets nobody
  announces or re-matches (`silent` in `MatchedAtLast`).  A query begun before an
  import may answer after the caches are warm again and leave a negative answer
  (`Prompt`).  A re-match selects by `unmatched_cards.set_code` alone, and the token
  matcher's caches are never flushed.
* Cart: agreement needs requests served in order and a loaded cart; hydration has no
  version check (`InOrder`, `Early`).  The clean-up deletes what it selected: a cart
  touched after the selection, or a principal registered after the look-up, loses it.
* Limiter: EXPIRE is sent for the first hit only, so a stop between it and INCR
  leaves a key that no later request repairs.
* Lists: a rename or a change of filters saves the whole entity it loaded, which
  inserts a deleted list anew, empty, and puts an older name back.  `createList` with
  unknown names alone creates an empty list.  Two additions from one render of the
  page lose one.  The cooldown key is given back when only the second SET failed.
* Refresh: the status route reads the job and then its state, so a job that completes
  in between is answered as completed without items; `getOptimizationStatus` has the
  same race, and the page shows its missing result as an error.
  Once a progress write has failed, `reportProgress` rejects into the catch blocks, which
  count the batch or its whole store again: the attempt is lost by then, and the model
  counts once.
* Matching: `resolvePrinting` answers `any` also when a named set has no printing of
  the card, although `printing-matcher.service.ts:16` says "no set info"; a card that
  is ambiguous goes on to the token matcher; a token's set and number match whatever
  the title says.
* Fill Best Cards: a fill that begins while an earlier cart is on its way, or beside
  one of another showing of the page, brings a card twice, and the lock ends with
  whichever ends first (`clean` marks the fills for which neither happens).  Deliveries
  chosen while the cart is locked are dropped.  A quoted store without delivery groups
  keeps an older selection, and an error inside a deferred part of the answer leaves
  such a store, although `delivery-quote.service.ts` says "A failed quote remains
  explicitly unavailable".
* Shops' limiter: a denied permit waits and then sends without one, and its windows are
  those of the epoch's seconds although the comment says sliding.
* Optimizer: a wanted card is skipped at every position if the initial cart has its
  title; entries are read when the job runs, the initial cart when it is queued;
  subsets of 32 stores, where the mask wraps, are not reached within the deadline.
* Sessions: a late save of `refreshUserSession` may bring a revoked session back, or
  turn an upgraded principal anonymous again until the next sign-in; `RevokedSettles`
  and `UpgradeSettles` say that only requests that had loaded the row before can.

## 5. Proofs

`BucketDiscoveryProofs` proves, from the named assumptions of `BucketDiscovery`
alone (times are naturals, every product lies between the oldest and the newest
time, years are intervals in order, limits are positive):

* `TypeCorrect`, `NothingLostSilently`, `CursorsAreHonest`, `FlaggedAreDense`,
  each as `Spec => []...`, for every catalogue, calendar, page size, depth
  limit, retry and sweep budget, number of job slots, plans and faults;
* `QueueImplementsDiscovery`: `Spec => ImplementsDiscovery`, the refinement of
  `CatalogueDiscovery`.

The argument.  `NoSilentLoss` is not inductive by itself: a bucket may split
only if its halves cover it, a cursor may be dropped or kept only if what it
skips was processed, and a parked job that is being swept must have its copy in
the queue.  `IInv` therefore adds `SlotOK` for every slot: its data's range and
cursor are in order, its follow-ups together promise what the job itself
promised, and while a sweep is under way the failed job's products are promised
elsewhere.  `YearlyBucketsCover` and `HalvesPartition` are the facts about the
pure functions: the yearly buckets cover the catalogue and the halves of a range
meet.  Each action changes one or two slots; `Handover` says what has to be
shown of them, and one lemma per action shows it.  The refinement needs `IInv`,
that only a planned discovery has jobs, and that marks are never taken back.

`SchedulerProofs`, about `ExtractionRuns`: `TypeCorrect`, `CompletedOnlyWhenKickedOff`
and `ManualRunsAreAlone`, for any number of stores, activities, runs, triggers and
faults.  The inductive invariant adds that a wave's row counts down `left` as
`planned` grows (together they are the row's stores), that no two waves have one
row, and that a trigger has seen only rows that exist.

`SchedulerProofs`, about `CatalogueSync`: `MissesForgotten` and `RematchesInformed`,
for any number of sets, products, workers and matches at a time, and any failures,
restarts and lost messages.  `CatalogueInv` adds what is on its way to a worker
that listens (`NewsOK`): for every set that is announced, a message, or a load of
the latest generation that will see the set and began after every question whose
answer may still be a miss, or nothing left that could store one.  `RematchOK` adds
that a set whose re-matches are due has been heard of by every worker.  Both hold
where `Prompt` does: a query is answered before a later warm-up is through.  The run
is made under the same condition; section 4 says what happens without it.

`CatalogueTyped` proves the module's type invariant, which says of every load and match
that it is no further than its worker: what a load has seen is imported (`SeenKept`),
and the generation a match awaits or asked in has been begun (`AwaitsKept`), across
restarts, which set a worker's generation back and drop its matches.

`SchedulerIsSafe` puts the two together: the four safety properties hold of `Scheduler`
as the run checks it, and need none of its fairness.

`ProductPipelineProofs`: `TypeCorrect` and `OffersAreAnswers`.  An offer is written
from a buffered listing, that from a job's answer, that from the shop: the invariant
says of each of these places that its stock has been given.

`BatchAccumulatorProofs`: `TypesHold`, `NothingDroppedOrDoubled`, `NoCreditTwice` and
`TablesRepaired`, for any stores, products, runs, batch sizes, numbers of flushes at
once, crashes, failures and stops, and for both accumulators.  `IInv` has six parts.
`HomeOK` sees a worker's buffer and its slots as one memory in which every item that
is neither flushed nor lost is at exactly one index of one place; a drain cuts the
buffer into the free slots, a failure puts a batch back in front of it, and the
lemmas about `Spliced`, `Added`, `Returned` and `Emptied` say what that does to such
a memory.  `ActiveOK` ties the counter of active flushes to the slots in use, by
which the drain decides how many to start.  `CreditOK` bounds a run's counter by its
items that are written and not about to be counted, so that a crash between the
upserts and the count loses credit and never doubles it.  `LastOK` follows the last
extraction of a product when it overlapped with no other one: it alone is in memory,
and from its clean-up on the tables show its stock.

`AccountsProofs`: `TypeCorrect`, `QuotaIsHeld`, `OneOwnerEach`, `OwnersStay`.  The
invariant is about what requests carry: a request that is about to commit knows the
user and the principal it identified, which may be outdated; what keeps owners apart
is the check of the unique indexes at the commit, so the invariant ties every
principal that is owned to its one owner and every session to an owned user.  The
quota needs that counter and principals move together, with the library's facts
about cardinality (hence the assumption that `Principal` is finite).  Its
`RevocationsSettle` and `UpgradesSettle`: for a session that is revoked and that no
request is about to save, no step brings either back, since each action loads revoked
sessions nowhere, and saves only what it loaded.

`JobsProofs`, about `CartRefresh`: `ReportsAreFounded`, `BarNeverFalls`, `RefreshesTyped`
and `ProductsCountedOnce`.  An answer travels from
the shop to the batch, the buffer or the late writes, the row, the outcome, the job's
result, the tab; the invariant says of each of these places that what it holds has
been said by the shop or the row (`Known`).  It assumes `RefreshAssumption`: no batch
is empty (`fetchProductRefreshBatches` makes none), and the beginning is one of answers
and rows.  For the bar, `BarInv` says that the chained writes are
strictly increasing, all ahead of what is stored (`Chained`, `Behind`), and none
beyond what was announced, which is never more than the share of the batches that
have settled; the last write, of 100, goes through when all have.  `AttemptOK` ties
`completed` to the products whose batches are through, in an attempt exactly: a batch
that fails, or whose store does, is counted in one of three places of the code and, as
long as progress is written, never in two (`SettledGrows`, `ReportCounts`); hence it stays
within `Total`.  `JobOK` adds that
a job which may still run has failed fewer than `Attempts` times.

`JobsProofs`, about `PrintingMatch`: `PrintingsFound` and `CachesAgree`, for any catalogue, titles,
products and sequence of matches.  `MatchInv` says that what the caches hold of names,
sets and numbers is what the tables say, so that `Through` gives the same answer
either way (`CachesTell`, `HitFacts`); then the printing is a hit that agrees with the
name, or the best of the name's printings by priority and ID, which exists because
IDs are numbers (`TopFacts`), and which `Ambiguous` has kept apart from a second one of
its set.  It assumes `TitlesAssumption`: IDs are numbers, and a printing has a set and
a number.  `TokenCached` says of the token matcher's caches what `CardCached` says of the
card matcher's: with it `CachesAgree` proves the module's type invariant.

`ShopperCartProofs` and `ShopperListProofs` assume `ShopperAssumption`, the named
assumptions of the four modules they are about.  In `Shopper` the requests of one
tab are served in order and the cart is changed once it is loaded, as in the run.
`PartsIndependent` (`ShopperSpec => C!Spec /\ L!Spec /\ O!Spec /\ Spec`) shows that the
parts keep out of each other's way, so that `ShopperTypesHold` and `ShopperIsSafe` state
every safety property of the run of `Shopper` as a whole.

* `Carts`: `LinksLeadToTheCart`, `SparedSurvive`, `CartSettles`, for any variants,
  principals, limits, numbers of requests and changes.  `CartsInv` says that requests
  are served in turn (`CallsOK`) and, for each that a page waits for, that every write
  which may still come before its links are built is one of the cart the page shows,
  and that the row covers that cart once it is stored (`PageCalls`).  `BatchOK`: of the
  clean-up's batch, those it must spare have registered since, and none is left when
  it deletes.  `Agreed`: with nothing broken, the *last* write of the tab's principal
  to come carries the shown cart, and with none to come the row has it, up to what has
  sold out; while a stored cart is loaded this may not be so, but then that request
  is the last one, and its answer is shown.
* `FillBestCards`: `FillsWellTyped`, `LockIsOwned`, `DeliveryIsTheFills` and
  `FillsBringMissing`, for any offers, stores, showings, fills and events.  A fill is
  `clean` if it began with a cart at rest and alone: `FillInv` says that such a fill
  stays the only one, holds the lock, and that nobody changes the cart until it is done
  (`QuoteAlone`, `QuoteAwaited`), so that the offers it adds are of cards the cart still
  lacks; deliveries come with a priced fill or are those of an older turn (`PendingOK`).
* `CardLists`: `OneRefreshAtATime`, `OneListTooMany`, `EditsNeverEmpty` and
  `TabShowsTheStored`, for any lists, cards, lengths, limits, clients and requests.
  `RefreshOK`: whoever has claimed the key is alone and has not queued yet.  `LimitOK`:
  a request that has counted has room for one more, and one that writes has its own
  list counted in.  `FilledOK`: a list without its cards is being replaced by a request
  that has cards to insert.  `TabShows` is the long one: with the tab alone and nothing
  failed, for every list the last renaming to come has the shown name, the last edit
  ends with a fetch of what is stored, a list that is stored and not shown is being
  removed or created, and a list that is created is known to no other request.  The
  lemmas about `InPositions` and `Rank` (the cards of a list by position are those of
  the positions taken, each found by how many lie before it) are proved from the
  library's facts about cardinality.
* `CartOptimizer`: `OptimizerIsOptimal` and `MissingIsUnavailable`, for any list, offers,
  prices, shipping costs, penalties, requests and finite set of stores.
  `OptimizerAssumption`: variant IDs, stores and prices are numbers (a price that is not
  is dropped by `prepareCandidates`), shipping costs and penalties are not negative, and
  an offer, a cart and "none yet" can be told apart.  The argument has four steps.  What
  the query keeps of a store is matched to whatever else of that store might be chosen,
  at no higher cost (`RowsMatched`, `ChoosableMatched`).  Of all carts from given stores,
  the one `Evaluate` makes of them leaves out no more, and costs no more in offers or in
  shipping (`BestOfStores`).  Every set of the candidates' stores has a mask below
  `2 ^ n` (`EveryStores`).  And the best cart so far is one of those evaluated, none of
  which is better (`BestSoFar`, the inductive invariant).
  The library's induction theorems take an operator, but `WFMin` with
  `NatLessThanWellFounded` takes a set: so every set of numbers has a least element
  (`LeastOf`), and one with 0 that is closed under successor is all of them
  (`AllOfNat`).  From these come the binary digits of a mask (`AnyDigits`).  A sum
  over a set is a fold; `Sums` shows that it is the cardinality of a set of units, one
  for each unit of each term (`SumCounts`), after which sums compare as subsets do
  (`UnitsGrow`).

Only model-checked:

* liveness under fairness, which is out of TLAPS's reach: `OffersRepaired`,
  `MarksRepaired`, `RunsSettle`, `MatchedAtLast`, `SweeperSettles`,
  `EveryProductResolved`, `EverythingFlushed`, `RefreshReleased`.

Every other property of a passing run is a theorem, for all values of the constants its
assumption allows, and so is every type invariant of a module, most of which the runs
leave to the proofs.  The proofs hold where the models do: with the requests of a tab in
order and a loaded cart (`InOrder`, `Early`), with queries answered before a later
warm-up (`Prompt`), over a catalogue that stands still (`PrintingMatch`) and with exact
sums (`CartOptimizer`).

## 6. Plan

1. Done: the scraper's discovery, accumulator, pipeline, refresh and matchers; the
   scheduler's runs and catalogue sync; accounts; the shopper's cart, lists, fill and
   optimizer.
2. Done: every safety and action property of the passing runs, and the type invariants,
   as theorems, of the parts and of `Shopper` and `Scheduler` as a whole.
3. To be modelled next: a second sweeper; the token tables of the pipeline; the
   limiter of the shops' requests with its retries.

## 7. Not modelled

* Read-only queries (card, token and set search, stores, admin pages, health), which
  change nothing, and the SQL that ranks and filters them.
* The similarity of titles and the parsing of set and collector numbers from text:
  text processing, which enters `PrintingMatch` as constants.
* Legacy caches, proxies, request signing and the Shopify client: pure I/O; the
  throttling it reports enters `BucketDiscovery`.  `CacheService`'s waiting for another
  process's result, its locks, and the paged list prices of `ui-v2` have no caller.
* The limiter of the shops' requests delays and never refuses one, so that no model
  here depends on it.
* Email and password sign-up and sign-in: their routes are commented out
  (`auth.controller.ts:87-103`).
* In Fill Best Cards, saving the address, and the history that undo and redo walk.
* The presentation in `ui-v2`, `ui` and the superseded Next.js scraper, migrations and
  seeds: half of the repository's lines, with no state of their own that others share.
