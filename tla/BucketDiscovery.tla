--------------------------- MODULE BucketDiscovery ---------------------------
(***************************************************************************)
(* Discovery of one store's catalogue: the plan and bucket jobs of the     *)
(* scraper's StorefrontProcessor, the job queue that runs, retries and     *)
(* parks them, and the scheduler's sweeper of failed jobs.                 *)
(*                                                                         *)
(* A plan job cuts the catalogue's created_at range into yearly buckets; a *)
(* bucket job fetches one page, processes it and enqueues what remains: the*)
(* next page, or, at the shop's pagination limit, two half buckets, or, if *)
(* the bucket is one millisecond wide, a recovery of known offers.  Each   *)
(* follow-up is an awaited queue write of its own, so a worker may stop    *)
(* between any two of them; the queue then runs the same job again.        *)
(*                                                                         *)
(* Abstractions: the catalogue is fixed while it is discovered; delays and *)
(* backoff are untimed; processing a page is one step (what it writes is   *)
(* another module's subject); a job identifier is a slot that is reused;   *)
(* bucketDepth, which only reaches the log, is left out.                   *)
(***************************************************************************)
EXTENDS Integers, FiniteSets

CONSTANTS
    Product,        \* the products of the store's catalogue
    CreatedAt,      \* when each was created, in milliseconds
    Oldest, Newest, \* the first and last created_at, as the shop reports them
    YearOf(_),      \* the UTC year of a time
    YearStart(_),   \* the time at which a year begins
    EndSlack,       \* how far the last bucket reaches past Newest (1000)
    PageSize,       \* products per page (250)
    DepthLimit,     \* how deep the shop lets a cursor go (25000)
    Known,          \* products already matched to a listing before the run
    Broken,         \* products whose page the shop never manages to serve
    JobId,          \* slots for the jobs alive at one time
    PlanAttempts,   \* tries of a plan job from the scheduler (3)
    JobAttempts,    \* tries of every other job (5)
    SweeperMax,     \* SWEEPER_MAX_ATTEMPTS (5)
    KeepFailed,     \* failed jobs the queue keeps (removeOnFail: 500)
    MaxPlans,       \* bound: plan jobs the scheduler enqueues
    MaxFaults       \* bound: throttles, errors and crashes in a behaviour

ASSUME CatalogueAssumption ==
    /\ CreatedAt \in [Product -> Nat]
    /\ Oldest \in Nat /\ Newest \in Nat /\ EndSlack \in Nat \ {0}
    /\ \A p \in Product : Oldest <= CreatedAt[p] /\ CreatedAt[p] <= Newest
    /\ Known \subseteq Product /\ Broken \subseteq Product
    /\ Product \subseteq Nat /\ IsFiniteSet(Product)

\* The calendar, at the times that occur.
ASSUME CalendarAssumption ==
    LET Times == {Oldest, Newest} \cup {CreatedAt[p] : p \in Product}
    IN  \A t \in Times :
            /\ YearOf(t) \in Nat
            /\ YearStart(YearOf(t)) <= t /\ t < YearStart(YearOf(t) + 1)
            /\ \A u \in Times : t <= u => YearOf(t) <= YearOf(u)

ASSUME YearStartAssumption ==
    \A y \in YearOf(Oldest) .. YearOf(Newest) + 1 : YearStart(y) \in Nat

ASSUME BudgetAssumption ==
    /\ PageSize \in Nat \ {0} /\ DepthLimit \in Nat /\ PageSize <= DepthLimit
    /\ PlanAttempts \in Nat \ {0} /\ JobAttempts \in Nat \ {0}
    /\ SweeperMax \in Nat /\ KeepFailed \in Nat \ {0}
    /\ MaxPlans \in Nat /\ MaxFaults \in Nat
    /\ JobId \subseteq Nat

VARIABLES
    job,       \* the queue: what is in each slot
    seen,      \* products handed to processPage
    flagged,   \* products of ranges reported as INCOMPLETE DISCOVERY
    evicted,   \* products of failed jobs the queue has thrown away
    sweeping,  \* {n}: the sweeper has re-added failed job n, not yet removed it
    plans,     \* plan jobs enqueued so far
    faults     \* faults so far

vars == <<job, seen, flagged, evicted, sweeping, plans, faults>>

-----------------------------------------------------------------------------
(* Job data.  A cursor is the set of products already served by this walk. *)

JobData == [kind : {"plan", "bucket", "recovery"}, lo : Nat, hi : Nat,
            cursor : SUBSET Product, sweeps : 0 .. SweeperMax]

PlanData == [kind |-> "plan", lo |-> 0, hi |-> 0, cursor |-> {}, sweeps |-> 0]

Bucket(lo, hi, cursor) ==
    [kind |-> "bucket", lo |-> lo, hi |-> hi, cursor |-> cursor, sweeps |-> 0]

Recovery(lo, hi) ==
    [kind |-> "recovery", lo |-> lo, hi |-> hi, cursor |-> {}, sweeps |-> 0]

\* Mutant: the last bucket ends at the newest product, whose bound excludes it.
YearlyBucketsWithoutSlack(min, max) ==
    { Bucket(IF y = YearOf(min) THEN min ELSE YearStart(y),
             IF YearStart(y + 1) > max THEN max ELSE YearStart(y + 1),
             {}) : y \in YearOf(min) .. YearOf(max) }

\* generateYearlyBuckets: one bucket per UTC year that the range touches.
YearlyBuckets(min, max) ==
    { Bucket(IF y = YearOf(min) THEN min ELSE YearStart(y),
             IF YearStart(y + 1) > max THEN max + EndSlack ELSE YearStart(y + 1),
             {}) : y \in YearOf(min) .. YearOf(max) }

\* Mutant: a range of two milliseconds is not split any more.
CanSplitTooEarly(lo, hi) == hi - lo > 2

CanSplit(lo, hi) == hi - lo > 1

\* Mutant: the left half ends before the midpoint, as if its end were included.
HalvesWithGap(lo, hi) ==
    LET mid == lo + (hi - lo) \div 2
    IN  {Bucket(lo, mid - 1, {}), Bucket(mid, hi, {})}

\* halveDateRange, as the pair of child buckets the bucket job enqueues.
Halves(lo, hi) ==
    LET mid == lo + (hi - lo) \div 2
    IN  {Bucket(lo, mid, {}), Bucket(mid, hi, {})}

InRange(p, lo, hi) == lo <= CreatedAt[p] /\ CreatedAt[p] < hi

\* What the walk of a bucket has still to serve.
Rest(d) == {p \in Product : InRange(p, d.lo, d.hi)} \ d.cursor

\* The shop's order of products: sortKey CREATED_AT, and one fixed order of
\* the products of one millisecond.
ServedBefore(p, q) ==
    CreatedAt[p] < CreatedAt[q] \/ (CreatedAt[p] = CreatedAt[q] /\ p < q)

\* pg is the next page of bucket d.
IsPage(pg, d) ==
    /\ pg \subseteq Rest(d)
    /\ Cardinality(pg) <= PageSize
    /\ Cardinality(pg) = PageSize \/ pg = Rest(d)
    /\ \A p \in pg, q \in Rest(d) \ pg : ServedBefore(p, q)

\* "Platform limit for pagination (25000 items) exceeded by 250 items."
PastDepthLimit(d) == Cardinality(d.cursor) + PageSize > DepthLimit

-----------------------------------------------------------------------------
(* The queue. *)

Phases == {"absent", "waiting", "adding", "failed"}

Job == [phase : Phases, data : JobData, tries : Nat, todo : SUBSET JobData]

NoJob == [phase |-> "absent", data |-> PlanData, tries |-> 0, todo |-> {}]

Waiting(d, tries) ==
    [phase |-> "waiting", data |-> d, tries |-> tries, todo |-> {}]

\* The handler has its answer and has now to enqueue the follow-ups ds.
Adding(n, ds) ==
    [phase |-> "adding", data |-> job[n].data, tries |-> job[n].tries, todo |-> ds]

\* Every try was used up.
OutOfTries(d) == [phase |-> "failed", data |-> d, tries |-> 0, todo |-> {}]

\* A slot for a new job: the lowest free one.
IsFresh(n) ==
    /\ job[n].phase = "absent"
    /\ \A m \in JobId : job[m].phase = "absent" => n <= m

Failed == {n \in JobId : job[n].phase = "failed"}

Init ==
    /\ job = [n \in JobId |-> NoJob]
    /\ seen = {} /\ flagged = {} /\ evicted = {}
    /\ sweeping = {}
    /\ plans = 0 /\ faults = 0

\* QueueService.enqueueStorefrontPlanJob, called by a discovery run.
EnqueuePlan ==
    /\ plans < MaxPlans
    /\ \E n \in JobId :
        /\ IsFresh(n)
        /\ job' = [job EXCEPT ![n] = Waiting(PlanData, PlanAttempts)]
    /\ plans' = plans + 1
    /\ UNCHANGED <<seen, flagged, evicted, sweeping, faults>>

-----------------------------------------------------------------------------
(* A worker's turn at a waiting job. *)

\* The job has nothing to enqueue: it returns and the queue removes it.
Done(n) == job' = [job EXCEPT ![n] = NoJob]

\* plan: the created_at range is known, the yearly buckets are to be added.
RunPlan(n) ==
    /\ job[n].phase = "waiting" /\ job[n].data.kind = "plan"
    /\ IF Product = {}
       THEN Done(n)
       ELSE job' = [job EXCEPT ![n] = Adding(n, YearlyBuckets(Oldest, Newest))]
    /\ UNCHANGED <<seen, flagged, evicted, sweeping, plans, faults>>

\* Mutant: products whose processing throws are left behind by the walk.
ServePageSkipping(n) ==
    LET d == job[n].data IN
    /\ job[n].phase = "waiting" /\ d.kind = "bucket"
    /\ ~PastDepthLimit(d)
    /\ \E pg \in SUBSET Rest(d) : \E bad \in SUBSET pg :
        /\ IsPage(pg, d) /\ pg \cap Broken = {}
        /\ seen' = seen \cup (pg \ bad)
        /\ IF Rest(d) = pg
           THEN Done(n)
           ELSE job' = [job EXCEPT ![n] =
                          Adding(n, {Bucket(d.lo, d.hi, d.cursor \cup pg)})]
    /\ UNCHANGED <<flagged, evicted, sweeping, plans, faults>>

\* bucket: a page is fetched and processed.  The data of the next page is
\* built from scratch, so it does not carry sweeperAttempts.
ServePage(n) ==
    LET d == job[n].data IN
    /\ job[n].phase = "waiting" /\ d.kind = "bucket"
    /\ ~PastDepthLimit(d)
    /\ \E pg \in SUBSET Rest(d) :
        /\ IsPage(pg, d) /\ pg \cap Broken = {}
        /\ seen' = seen \cup pg
        /\ IF Rest(d) = pg
           THEN Done(n)
           ELSE job' = [job EXCEPT ![n] =
                          Adding(n, {Bucket(d.lo, d.hi, d.cursor \cup pg)})]
    /\ UNCHANGED <<flagged, evicted, sweeping, plans, faults>>

\* bucket: StorefrontPaginationLimitError in a range that can be halved.
Split(n) ==
    LET d == job[n].data IN
    /\ job[n].phase = "waiting" /\ d.kind = "bucket"
    /\ PastDepthLimit(d) /\ CanSplit(d.lo, d.hi)
    /\ job' = [job EXCEPT ![n] = Adding(n, Halves(d.lo, d.hi))]
    /\ UNCHANGED <<seen, flagged, evicted, sweeping, plans, faults>>

\* bucket: the same error at timestamp precision, reported as incomplete.
GiveUp(n) ==
    LET d == job[n].data IN
    /\ job[n].phase = "waiting" /\ d.kind = "bucket"
    /\ PastDepthLimit(d) /\ ~CanSplit(d.lo, d.hi)
    /\ job' = [job EXCEPT ![n] = Adding(n, {Recovery(d.lo, d.hi)})]
    /\ flagged' = flagged \cup {p \in Product : InRange(p, d.lo, d.hi)}
    /\ UNCHANGED <<seen, evicted, sweeping, plans, faults>>

\* recoverKnownOffers: every batch of known ids whose fetch succeeds is
\* processed; a batch that fails is only counted.
Recover(n) ==
    /\ job[n].phase = "waiting" /\ job[n].data.kind = "recovery"
    /\ \E got \in SUBSET Known : seen' = seen \cup got
    /\ Done(n)
    /\ UNCHANGED <<flagged, evicted, sweeping, plans, faults>>

\* rescheduleIfThrottled: the same data is to be added again, with a delay.
Throttle(n) ==
    /\ faults < MaxFaults
    /\ job[n].phase = "waiting" /\ job[n].data.kind \in {"plan", "bucket"}
    /\ job' = [job EXCEPT ![n] = Adding(n, {job[n].data})]
    /\ faults' = faults + 1
    /\ UNCHANGED <<seen, flagged, evicted, sweeping, plans>>

\* One awaited queue.add: a plan adds its buckets in order, Promise.all the
\* halves in any order.
AddFollowUp(n) ==
    /\ job[n].phase = "adding"
    /\ \E d \in job[n].todo, m \in JobId :
        /\ job[n].data.kind = "plan" => \A e \in job[n].todo : d.lo <= e.lo
        /\ IsFresh(m)
        /\ job' = [job EXCEPT ![n] = Adding(n, job[n].todo \ {d}),
                              ![m] = Waiting(d, JobAttempts)]
    /\ UNCHANGED <<seen, flagged, evicted, sweeping, plans, faults>>

\* Mutant: the queue writes are not awaited.
ReturnEarly(n) ==
    /\ job[n].phase = "adding"
    /\ Done(n)
    /\ UNCHANGED <<seen, flagged, evicted, sweeping, plans, faults>>

\* The handler returns and the queue completes the job.
Return(n) ==
    /\ job[n].phase = "adding" /\ job[n].todo = {}
    /\ Done(n)
    /\ UNCHANGED <<seen, flagged, evicted, sweeping, plans, faults>>

-----------------------------------------------------------------------------
(* Failures. *)

\* What a job with data d will bring, itself or by its follow-ups.
PromisedBy(d) ==
    { p \in Product : \/ d.kind = "plan"
                      \/ d.kind = "bucket" /\ p \in Rest(d) }

\* The job joins the failed ones, of which the queue keeps KeepFailed.
Park(n) ==
    IF Cardinality(Failed) < KeepFailed
    THEN /\ job' = [job EXCEPT ![n] = OutOfTries(job[n].data)]
         /\ UNCHANGED <<evicted, sweeping>>
    ELSE \E old \in Failed :
         /\ job' = [job EXCEPT ![n] = OutOfTries(job[n].data), ![old] = NoJob]
         /\ evicted' = evicted \cup PromisedBy(job[old].data)
         /\ sweeping' = sweeping \ {old}

\* The handler throws: one try less, and after the last one it is parked.
FailTry(n) ==
    IF job[n].tries > 1
    THEN /\ job' = [job EXCEPT ![n] = Waiting(job[n].data, job[n].tries - 1)]
         /\ UNCHANGED <<evicted, sweeping>>
    ELSE Park(n)

\* A network, database or queue error anywhere in the handler.
Error(n) ==
    /\ faults < MaxFaults
    /\ job[n].phase \in {"waiting", "adding"}
    /\ FailTry(n)
    /\ faults' = faults + 1
    /\ UNCHANGED <<seen, flagged, plans>>

\* The page the bucket is at can never be served.
BrokenPage(n) ==
    LET d == job[n].data IN
    /\ job[n].phase = "waiting" /\ d.kind = "bucket"
    /\ ~PastDepthLimit(d)
    /\ \E pg \in SUBSET Rest(d) : IsPage(pg, d) /\ pg \cap Broken # {}
    /\ FailTry(n)
    /\ UNCHANGED <<seen, flagged, plans, faults>>

\* The worker dies with the job in hand, perhaps between two queue writes.  The
\* queue finds the stalled job and runs it again, or parks it when it has
\* stalled too often.
Crash(n) ==
    /\ faults < MaxFaults
    /\ job[n].phase \in {"waiting", "adding"}
    /\ \/ /\ job' = [job EXCEPT ![n] = Waiting(job[n].data, job[n].tries)]
          /\ UNCHANGED <<evicted, sweeping>>
       \/ Park(n)
    /\ faults' = faults + 1
    /\ UNCHANGED <<seen, flagged, plans>>

-----------------------------------------------------------------------------
(* QueueService.sweepFailedStorefrontJobs, run hourly by the scheduler. *)

Sweepable(n) ==
    /\ job[n].phase = "failed" /\ job[n].data.kind = "bucket"
    /\ job[n].data.sweeps < SweeperMax

\* Mutant: the sweep is not counted.
ResweepUncounted(d) ==
    [kind |-> d.kind, lo |-> d.lo, hi |-> d.hi, cursor |-> {}, sweeps |-> d.sweeps]

\* The failed bucket from its first page, one sweep further.
Resweep(d) ==
    [kind |-> d.kind, lo |-> d.lo, hi |-> d.hi, cursor |-> {},
     sweeps |-> d.sweeps + 1]

\* The failed bucket is added again.
SweepAdd(n) ==
    /\ sweeping = {}
    /\ Sweepable(n)
    /\ \E m \in JobId :
        /\ IsFresh(m)
        /\ job' = [job EXCEPT ![m] = Waiting(Resweep(job[n].data), JobAttempts)]
    /\ sweeping' = {n}
    /\ UNCHANGED <<seen, flagged, evicted, plans, faults>>

\* job.remove()
SweepRemove(n) ==
    /\ n \in sweeping
    /\ Done(n)
    /\ sweeping' = {}
    /\ UNCHANGED <<seen, flagged, evicted, plans, faults>>

\* The removal fails, or the scheduler stops before it.
SweepAbort ==
    /\ faults < MaxFaults
    /\ sweeping # {}
    /\ sweeping' = {}
    /\ faults' = faults + 1
    /\ UNCHANGED <<job, seen, flagged, evicted, plans>>

-----------------------------------------------------------------------------

\* The steps a live worker keeps taking.
Work(n) ==
    \/ RunPlan(n) \/ ServePage(n) \/ Split(n) \/ GiveUp(n) \/ Recover(n)
    \/ AddFollowUp(n) \/ Return(n) \/ BrokenPage(n)

Sweep(n) == SweepAdd(n) \/ SweepRemove(n)

Next ==
    \/ EnqueuePlan
    \/ \E n \in JobId : Work(n) \/ Sweep(n) \/ Throttle(n) \/ Error(n) \/ Crash(n)
    \/ SweepAbort

Spec == Init /\ [][Next]_vars

\* Workers poll the queue and the sweeper's cron fires every hour; nothing
\* forces a plan or a fault.
Fairness == \A n \in JobId : WF_vars(Work(n)) /\ WF_vars(Sweep(n))

FairSpec == Spec /\ Fairness

-----------------------------------------------------------------------------
(* Properties. *)

TypeOK ==
    /\ job \in [JobId -> Job]
    /\ seen \subseteq Product /\ flagged \subseteq Product
    /\ evicted \subseteq Product
    /\ sweeping \in SUBSET JobId
    /\ plans \in 0 .. MaxPlans /\ faults \in 0 .. MaxFaults

\* Job n still brings product p: waiting and parked jobs by their data, a job
\* that is enqueueing its follow-ups by those it has yet to add.
Holds(n, p) ==
    \/ /\ job[n].phase \in {"waiting", "failed"} /\ n \notin sweeping
       /\ p \in PromisedBy(job[n].data)
    \/ /\ job[n].phase = "adding"
       /\ \E d \in job[n].todo : p \in PromisedBy(d)

\* No product is lost silently.  Once a discovery has been planned, every
\* product has been processed, or was reported as part of an incomplete
\* discovery, or is still to be brought by a job in the queue, whatever
\* crashes, retries, throttles, splits and sweeps have happened; the one way
\* out is the queue throwing a failed job away.
NoSilentLoss ==
    plans > 0 =>
        \A p \in Product \ (seen \cup flagged \cup evicted) :
            \E n \in JobId : Holds(n, p)

\* A cursor never runs ahead of the work: a page is processed before the next
\* one is enqueued, so what a cursor skips has been processed.
CursorHonest ==
    \A n \in JobId :
        /\ job[n].data.cursor \subseteq seen
        /\ \A d \in job[n].todo : d.cursor \subseteq seen

\* The bucket processor splits "until millisecond precision is exhausted": a
\* product is reported as undiscoverable only if more products than the pages
\* that the shop's cursor can reach share its very timestamp.
FlaggedOnlyIfDense ==
    \A p \in flagged :
        Cardinality({q \in Product : CreatedAt[q] = CreatedAt[p]})
            > DepthLimit - PageSize + 1

\* A job that will do nothing more: parked, and not for the sweeper.
Parked(n) == job[n].phase = "failed" /\ ~Sweepable(n)

\* The sweeper stops re-enqueueing: "a chronically-broken bucket can't cycle
\* forever" (extraction.scheduler.ts).
SweeperSettles == <>[][\A n \in JobId : ~SweepAdd(n)]_vars

\* Every product of a planned discovery is in the end processed, reported, or
\* left with a job that is parked for good or was thrown away.
EveryProductResolved ==
    <>[](plans > 0 =>
            \A p \in Product : \/ p \in seen \cup flagged \cup evicted
                               \/ \E n \in JobId : Parked(n) /\ p \in PromisedBy(job[n].data))

-----------------------------------------------------------------------------
(* What discovery promises, and how this module's state shows it. *)

Fate == [p \in Product |->
            CASE p \in seen -> "processed"
              [] p \notin seen /\ p \in flagged \cup evicted -> "reported"
              [] OTHER -> "owed"]

Open == \E n \in JobId : job[n].phase # "absent"

Abstract == INSTANCE CatalogueDiscovery WITH fate <- Fate, open <- Open

\* The job queue implements the catalogue's discovery: no product goes back
\* from processed, and the queue never runs empty while a product is owed.
ImplementsDiscovery == Abstract!Spec
=============================================================================
