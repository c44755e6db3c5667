------------------------------ MODULE CartRefresh ------------------------------
(***************************************************************************)
(* A refresh of the known offers of a card list: the tab that asks for it  *)
(* and polls (useListRefresh), the API that queues it and answers polls    *)
(* (ListRefreshService), and the worker's job (refreshCartProducts), whose *)
(* batches run in parallel, write the products they fetch through the      *)
(* batch accumulator, and share one chain of progress writes.              *)
(*                                                                         *)
(* An item is one variant of a product with one listing.  The cooldown of  *)
(* requests is in CardLists, the order of buffered writes in               *)
(* BatchAccumulator: here a buffered row waits for its flush.              *)
(***************************************************************************)
EXTENDS Integers, Sequences, FiniteSets

CONSTANTS
    Offer,           \* the offers (card_variants) of the list's cards
    Card, CardOf,   \* CardOf[i]: the canonical card of an offer
    Batch, BatchOf, \* BatchOf[i]: the nodes(ids:) request it is in, or None
    StoreOf,        \* StoreOf[b]: the store a batch asks
    Price, Out, Gone, None,     \* answers of a shop: a price, out of stock, no such product
    Beginning,      \* what shops and rows may be when the list is opened
    Attempts,       \* attempts of a job
    MaxClicks,      \* bound: refreshes asked for
    MaxChanges,     \* bound: changes at the shops, and rediscoveries
    MaxFaults       \* bound: failed statements, requests and crashes

ASSUME RefreshAssumption ==
    /\ CardOf \in [Offer -> Card] /\ BatchOf \in [Offer -> Batch \cup {None}]
    /\ \A b \in Batch : \E i \in Offer : BatchOf[i] = b
    /\ None \notin Batch \cup {Out, Gone} /\ {Out, Gone, None} \cap Price = {}
    /\ Price \subseteq Nat \ {0} /\ Attempts \in Nat \ {0}
    /\ {MaxClicks, MaxChanges, MaxFaults} \subseteq Nat
    /\ IsFiniteSet(Offer) /\ IsFiniteSet(Batch)
    /\ Beginning \subseteq [shop : [Offer -> Price \cup {Out, Gone}],
                            row : [Offer -> [price : Price, stock : BOOLEAN]]]

VARIABLES
    shop,       \* shop[i]: what the shop would answer
    row,        \* row[i]: the stored variant
    buffered,   \* buffered[i]: the answer that waits to be written, or None
    late,       \* <<item, answer>> still to be applied by abandoned batches
    state,      \* of the job in its queue
    failures, stalled,  \* of the job: failed attempts, and whether it was lost once
    progress,   \* the percentage stored with the job
    previous,   \* previous[i]: the price when the refresh was asked for
    result,     \* the job's returnvalue, or None
    at,         \* at[b]: where the batch stands in this attempt
    answer,     \* answer[i]: what this attempt was told, or None
    outcome,    \* outcome[i]: the attempt's outcome so far
    completed, published, writes, broken,   \* reportProgress: products settled,
                \* highest percentage, writes under way in order, chain rejected
    tab, overdue, seen, report, clicks,     \* the hook: its place, its deadline, the
                \* result with the job it read, what it told the shopper
    known,      \* known[i]: what shop and row have said of an item
    changes, faults

world == <<shop, known, changes>>
rows == <<row, buffered, late>>
job == <<state, failures, stalled, progress, previous, result>>
attempt == <<at, answer, outcome, completed, published, writes, broken>>
page == <<tab, overdue, seen, report, clicks>>
vars == <<world, rows, job, attempt, page, faults>>

OffSale == {Out, Gone}
Is(what, price) == [is |-> what, price |-> price]
Unconfirmed == Is("unconfirmed", 0)
Unavailable == Is("unavailable", 0)
InBatch(b) == {i \in Offer : BatchOf[i] = b}
Total == Cardinality({i \in Offer : BatchOf[i] # None})

NoAttempt ==
    /\ at = [b \in Batch |-> "done"] /\ answer = [i \in Offer |-> None]
    /\ outcome = [i \in Offer |-> Unconfirmed]
    /\ completed = 0 /\ published = 0 /\ writes = <<>> /\ broken = FALSE

Init ==
    /\ \E w \in Beginning : shop = w.shop /\ row = w.row
    /\ known = [i \in Offer |-> {shop[i], IF row[i].stock THEN row[i].price ELSE Out}]
    /\ buffered = [i \in Offer |-> None] /\ late = {}
    /\ state = "none" /\ failures = 0 /\ stalled = FALSE /\ progress = 0
    /\ previous = [i \in Offer |-> row[i].price] /\ result = None
    /\ NoAttempt
    /\ tab = "idle" /\ overdue = FALSE /\ seen = None /\ report = "none" /\ clicks = 0
    /\ changes = 0 /\ faults = 0

Fault == faults < MaxFaults /\ faults' = faults + 1

-----------------------------------------------------------------------------
(* The shops, and the tables behind the accumulator. *)

ShopChanges(i, v) ==
    /\ changes < MaxChanges /\ v # shop[i]
    /\ shop' = [shop EXCEPT ![i] = v]
    /\ known' = [known EXCEPT ![i] = @ \cup {v}]
    /\ changes' = changes + 1
    /\ UNCHANGED <<rows, job, attempt, page, faults>>

\* upsertBatch; nobody looks at the price of a variant that is out of stock.
Stored(r, v) ==
    IF v \in OffSale THEN [r EXCEPT !.stock = FALSE] ELSE [price |-> v, stock |-> TRUE]

Flush(i) ==
    /\ buffered[i] # None
    /\ row' = [row EXCEPT ![i] = Stored(@, buffered[i])]
    /\ buffered' = [buffered EXCEPT ![i] = None]
    /\ UNCHANGED <<late, world, job, attempt, page, faults>>

\* A product answered: its listing is buffered, or, if it is missing, its rows are
\* marked out of stock at once.
Apply(i, v) ==
    IF v = Gone
    THEN row' = [row EXCEPT ![i].stock = FALSE] /\ UNCHANGED buffered
    ELSE buffered' = [buffered EXCEPT ![i] = v] /\ UNCHANGED row

\* Discovery comes by the product: another job's page.
Rediscover(i) ==
    /\ changes < MaxChanges /\ changes' = changes + 1
    /\ shop[i] # Gone /\ Apply(i, shop[i])
    /\ UNCHANGED <<late, shop, known, job, attempt, page, faults>>

\* A batch of an attempt that has failed meanwhile goes on.
GoesOn(i, v) ==
    /\ <<i, v>> \in late /\ late' = late \ {<<i, v>>}
    /\ Apply(i, IF v = None THEN shop[i] ELSE v)
    /\ UNCHANGED <<world, job, attempt, page, faults>>

-----------------------------------------------------------------------------
(* The worker: refreshCartProducts. *)

Take ==
    /\ state = "waiting" /\ state' = "active"
    /\ progress' = IF Total = 0 THEN 100 ELSE 0
    /\ at' = [b \in Batch |-> "fetch"] /\ answer' = [i \in Offer |-> None]
    /\ outcome' = [i \in Offer |->
                      IF BatchOf[i] = None THEN Is("unsupported", 0) ELSE Unconfirmed]
    /\ completed' = 0 /\ published' = 0 /\ writes' = <<>> /\ broken' = FALSE
    /\ UNCHANGED <<failures, stalled, previous, result, world, rows, page, faults>>

\* At most one write per five percent, and 95 until everything is written.
Share(n) ==
    LET percent == ((20 * n) \div Total) * 5 IN IF percent > 95 THEN 95 ELSE percent

\* reportProgress, by the batches `done` when they are through.  That they may be counted
\* again by a catch block, once the chain is rejected, is left out: nothing is written then.
ReportProgress(done) ==
    LET n == completed + Cardinality({i \in Offer : BatchOf[i] \in done})
    IN  /\ at' = [b \in Batch |-> IF b \in done THEN "done" ELSE at[b]]
        /\ completed' = n
        /\ IF Share(n) > published
           THEN published' = Share(n) /\ writes' = Append(writes, Share(n))
           ELSE UNCHANGED <<published, writes>>
        /\ UNCHANGED broken

\* The attempt learns of the items that `told` speaks of.
Learn(told) ==
    outcome' = [i \in Offer |-> IF i \in DOMAIN told THEN told[i] ELSE outcome[i]]

\* Mutant: a request that fails is taken for an absent product.
GivesUpAsAbsent(i) == Unavailable
GivesUp(i) == Unconfirmed

Fetch(b) ==
    /\ state = "active" /\ at[b] = "fetch"
    /\ answer' = [i \in Offer |-> IF i \in InBatch(b) THEN shop[i] ELSE answer[i]]
    /\ at' = [at EXCEPT ![b] = "missing"]
    /\ UNCHANGED <<outcome, completed, published, writes, broken, world, rows, job, page, faults>>

Missing(b) == {i \in InBatch(b) : answer[i] = Gone}
Returned(b) == InBatch(b) \ Missing(b)

MarkMissing(b) ==
    /\ state = "active" /\ at[b] = "missing"
    /\ row' = [i \in Offer |-> IF i \in Missing(b) THEN Stored(row[i], Gone) ELSE row[i]]
    /\ Learn([i \in Missing(b) |-> Unavailable])
    /\ at' = [at EXCEPT ![b] = "process"]
    /\ UNCHANGED <<buffered, late, answer, completed, published, writes, broken,
                   world, job, page, faults>>

\* processPage only buffers the listings.
ProcessPage(b) ==
    /\ state = "active" /\ at[b] = "process"
    /\ buffered' = [i \in Offer |-> IF i \in Returned(b) THEN answer[i] ELSE buffered[i]]
    /\ at' = [at EXCEPT ![b] = "read"]
    /\ UNCHANGED <<row, late, answer, outcome, completed, published, writes, broken,
                   world, job, page, faults>>

\* processPage counts an error: nothing is known of what was returned.
PageErrors(b) ==
    /\ state = "active" /\ at[b] = "process" /\ Returned(b) # {} /\ Fault
    /\ Learn([i \in Returned(b) |-> GivesUp(i)]) /\ ReportProgress({b})
    /\ UNCHANGED <<answer, world, rows, job, page>>

\* The outcome of an item that was returned, from its row.
FromRow(i) ==
    IF ~row[i].stock THEN Unavailable
    ELSE Is(IF row[i].price # previous[i] THEN "price_changed" ELSE "refreshed", row[i].price)

ReadRows(b) ==
    /\ state = "active" /\ at[b] = "read"
    /\ Learn([i \in Returned(b) |-> FromRow(i)]) /\ ReportProgress({b})
    /\ UNCHANGED <<answer, world, rows, job, page, faults>>

\* The inner catch, wherever the batch was.
BatchFails(b) ==
    /\ state = "active" /\ at[b] \in {"fetch", "missing", "process", "read"} /\ Fault
    /\ Learn([i \in InBatch(b) |-> GivesUp(i)]) /\ ReportProgress({b})
    /\ UNCHANGED <<answer, world, rows, job, page>>

\* The outer catch: the store is gone, before any of its batches was sent.
StoreFails(s) ==
    LET batches == {b \in Batch : StoreOf[b] = s}
    IN  /\ state = "active" /\ batches # {} /\ Fault
        /\ \A b \in batches : at[b] = "fetch"
        /\ Learn([i \in UNION {InBatch(b) : b \in batches} |-> GivesUp(i)])
        /\ ReportProgress(batches)
        /\ UNCHANGED <<answer, world, rows, job, page>>

\* Mutant: writes of parallel batches are not chained.
AnyWrite(k) == k \in 1 .. Len(writes)
NextWrite(k) == k = 1 /\ writes # <<>>

WriteProgress(k) ==
    /\ state = "active" /\ ~broken /\ NextWrite(k)
    /\ progress' = writes[k]
    /\ writes' = SubSeq(writes, 1, k - 1) \o SubSeq(writes, k + 1, Len(writes))
    /\ UNCHANGED <<state, failures, stalled, previous, result, at, answer, outcome,
                   completed, published, broken, world, rows, page, faults>>

WriteFails ==
    /\ state = "active" /\ ~broken /\ writes # <<>> /\ Fault
    /\ broken' = TRUE
    /\ UNCHANGED <<at, answer, outcome, completed, published, writes, world, rows, job, page>>

\* What the batches of an attempt have yet to do.
Unfinished ==
    {<<i, answer[i]>> : i \in {j \in Offer :
        BatchOf[j] # None /\ at[BatchOf[j]] \in {"fetch", "missing", "process"}}}

\* A rejected chain fails the attempt, as soon as a batch has to wait for it and at
\* the latest when all are through; those still under way are not stopped.
AttemptFails ==
    /\ state = "active" /\ broken
    /\ failures' = failures + 1
    /\ state' = IF failures' < Attempts THEN "waiting" ELSE "failed"
    /\ late' = late \cup Unfinished
    /\ UNCHANGED <<stalled, progress, previous, result, row, buffered, attempt, world,
                   page, faults>>

\* A worker stops: Bull takes the job up once more, and the buffer is lost.
Crash ==
    /\ state = "active" /\ Fault
    /\ state' = IF stalled THEN "failed" ELSE "waiting"
    /\ stalled' = TRUE
    /\ buffered' = [i \in Offer |-> None] /\ late' = {}
    /\ UNCHANGED <<failures, progress, previous, result, row, attempt, world, page>>

LastWrite ==
    /\ state = "active" /\ ~broken /\ writes = <<>> /\ progress < 100
    /\ \A b \in Batch : at[b] = "done"
    /\ progress' = 100
    /\ UNCHANGED <<state, failures, stalled, previous, result, attempt, world, rows, page, faults>>

Complete ==
    /\ state = "active" /\ progress = 100 /\ \A b \in Batch : at[b] = "done"
    /\ state' = "completed" /\ result' = outcome
    /\ UNCHANGED <<failures, stalled, progress, previous, attempt, world, rows, page, faults>>

Batches == \E b \in Batch : Fetch(b) \/ MarkMissing(b) \/ ProcessPage(b) \/ ReadRows(b)
BatchFaults ==
    \/ \E b \in Batch : PageErrors(b) \/ BatchFails(b)
    \/ \E s \in {StoreOf[b] : b \in Batch} : StoreFails(s)
Job == Take \/ Batches \/ (\E k \in 1 .. Len(writes) : WriteProgress(k)) \/ LastWrite \/ Complete
JobFaults == BatchFaults \/ WriteFails \/ AttemptFails \/ Crash

-----------------------------------------------------------------------------
(* The API and the tab. *)

Goto(place) == tab' = place /\ UNCHANGED <<overdue, seen, clicks>>
Told(what) == tab' = "idle" /\ report' = what /\ UNCHANGED <<overdue, seen, clicks>>

Click ==
    /\ tab = "idle" /\ clicks < MaxClicks
    /\ tab' = "starting" /\ clicks' = clicks + 1 /\ report' = "none" /\ seen' = None
    /\ UNCHANGED <<overdue, job, world, rows, attempt, faults>>

\* ListRefreshService.request: the snapshot, and the job.  A second one is refused
\* while the first is within its cooldown.
Request ==
    /\ tab = "starting"
    /\ IF state = "none"
       THEN /\ previous' = [i \in Offer |-> row[i].price] /\ state' = "waiting"
            /\ tab' = "asking" /\ overdue' = FALSE
            /\ UNCHANGED <<failures, stalled, progress, result, seen, report, clicks>>
       ELSE Told("error") /\ UNCHANGED job
    /\ UNCHANGED <<world, rows, attempt, faults>>

\* A request of the tab fails.
RequestFails ==
    /\ tab \in {"starting", "asking", "reading"} /\ Fault
    /\ Told("error")
    /\ UNCHANGED <<job, world, rows, attempt>>

\* ListRefreshService.status loads the job ...
ReadJob ==
    /\ tab = "asking" /\ tab' = "reading" /\ seen' = result
    /\ UNCHANGED <<overdue, report, clicks, job, world, rows, attempt, faults>>

\* Mutant: the hook polls as long as the job is pending.
PollsForEver == FALSE
TimeIsUp == overdue

\* ... then asks for its state; the hook decides.
Answer ==
    /\ tab = "reading"
    /\ CASE state = "completed" -> Goto("closing") /\ UNCHANGED report
         [] state = "failed" -> Told("failed")
         [] OTHER -> IF TimeIsUp THEN Told("running") ELSE Goto("waiting") /\ UNCHANGED report
    /\ UNCHANGED <<job, world, rows, attempt, faults>>

PollAgain ==
    /\ tab = "waiting"
    /\ IF TimeIsUp THEN Told("running") ELSE Goto("asking") /\ UNCHANGED report
    /\ UNCHANGED <<job, world, rows, attempt, faults>>

DeadlinePasses ==
    /\ tab \in {"asking", "reading", "waiting"} /\ ~overdue /\ overdue' = TRUE
    /\ UNCHANGED <<tab, seen, report, clicks, job, world, rows, attempt, faults>>

\* summarizeRefreshItemsByCard: one outcome for a card.
Summary(outcomes) ==
    [c \in Card |->
        LET said == {outcomes[i].is : i \in {j \in Offer : CardOf[j] = c}}
        IN  CASE "price_changed" \in said -> "price_changed"
              [] "refreshed" \in said -> "refreshed"
              [] said = {"unavailable"} -> "unavailable"
              [] "unconfirmed" \in said -> "unconfirmed"
              [] OTHER -> "unsupported"]

\* The last stroke of the progress bar, then the outcomes: none, if the job was read
\* before it completed and its state after.
Reported(c, what) == report = "refreshed" /\ seen # None /\ Summary(seen)[c] = what

Close ==
    /\ tab = "closing"
    /\ Told("refreshed")
    /\ UNCHANGED <<job, world, rows, attempt, faults>>

Tab == Request \/ ReadJob \/ Answer \/ PollAgain \/ Close

-----------------------------------------------------------------------------

Next ==
    \/ \E i \in Offer, v \in Price \cup OffSale : ShopChanges(i, v)
    \/ \E i \in Offer : Flush(i) \/ Rediscover(i)
    \/ \E l \in late : GoesOn(l[1], l[2])
    \/ Job \/ JobFaults
    \/ Click \/ Tab \/ DeadlinePasses \/ RequestFails

Spec == Init /\ [][Next]_vars

\* Requests are answered and a minute passes; whether a worker runs is not assumed.
Fairness == WF_vars(Tab) /\ WF_vars(DeadlinePasses)

-----------------------------------------------------------------------------
(* Properties. *)

Answers == Price \cup OffSale
Outcomes == {Is(w, 0) : w \in {"unsupported", "unconfirmed", "unavailable"}}
              \cup {Is(w, p) : w \in {"refreshed", "price_changed"}, p \in Price}

\* Rows, answers and outcomes are of their kinds, and the percentages that wait to be
\* written go up, from the one that is stored (reportProgress).
TypeOK ==
    /\ shop \in [Offer -> Answers] /\ row \in [Offer -> [price : Price, stock : BOOLEAN]]
    /\ buffered \in [Offer -> Answers \cup {None}]
    /\ late \subseteq Offer \X (Answers \cup {None})
    /\ state \in {"none", "waiting", "active", "completed", "failed"}
    /\ failures \in 0 .. Attempts /\ stalled \in BOOLEAN
    /\ previous \in [Offer -> Price] /\ result \in [Offer -> Outcomes] \cup {None}
    /\ at \in [Batch -> {"fetch", "missing", "process", "read", "done"}]
    /\ answer \in [Offer -> Answers \cup {None}] /\ outcome \in [Offer -> Outcomes]
    /\ progress \in 0 .. 100 /\ published \in 0 .. 95 /\ broken \in BOOLEAN
    /\ completed \in Nat /\ (~broken => completed <= Total)
    /\ tab \in {"idle", "starting", "asking", "reading", "waiting", "closing"}
    /\ overdue \in BOOLEAN /\ seen \in [Offer -> Outcomes] \cup {None}
    /\ report \in {"none", "refreshed", "running", "failed", "error"}
    /\ clicks \in 0 .. MaxClicks /\ changes \in 0 .. MaxChanges /\ faults \in 0 .. MaxFaults

\* "Store workers complete independently; serialize Redis writes so a slower earlier
\* batch cannot overwrite a newer percentage" (refreshCartProducts): the stored
\* progress of an attempt never falls, and is not ahead of the batches settled.
ProgressHonest ==
    [][ state = "active" /\ state' = "active" =>
            /\ progress' >= progress
            /\ progress' \in 1 .. 99 => progress' <= Share(completed) ]_vars

\* Whatever failed, was retried or came late, a card is reported unavailable only if
\* each of its offers was off sale at its shop or in its row at some time, and a price
\* that is reported was asked (refreshCartProducts, summarizeRefreshItemsByCard).
NothingInvented ==
    /\ \A i \in Offer : Reported(CardOf[i], "unavailable") => known[i] \cap OffSale # {}
    /\ result # None => \A i \in Offer : result[i].price \in known[i] \cup {0}

\* The control that started a refresh is released, whether or not a worker takes the
\* job up (useListRefresh).
RefreshReleased == []<>(tab = "idle")

\* "Only report unavailable when every known offer for the card was confirmed absent"
\* (refresh-result-summary.ts): the last answers say so.
UnavailableConfirmed ==
    \A i \in Offer : Reported(CardOf[i], "unavailable") => answer[i] \in OffSale
=============================================================================
