-------------------------- MODULE BatchAccumulator --------------------------
(***************************************************************************)
(* Writing what was extracted from a shop into the listing tables.  Every  *)
(* scraper worker buffers its extractions in memory (BatchAccumulator-     *)
(* Service; TokenBatchAccumulatorService is its twin) and writes them in   *)
(* batches, a few batches at a time: the rows are upserted, then variants  *)
(* the shop no longer reports in stock are cleaned up product by product,  *)
(* then the counters of the extraction runs are incremented.  A batch that *)
(* fails goes back to the front of the buffer, as a whole.                 *)
(*                                                                         *)
(* Abstractions: of a variant row only whether it can be bought is kept    *)
(* (in_stock for cards, presence for tokens); every variant has a platform *)
(* id; the two INSERTs of an upsert are one step, the first of them only   *)
(* creating the listing; rows of one product that were folded together in  *)
(* a batch that failed are folded anew; one event-loop turn is one step.   *)
(***************************************************************************)
EXTENDS Integers, Sequences, FiniteSets

CONSTANTS
    Worker,        \* scraper processes, each with a buffer of its own
    Product,       \* product URLs
    Variant,       \* variants of a product: condition and foil
    Answer,        \* what a shop may report: [offered, stock], sets of variants
    Run,           \* extraction runs
    TokenPipeline, \* the token twin: only variants in stock have rows
    BatchSize,     \* BATCH_SIZE (500)
    MaxConcurrentFlushes, \* MAX_CONCURRENT_FLUSHES (3)
    ShutdownHooks, \* does the process run onModuleDestroy when it is stopped?
    MaxItems,      \* bound: extractions
    MaxFaults,     \* bound: failed statements and crashes
    MaxStops       \* bound: times a process is asked to stop

ASSUME AnswerAssumption ==
    \A a \in Answer : a.stock \subseteq a.offered /\ a.offered \subseteq Variant

ASSUME SizeAssumption ==
    /\ BatchSize \in Nat \ {0} /\ MaxConcurrentFlushes \in Nat \ {0}
    /\ TokenPipeline \in BOOLEAN /\ ShutdownHooks \in BOOLEAN
    /\ MaxItems \in Nat /\ MaxFaults \in Nat /\ MaxStops \in Nat

VARIABLES
    log,           \* all extractions so far; an item is an index into it
    buffer,        \* each worker's buffered items
    flight,        \* each worker's batches being written, by slot
    activeFlushes, \* each worker's count of them
    phase,         \* "up", "draining" or "drained"
    stock,         \* the tables: variants of each product that can be bought
    counted,       \* extractionsSucceeded of each run
    flushed,       \* items whose flush has succeeded
    lost,          \* items that went down with a process
    alone,         \* items extracted when no other of their product was pending
    faults, stops

vars == <<log, buffer, flight, activeFlushes, phase, stock, counted, flushed,
          lost, alone, faults, stops>>

-----------------------------------------------------------------------------

Item == 1 .. Len(log)
Slot == 1 .. MaxConcurrentFlushes

Stages == {"idle", "upsert", "cleanup", "count"}

Idle == [stage |-> "idle", batch |-> <<>>, next |-> 0, runs |-> {}]

Members(s) == {s[k] : k \in DOMAIN s}

IdleSlots(w) == {s \in Slot : flight[w][s].stage = "idle"}

\* The items worker w still has to write.
Pending(w) ==
    Members(buffer[w]) \cup UNION {Members(flight[w][s].batch) : s \in Slot}

ItemsOf(p) == {i \in Item : log[i].product = p}

\* The variants item i has a row for: a token item has none for what is out of
\* stock.
RowsOf(i) == IF TokenPipeline THEN log[i].stock ELSE log[i].offered

Init ==
    /\ log = <<>>
    /\ buffer = [w \in Worker |-> <<>>]
    /\ flight = [w \in Worker |-> [s \in Slot |-> Idle]]
    /\ activeFlushes = [w \in Worker |-> 0]
    /\ phase = [w \in Worker |-> "up"]
    /\ stock = [p \in Product |-> {}]
    /\ counted = [r \in Run |-> 0]
    /\ flushed = {} /\ lost = {} /\ alone = {}
    /\ faults = 0 /\ stops = 0

-----------------------------------------------------------------------------
(* Buffering. *)

\* The slots drainBuffer may start a batch in.
Startable(w) ==
    {s \in IdleSlots(w) :
        Cardinality({t \in IdleSlots(w) : t <= s})
            <= MaxConcurrentFlushes - activeFlushes[w]}

\* drainBuffer, with items in the buffer of worker w: batches are spliced off
\* its front until it is empty or as many are being written as may be.
DrainBuffer(w, items) ==
    LET from(s) == (Cardinality({t \in Startable(w) : t < s})) * BatchSize + 1
        upto(s) == IF from(s) + BatchSize - 1 <= Len(items)
                   THEN from(s) + BatchSize - 1 ELSE Len(items)
        started == {s \in Startable(w) : from(s) <= Len(items)}
    IN  /\ flight' = [flight EXCEPT ![w] = [s \in Slot |->
                        IF s \in started
                        THEN [stage |-> "upsert", next |-> 1, runs |-> {},
                              batch |-> SubSeq(items, from(s), upto(s))]
                        ELSE flight[w][s]]]
        /\ activeFlushes' = [activeFlushes EXCEPT ![w] = @ + Cardinality(started)]
        /\ buffer' = [buffer EXCEPT ![w] =
                        SubSeq(items, Cardinality(started) * BatchSize + 1, Len(items))]

\* addMany
AddMany(w, items) ==
    IF Len(buffer[w]) + Len(items) >= BatchSize
    THEN DrainBuffer(w, buffer[w] \o items)
    ELSE /\ buffer' = [buffer EXCEPT ![w] = @ \o items]
         /\ UNCHANGED <<flight, activeFlushes>>

\* processExtractedVariants: the answer a of a shop for product p is buffered;
\* a token product with nothing in stock is cleaned up at once instead.
Extract(w, p, a, r) ==
    LET i == Len(log) + 1 IN
    /\ Len(log) < MaxItems
    /\ log' = Append(log, [product |-> p, offered |-> a.offered,
                           stock |-> a.stock, run |-> r])
    /\ alone' = IF \A v \in Worker : Pending(v) \cap ItemsOf(p) = {}
                THEN alone \cup {i} ELSE alone
    /\ IF TokenPipeline /\ a.stock = {}
       THEN /\ stock' = [stock EXCEPT ![p] = {}]
            /\ flushed' = flushed \cup {i}
            /\ UNCHANGED <<buffer, flight, activeFlushes>>
       ELSE /\ AddMany(w, <<i>>)
            /\ UNCHANGED <<stock, flushed>>
    /\ UNCHANGED <<phase, counted, lost, faults, stops>>

\* The flush interval, or, during a shutdown, a turn of the drain loop.
Tick(w) ==
    /\ phase[w] \in {"up", "draining"}
    /\ buffer[w] # <<>> /\ activeFlushes[w] < MaxConcurrentFlushes
    /\ DrainBuffer(w, buffer[w])
    /\ UNCHANGED <<log, phase, stock, counted, flushed, lost, alone, faults, stops>>

-----------------------------------------------------------------------------
(* Writing a batch. *)

\* What the tables hold once the rows of a batch are upserted: of the items of
\* one product, the last one that has a row for a variant decides.
Upserted(batch) ==
    [p \in Product |->
        LET having(v) == {k \in DOMAIN batch :
                            log[batch[k]].product = p /\ v \in RowsOf(batch[k])}
            last(v) == CHOOSE k \in having(v) : \A h \in having(v) : h <= k
        IN  {v \in Variant : IF having(v) = {} THEN v \in stock[p]
                             ELSE v \in log[batch[last(v)]].stock}]

\* Mutant: an extraction with nothing in stock cleans nothing up.
CleanedIfInStock(i) ==
    IF log[i].stock = {} THEN stock
    ELSE [stock EXCEPT ![log[i].product] = @ \cap log[i].stock]

\* deleteStaleListings: what item i's product has in stock, by item i.
Cleaned(i) == [stock EXCEPT ![log[i].product] = @ \cap log[i].stock]

Upsert(w, s) ==
    LET f == flight[w][s] IN
    /\ f.stage = "upsert"
    /\ stock' = Upserted(f.batch)
    /\ flight' = [flight EXCEPT ![w][s].stage = "cleanup"]
    /\ UNCHANGED <<log, buffer, activeFlushes, phase, counted, flushed, lost,
                   alone, faults, stops>>

\* One item's clean-up; after the last one the runs are to be counted.
Cleanup(w, s) ==
    LET f == flight[w][s] IN
    /\ f.stage = "cleanup"
    /\ stock' = Cleaned(f.batch[f.next])
    /\ flight' = [flight EXCEPT ![w][s] =
                    IF f.next < Len(f.batch)
                    THEN [f EXCEPT !.next = @ + 1]
                    ELSE [f EXCEPT !.stage = "count",
                                   !.runs = {log[i].run : i \in Members(f.batch)}]]
    /\ UNCHANGED <<log, buffer, activeFlushes, phase, counted, flushed, lost,
                   alone, faults, stops>>

\* Mutant: an error of the increment fails the flush.
CountRequeues(w, s) ==
    LET f == flight[w][s] IN
    /\ f.stage = "count"
    /\ \E r \in f.runs :
        \/ /\ flight' = [flight EXCEPT ![w][s].runs = @ \ {r}]
           /\ counted' = [counted EXCEPT ![r] = @ +
                 Cardinality({k \in DOMAIN f.batch : log[f.batch[k]].run = r})]
           /\ UNCHANGED <<buffer, activeFlushes, faults>>
        \/ /\ faults < MaxFaults
           /\ faults' = faults + 1
           /\ buffer' = [buffer EXCEPT ![w] = f.batch \o @]
           /\ flight' = [flight EXCEPT ![w][s] = Idle]
           /\ activeFlushes' = [activeFlushes EXCEPT ![w] = @ - 1]
           /\ UNCHANGED counted
    /\ UNCHANGED <<log, phase, stock, flushed, lost, alone, stops>>

\* incrementRunExtractions, for one run; an error is only logged.
Count(w, s) ==
    LET f == flight[w][s] IN
    /\ f.stage = "count"
    /\ \E r \in f.runs :
        /\ flight' = [flight EXCEPT ![w][s].runs = @ \ {r}]
        /\ \/ /\ counted' = [counted EXCEPT ![r] = @ +
                    Cardinality({k \in DOMAIN f.batch : log[f.batch[k]].run = r})]
              /\ UNCHANGED faults
           \/ /\ faults < MaxFaults
              /\ faults' = faults + 1
              /\ UNCHANGED counted
    /\ UNCHANGED <<log, buffer, activeFlushes, phase, stock, flushed, lost, alone,
                   stops>>

\* The flush is over.
Finish(w, s) ==
    LET f == flight[w][s] IN
    /\ f.stage = "count" /\ f.runs = {}
    /\ flight' = [flight EXCEPT ![w][s] = Idle]
    /\ activeFlushes' = [activeFlushes EXCEPT ![w] = @ - 1]
    /\ flushed' = flushed \cup Members(f.batch)
    /\ UNCHANGED <<log, buffer, phase, stock, counted, lost, alone, faults, stops>>

\* Mutant: a batch that fails is forgotten.
FailDrops(w, s) ==
    LET f == flight[w][s] IN
    /\ faults < MaxFaults
    /\ f.stage \in {"upsert", "cleanup"}
    /\ \/ UNCHANGED stock
       \/ f.stage = "upsert" /\ stock' = Upserted(f.batch)
       \/ f.stage = "cleanup" /\ stock' = Cleaned(f.batch[f.next])
    /\ flight' = [flight EXCEPT ![w][s] = Idle]
    /\ activeFlushes' = [activeFlushes EXCEPT ![w] = @ - 1]
    /\ faults' = faults + 1
    /\ UNCHANGED <<log, buffer, phase, counted, flushed, lost, alone, stops>>

\* Mutant: a flush that fails does not give its place back.
FailLeaks(w, s) ==
    LET f == flight[w][s] IN
    /\ faults < MaxFaults
    /\ f.stage \in {"upsert", "cleanup"}
    /\ \/ UNCHANGED stock
       \/ f.stage = "upsert" /\ stock' = Upserted(f.batch)
       \/ f.stage = "cleanup" /\ stock' = Cleaned(f.batch[f.next])
    /\ buffer' = [buffer EXCEPT ![w] = f.batch \o @]
    /\ flight' = [flight EXCEPT ![w][s] = Idle]
    /\ faults' = faults + 1
    /\ UNCHANGED <<log, activeFlushes, phase, counted, flushed, lost, alone, stops>>

\* A statement of the upsert or of a clean-up fails, its effect made or not,
\* and the batch goes back to the front of the buffer.
Fail(w, s) ==
    LET f == flight[w][s] IN
    /\ faults < MaxFaults
    /\ f.stage \in {"upsert", "cleanup"}
    /\ \/ UNCHANGED stock
       \/ f.stage = "upsert" /\ stock' = Upserted(f.batch)
       \/ f.stage = "cleanup" /\ stock' = Cleaned(f.batch[f.next])
    /\ buffer' = [buffer EXCEPT ![w] = f.batch \o @]
    /\ flight' = [flight EXCEPT ![w][s] = Idle]
    /\ activeFlushes' = [activeFlushes EXCEPT ![w] = @ - 1]
    /\ faults' = faults + 1
    /\ UNCHANGED <<log, phase, counted, flushed, lost, alone, stops>>

-----------------------------------------------------------------------------
(* The end of a process, and the new one in its place. *)

Restart(w) ==
    /\ lost' = lost \cup Pending(w)
    /\ buffer' = [buffer EXCEPT ![w] = <<>>]
    /\ flight' = [flight EXCEPT ![w] = [s \in Slot |-> Idle]]
    /\ activeFlushes' = [activeFlushes EXCEPT ![w] = 0]
    /\ phase' = [phase EXCEPT ![w] = "up"]
    /\ UNCHANGED <<log, stock, counted, flushed, alone>>

Crash(w) ==
    /\ faults < MaxFaults
    /\ Restart(w)
    /\ faults' = faults + 1
    /\ UNCHANGED stops

\* The process is asked to stop (SIGTERM): onModuleDestroy begins to drain, if
\* the application has its shutdown hooks enabled, else it just ends.
Stop(w) ==
    /\ stops < MaxStops
    /\ phase[w] = "up"
    /\ IF ShutdownHooks
       THEN /\ phase' = [phase EXCEPT ![w] = "draining"]
            /\ UNCHANGED <<log, buffer, flight, activeFlushes, stock, counted,
                           flushed, lost, alone>>
       ELSE Restart(w)
    /\ stops' = stops + 1
    /\ UNCHANGED faults

\* drain finds nothing left.
Drained(w) ==
    /\ phase[w] = "draining"
    /\ buffer[w] = <<>> /\ activeFlushes[w] = 0
    /\ phase' = [phase EXCEPT ![w] = "drained"]
    /\ UNCHANGED <<log, buffer, flight, activeFlushes, stock, counted, flushed,
                   lost, alone, faults, stops>>

\* The drained process ends.
Exit(w) ==
    /\ phase[w] = "drained"
    /\ Restart(w)
    /\ UNCHANGED <<faults, stops>>

-----------------------------------------------------------------------------

Write(w) == \E s \in Slot : Upsert(w, s) \/ Cleanup(w, s) \/ Count(w, s) \/ Finish(w, s)

Next ==
    \E w \in Worker :
        \/ \E p \in Product, a \in Answer, r \in Run : Extract(w, p, a, r)
        \/ Tick(w) \/ Write(w)
        \/ \E s \in Slot : Fail(w, s)
        \/ Crash(w) \/ Stop(w) \/ Drained(w) \/ Exit(w)

Spec == Init /\ [][Next]_vars

\* The interval timer fires and the database answers; the drain loop polls, and
\* a drained process ends.
Fairness ==
    \A w \in Worker :
        /\ WF_vars(Tick(w)) /\ WF_vars(Drained(w)) /\ WF_vars(Exit(w))
        /\ \A s \in Slot :
            WF_vars(Upsert(w, s) \/ Cleanup(w, s) \/ Count(w, s) \/ Finish(w, s))

-----------------------------------------------------------------------------
(* Properties. *)

TypeOK ==
    /\ \A i \in Item : log[i] \in [product : Product, offered : SUBSET Variant,
                                   stock : SUBSET Variant, run : Run]
    /\ \A w \in Worker :
        /\ Members(buffer[w]) \subseteq Item
        /\ activeFlushes[w] \in 0 .. MaxConcurrentFlushes
        /\ phase[w] \in {"up", "draining", "drained"}
        /\ \A s \in Slot :
            /\ flight[w][s].stage \in Stages
            /\ Members(flight[w][s].batch) \subseteq Item
            /\ Len(flight[w][s].batch) <= BatchSize
            /\ flight[w][s].runs \subseteq Run
    /\ stock \in [Product -> SUBSET Variant]
    /\ counted \in [Run -> Nat]
    /\ flushed \cup lost \cup alone \subseteq Item
    /\ faults \in 0 .. MaxFaults /\ stops \in 0 .. MaxStops

\* Everywhere in the workers' memory that item i is; slot 0 is the buffer.
Places(i) ==
    UNION { {<<w, 0, k>> : k \in {k \in DOMAIN buffer[w] : buffer[w][k] = i}} \cup
            UNION {{<<w, s, k>> : k \in {k \in DOMAIN flight[w][s].batch :
                                           flight[w][s].batch[k] = i}} : s \in Slot}
            : w \in Worker }

\* Splicing batches off the buffer and putting failed ones back neither drops
\* nor doubles an extraction: it is in memory exactly once until it is flushed,
\* or has gone down with its process.
OneHome ==
    /\ flushed \cap lost = {}
    /\ \A i \in Item : Cardinality(Places(i)) = IF i \in flushed \cup lost THEN 0 ELSE 1

\* Item i is yet to be upserted or cleaned up.
Unwritten(i) ==
    \E w \in Worker :
        \/ i \in Members(buffer[w])
        \/ \E s \in Slot : /\ flight[w][s].stage \in {"upsert", "cleanup"}
                           /\ i \in Members(flight[w][s].batch)

\* However often a batch is retried, an extraction run is credited at most once
\* with an extraction, and never before it is written.
CountedOnce ==
    \A r \in Run :
        counted[r] <= Cardinality({i \in Item : log[i].run = r /\ ~Unwritten(i)})

\* The tables repair themselves: if the last extraction of a product overlapped
\* with no other extraction of it, then once it is flushed the tables offer
\* exactly what the shop had in stock, whatever retries, crashes and overlaps
\* came before.
LastAnswerShown ==
    \A p \in Product :
        ItemsOf(p) # {} =>
            LET i == CHOOSE i \in ItemsOf(p) : \A j \in ItemsOf(p) : j <= i
            IN  i \in alone \cap flushed => stock[p] = log[i].stock

\* "Deduplicate listings by (storeId, productUrlId) - keep last occurrence": once
\* all extractions of a product are flushed, the last one shows.
LastOccurrenceKept ==
    \A p \in Product :
        ItemsOf(p) # {} /\ ItemsOf(p) \subseteq flushed =>
            LET i == CHOOSE i \in ItemsOf(p) : \A j \in ItemsOf(p) : j <= i
            IN  stock[p] = log[i].stock

\* "Wait for all in-flight flushes to complete and drain remaining buffer": whatever
\* was extracted is written in the end, unless its process goes down first.
EverythingFlushed == <>[](Item \subseteq flushed \cup lost)
=============================================================================
