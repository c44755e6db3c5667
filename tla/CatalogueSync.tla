---------------------------- MODULE CatalogueSync ----------------------------
(***************************************************************************)
(* New card sets: the scheduler imports them from Scryfall, tells the       *)
(* scrapers and queues re-matches (ScryfallCatalogService); each scraper's  *)
(* PrintingMatcherService caches what it knows of card names, negative      *)
(* answers too, and flushes and re-warms on the message.                    *)
(*                                                                         *)
(* Abstractions: a set brings one new card name and stands for it; the      *)
(* three queries of a miss are one, read when the last of them is; a cached *)
(* name is never evicted; one store; what a page or a re-match writes besides *)
(* the match status is ProductPipeline's subject, and the set and printing *)
(* caches, flushed and warmed alike, are left out.                         *)
(***************************************************************************)
EXTENDS Naturals, FiniteSets

CONSTANTS
    CardSet,   \* sets that are released sooner or later
    Product,   \* products of the store
    SetOf,     \* the set each product's card is new in
    Worker,    \* scraper processes
    Task,      \* matches under way at a time
    Prompt,    \* TRUE: a query is answered before a later warm-up is through
    MaxFaults  \* bound: failures, crashes, lost messages

VARIABLES
    released,  \* sets Scryfall lists with a release date in the past
    imported,  \* rows of sets, with their card names and printings
    sync,      \* where the nightly sync stands
    mail,      \* messages on their way to each worker
    cache,     \* each worker's nameCache
    warm,      \* loads under way: doWarmCaches, by generation
    gen,       \* the generation warmupComplete stands for
    status,    \* match status of each product
    delayed,   \* sets with a delayed re-match job
    todo,      \* products a running re-match job has still to match
    task,
    silent,    \* history: sets whose sync stopped before it told the scrapers
    deaf,      \* history: workers that missed a message since they started
    faults

vars == <<released, imported, sync, mail, cache, warm, gen, status, delayed, todo, task,
          silent, deaf, faults>>

Resting == [at |-> "idle", left |-> {}, done |-> {}]
Idle == [at |-> "idle"]
\* A load: begun with which generation, whether it has read the tables, what it saw.
Begun(g) == [gen |-> g, read |-> FALSE, seen |-> {}]
Unknown == [s \in CardSet |-> "absent"]

Init ==
    /\ released = {} /\ imported = {} /\ sync = Resting
    /\ mail = [w \in Worker |-> 0] /\ cache = [w \in Worker |-> Unknown]
    /\ warm = [w \in Worker |-> {Begun(0)}] /\ gen = [w \in Worker |-> 0]
    /\ status = [p \in Product |-> "new"]
    /\ delayed = {} /\ todo = {} /\ task = [t \in Task |-> Idle]
    /\ silent = {} /\ deaf = {} /\ faults = 0

Busy == {t \in Task : task[t] # Idle}

Fault == faults < MaxFaults /\ faults' = faults + 1

-----------------------------------------------------------------------------
(* The sync. *)

Release(s) ==
    /\ s \notin released
    /\ released' = released \cup {s}
    /\ UNCHANGED <<imported, sync, mail, cache, warm, gen, status, delayed, todo, task,
                   silent, deaf, faults>>

Fetch ==
    /\ sync = Resting /\ released \ imported # {}
    /\ sync' = [at |-> "import", left |-> released \ imported, done |-> {}]
    /\ UNCHANGED <<released, imported, mail, cache, warm, gen, status, delayed, todo, task,
                   silent, deaf, faults>>

\* importSet: one transaction per set.
ImportSet(s) ==
    /\ sync.at = "import" /\ s \in sync.left
    /\ imported' = imported \cup {s}
    /\ sync' = [at |-> IF sync.left = {s} THEN "publish" ELSE "import",
                left |-> sync.left \ {s}, done |-> sync.done \cup {s}]
    /\ UNCHANGED <<released, mail, cache, warm, gen, status, delayed, todo, task,
                   silent, deaf, faults>>

\* publishCardDataChanged: a worker that is not connected just then never gets it.
Publish ==
    /\ sync.at = "publish"
    /\ \E missed \in SUBSET Worker :
         /\ IF missed = {} THEN UNCHANGED faults ELSE Fault
         /\ mail' = [w \in Worker |-> IF w \in missed THEN mail[w] ELSE mail[w] + 1]
         /\ deaf' = deaf \cup missed
    /\ sync' = [sync EXCEPT !.at = "queue"]
    /\ UNCHANGED <<released, imported, cache, warm, gen, status, delayed, todo, task, silent>>

Unmatched(s) == {p \in Product : SetOf[p] = s /\ status[p] = "unmatched"}

\* queueUnmatchedRematches: only if the store has unmatched cards of the sets.
QueueRematches ==
    /\ sync.at = "queue"
    /\ delayed' = IF \E s \in sync.done : Unmatched(s) # {}
                  THEN delayed \cup sync.done ELSE delayed
    /\ sync' = Resting
    /\ UNCHANGED <<released, imported, mail, cache, warm, gen, status, todo, task,
                   silent, deaf, faults>>

\* A request or a statement fails, or the scheduler restarts: what was imported stays.
SyncFails ==
    /\ Fault /\ sync # Resting
    /\ silent' = IF sync.at = "queue" THEN silent ELSE silent \cup sync.done
    /\ sync' = Resting
    /\ UNCHANGED <<released, imported, mail, cache, warm, gen, status, delayed, todo, task, deaf>>

-----------------------------------------------------------------------------
(* A worker's caches. *)

\* The subscriber's handler: flush, and warm again.
Hear(w) ==
    /\ mail[w] > 0 /\ mail' = [mail EXCEPT ![w] = @ - 1]
    /\ cache' = [cache EXCEPT ![w] = Unknown]
    /\ gen' = [gen EXCEPT ![w] = @ + 1]
    /\ warm' = [warm EXCEPT ![w] = @ \cup {Begun(gen[w] + 1)}]
    /\ UNCHANGED <<released, imported, sync, status, delayed, todo, task, silent, deaf, faults>>

Read(w, load) ==
    /\ load \in warm[w] /\ ~load.read
    /\ warm' = [warm EXCEPT ![w] = (@ \ {load}) \cup {[load EXCEPT !.read = TRUE, !.seen = imported]}]
    /\ UNCHANGED <<released, imported, sync, mail, cache, gen, status, delayed, todo, task,
                   silent, deaf, faults>>

\* Mutant: what is cached already is kept.
WarmedUnlessCached(c, seen) ==
    [s \in CardSet |-> IF s \in seen /\ c[s] = "absent" THEN "found" ELSE c[s]]
Warmed(c, seen) == [s \in CardSet |-> IF s \in seen THEN "found" ELSE c[s]]

\* With Prompt, the queries sent before the load was begun are answered first.
Load(w, load) ==
    /\ load \in warm[w] /\ load.read
    /\ Prompt => ~ \E t \in Busy :
                     task[t].worker = w /\ task[t].at = "answer" /\ task[t].asked < load.gen
    /\ cache' = [cache EXCEPT ![w] = Warmed(@, load.seen)]
    /\ warm' = [warm EXCEPT ![w] = @ \ {load}]
    /\ UNCHANGED <<released, imported, sync, mail, gen, status, delayed, todo, task,
                   silent, deaf, faults>>

Restart(w) ==
    /\ Fault
    /\ mail' = [mail EXCEPT ![w] = 0] /\ cache' = [cache EXCEPT ![w] = Unknown]
    /\ gen' = [gen EXCEPT ![w] = 0] /\ warm' = [warm EXCEPT ![w] = {Begun(0)}]
    /\ task' = [t \in Task |-> IF t \in Busy /\ task[t].worker = w THEN Idle ELSE task[t]]
    /\ deaf' = deaf \ {w}
    /\ UNCHANGED <<released, imported, sync, status, delayed, todo, silent>>

-----------------------------------------------------------------------------
(* Matching. *)

Begin(t, w, p, rematch) ==
    /\ task[t] = Idle
    /\ task' = [task EXCEPT ![t] = [at |-> "wait", worker |-> w, product |-> p,
                                    rematch |-> rematch, awaits |-> gen[w], asked |-> 0,
                                    hit |-> FALSE]]

\* Mutant: a product that has a row is not matched again.
DueOnce(p) == status[p] = "new"
Due(p) == status[p] # "matched"

\* A page of the discovery comes by a product that is not matched yet.
Scan(t, w, p) ==
    /\ Due(p)
    /\ Begin(t, w, p, FALSE)
    /\ UNCHANGED <<released, imported, sync, mail, cache, warm, gen, status, delayed, todo,
                   silent, deaf, faults>>

Settled(w) == mail[w] = 0 /\ warm[w] = {}

\* Mutant: the job is queued without its delay.
DelayPassedAtOnce == TRUE
\* Ten seconds: the messages have arrived and the caches are warm again.
DelayPassed == \A w \in Worker : Settled(w)

\* reextractUnmatched with set codes selects its products.
StartRematch ==
    /\ delayed # {} /\ DelayPassed
    /\ todo' = todo \cup UNION {Unmatched(s) : s \in delayed}
    /\ delayed' = {}
    /\ UNCHANGED <<released, imported, sync, mail, cache, warm, gen, status, task,
                   silent, deaf, faults>>

Rematch(t, w, p) ==
    /\ p \in todo /\ todo' = todo \ {p}
    /\ Begin(t, w, p, TRUE)
    /\ UNCHANGED <<released, imported, sync, mail, cache, warm, gen, status, delayed,
                   silent, deaf, faults>>

\* await this.warmupComplete, as it was when the match began.
Warm(w, g) == ~ \E load \in warm[w] : load.gen = g

\* resolveCardName: the cache answers, or the table is asked.
Lookup(t) ==
    LET w == task[t].worker
        s == SetOf[task[t].product]
    IN
    /\ task[t] # Idle /\ task[t].at = "wait" /\ Warm(w, task[t].awaits)
    /\ task' = [task EXCEPT ![t] =
         IF cache[w][s] # "absent"
         THEN [@ EXCEPT !.at = "save", !.awaits = 0, !.hit = cache[w][s] = "found"]
         ELSE [@ EXCEPT !.at = "answer", !.awaits = 0, !.asked = gen[w],
                        !.hit = s \in imported]]
    /\ UNCHANGED <<released, imported, sync, mail, cache, warm, gen, status, delayed, todo,
                   silent, deaf, faults>>

\* Its answer is cached, a negative one too.
Answer(t) ==
    LET w == task[t].worker
        s == SetOf[task[t].product]
    IN
    /\ task[t] # Idle /\ task[t].at = "answer"
    /\ cache' = [cache EXCEPT ![w][s] = IF task[t].hit THEN "found" ELSE "none"]
    /\ task' = [task EXCEPT ![t].at = "save", ![t].asked = 0]
    /\ UNCHANGED <<released, imported, sync, mail, warm, gen, status, delayed, todo,
                   silent, deaf, faults>>

\* bulkUpsertShopifyProducts.
Save(t) ==
    /\ task[t] # Idle /\ task[t].at = "save"
    /\ status' = [status EXCEPT ![task[t].product] = IF task[t].hit THEN "matched" ELSE "unmatched"]
    /\ task' = [task EXCEPT ![t] = Idle]
    /\ UNCHANGED <<released, imported, sync, mail, cache, warm, gen, delayed, todo,
                   silent, deaf, faults>>

\* A statement fails: the batch is given up.
TaskFails(t) ==
    /\ Fault /\ task[t] # Idle
    /\ task' = [task EXCEPT ![t] = Idle]
    /\ UNCHANGED <<released, imported, sync, mail, cache, warm, gen, status, delayed, todo,
                   silent, deaf>>

-----------------------------------------------------------------------------

SyncStep == Fetch \/ (\E s \in CardSet : ImportSet(s)) \/ Publish \/ QueueRematches
WorkerStep(w) == Hear(w) \/ \E load \in warm[w] : Read(w, load) \/ Load(w, load)
TaskStep(t) == Lookup(t) \/ Answer(t) \/ Save(t)
ScanOf(p) == \E t \in Task, w \in Worker : Scan(t, w, p)
RematchOf(p) == \E t \in Task, w \in Worker : Rematch(t, w, p)

Next ==
    \/ \E s \in CardSet : Release(s)
    \/ SyncStep \/ SyncFails
    \/ \E w \in Worker : WorkerStep(w) \/ Restart(w)
    \/ \E t \in Task : TaskStep(t) \/ TaskFails(t)
    \/ \E p \in Product : ScanOf(p) \/ RematchOf(p)
    \/ StartRematch

\* The nightly sync is started and runs on, workers serve their loop, and discovery
\* comes by every product again and again, though tasks may be busy at its turn.
Fairness ==
    /\ WF_vars(SyncStep) /\ WF_vars(StartRematch)
    /\ \A w \in Worker : WF_vars(WorkerStep(w))
    /\ \A t \in Task : WF_vars(TaskStep(t))
    /\ \A p \in Product : SF_vars(ScanOf(p)) /\ SF_vars(RematchOf(p))

Spec == Init /\ [][Next]_vars /\ Fairness

-----------------------------------------------------------------------------
(* Properties. *)

TypeOK ==
    /\ silent \subseteq imported /\ imported \subseteq released /\ released \subseteq CardSet
    /\ sync \in [at : {"idle", "import", "publish", "queue"}, left : SUBSET CardSet,
                 done : SUBSET CardSet]
    /\ mail \in [Worker -> Nat] /\ gen \in [Worker -> Nat]
    /\ cache \in [Worker -> [CardSet -> {"absent", "none", "found"}]]
    /\ \A w \in Worker : \A load \in warm[w] :
         load.gen <= gen[w] /\ load.seen \subseteq imported
    /\ status \in [Product -> {"new", "unmatched", "matched"}]
    /\ delayed \subseteq imported /\ todo \subseteq Product /\ deaf \subseteq Worker
    /\ \A t \in Busy :
         /\ task[t].at \in {"wait", "answer", "save"}
         /\ task[t].worker \in Worker /\ task[t].product \in Product
         /\ task[t].awaits <= gen[task[t].worker] /\ task[t].asked <= gen[task[t].worker]

\* "Scrapers rebuild their in-memory caches on this event, before they consume the
\* targeted re-match jobs": a re-match never concludes from the time before the
\* import, on a worker that got its messages.
RematchSeesTheSet ==
    \A t \in Busy :
        task[t].rematch /\ task[t].at = "save" /\ ~task[t].hit => task[t].worker \in deaf

\* A match that waits for the warm-up leaves no sticky miss: once a worker has heard of
\* a set and is warm, it holds no negative answer for it.
NoStickyMiss ==
    \A w \in Worker \ deaf, s \in imported \ (silent \cup sync.done) :
        Settled(w) => cache[w][s] # "none"

\* A product of an imported set is matched in the end, unless its set was never
\* announced or a worker missed an announcement.
MatchedAtLast ==
    \A p \in Product :
        <>[](status[p] = "unmatched" /\ SetOf[p] \in imported
                => SetOf[p] \in silent \/ deaf # {})
=============================================================================
