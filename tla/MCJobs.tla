-------------------------------- MODULE MCJobs --------------------------------
(***************************************************************************)
(* TLC instances of what the scraper does job by job: CartRefresh, the     *)
(* sweeping of failed buckets (BucketDiscovery), the draining of a buffer  *)
(* (BatchAccumulator) and matching (PrintingMatch).  They share no state,  *)
(* so one run explores them side by side: a behaviour is one of them, with *)
(* the others at rest.                                                     *)
(*                                                                         *)
(* CartRefresh: two offers of a card, in two batches of one store.         *)
(* BucketDiscovery: two years of two ticks, three products, a first page   *)
(* that is never served, a sweeper that gives up after one round.          *)
(* BatchAccumulator: the token twin in a process that drains when stopped. *)
(* PrintingMatch: three cards of two sets and two tokens, matched in pairs. *)
(***************************************************************************)
EXTENDS Jobs, TLC

CONSTANTS a, b, k, x, y, s1, w1, p1, r1

-----------------------------------------------------------------------------
(* The lists. *)

MCCardOf == a :> k @@ b :> k
MCBatchOf == a :> x @@ b :> y
MCStoreOf == x :> s1 @@ y :> s1

Row(price, stock) == [price |-> price, stock |-> stock]
\* One offer's price has gone up, or it is in stock again; the other is unchanged.
MCBeginning ==
    {[shop |-> a :> 2 @@ b :> 1, row |-> a :> Row(1, inStock) @@ b :> Row(1, TRUE)] :
        inStock \in BOOLEAN}

-----------------------------------------------------------------------------
(* The other parts. *)

VARIABLES
    part,
    bucket, processed, flagged, evicted, sweeping, plans, bucketFaults,
    log, buffer, flight, activeFlushes, phase, stock, counted, flushed, lost, alone,
    drainFaults, stops

\* Definitions, so that TLC computes them once.
Ticks == 1 .. 3
Slots == 1 .. 4
TickOf == <<1, 2, 3>>
YearOfTick(t) == (t - 1) \div 2
YearStartTick(n) == 2 * n + 1

S == INSTANCE BucketDiscovery WITH
       Product <- Ticks, CreatedAt <- TickOf, Oldest <- 1, Newest <- 3,
       YearOf <- YearOfTick, YearStart <- YearStartTick, EndSlack <- 1, PageSize <- 1,
       DepthLimit <- 2, Known <- {}, Broken <- {1}, JobId <- Slots, PlanAttempts <- 1,
       JobAttempts <- 2, SweeperMax <- 1, KeepFailed <- 1, MaxPlans <- 1, MaxFaults <- 1,
       job <- bucket, seen <- processed, faults <- bucketFaults

Worker == {w1}
Url == {p1}
Run == {r1}
Variants == {a, b}
Reports == {[offered |-> {a, b}, stock |-> {a, b}], [offered |-> {a, b}, stock |-> {b}],
            [offered |-> {a}, stock |-> {}]}

D == INSTANCE BatchAccumulator WITH
       Product <- Url, Variant <- Variants, Answer <- Reports,
       TokenPipeline <- TRUE, BatchSize <- 2, MaxConcurrentFlushes <- 1,
       ShutdownHooks <- TRUE, MaxItems <- 3, MaxFaults <- 1, MaxStops <- 1,
       faults <- drainFaults

\* A card with two printings in a set and one in another, one known by its front face,
\* and a token numbered 0; titles that are exact, similar or of a front face.
Printed(name, set, number) == [of |-> name, set |-> set, number |-> number]
MCPrinting ==
    <<Printed("elf", "s1", <<1>>), Printed("elf", "s1", <<2>>), Printed("elf", "s2", <<1>>),
      Printed("smith // smithy", "s2", <<0>>),
      Printed("elf token", "s1", <<0>>), Printed("elf token", "s2", <<1>>)>>
MCToken == {"elf token"}
MCTitle == {"elf", "elves", "smith", "elf token"}
Only(domain, f) == [key \in domain |-> IF key \in DOMAIN f THEN f[key] ELSE None]
MCExact == Only(MCTitle, "elf" :> "elf")
MCFrontFace == Only(MCTitle, "smith" :> "smith // smithy")
MCSimilar == Only(MCTitle, "elves" :> "elf")
MCTokenSimilar == Only(MCTitle, "elf" :> "elf token")
MCSetName == {"first", "econd"}
MCNamed == Only(MCSetName, "first" :> "s1")
MCContaining == Only(MCSetName, "first" :> "s1" @@ "econd" :> "s2")
MCOffered ==
    [title : MCTitle, code : {None}, setName : {None, "first", "econd"},
     number : {None, <<1>>, <<0, 0>>}]
    \cup [title : {"elf", "smith"}, code : {"s1", "s2"}, setName : {None},
          number : {None, <<0, 1>>, <<0, 0>>}]
MCCatalogue == {1 .. 6, {1, 3, 4}, {2, 3, 5, 6}, {4}}

sweepVars == <<bucket, processed, flagged, evicted, sweeping, plans, bucketFaults>>
drainVars == <<log, buffer, flight, activeFlushes, phase, stock, counted, flushed, lost,
               alone, drainFaults, stops>>

MCInit ==
    /\ part \in {"refresh", "sweep", "drain", "match"}
    /\ Init /\ (part = "refresh" \/ row[a].stock)
    /\ S!Init /\ D!Init
    /\ M!Init /\ (part = "match" \/ tables = {4})

MCNext ==
    /\ UNCHANGED part
    /\ \/ part = "refresh" /\ Next /\ UNCHANGED <<sweepVars, drainVars, matchVars>>
       \/ part = "sweep" /\ S!Next /\ UNCHANGED <<vars, drainVars, matchVars>>
       \/ part = "drain" /\ D!Next /\ UNCHANGED <<vars, sweepVars, matchVars>>
       \/ part = "match" /\ M!Next /\ UNCHANGED <<vars, sweepVars, drainVars>>

MCVars == <<part, vars, sweepVars, drainVars, matchVars>>
SafeSpec == MCInit /\ [][MCNext]_MCVars

\* What is fair in each part: see the modules.
MCSpec ==
    /\ SafeSpec /\ Fairness
    /\ \A n \in 1 .. 4 :
         /\ WF_sweepVars(part = "sweep" /\ S!Work(n))
         /\ WF_sweepVars(part = "sweep" /\ S!Sweep(n))
    /\ WF_drainVars(part = "drain" /\ D!Tick(w1))
    /\ WF_drainVars(part = "drain" /\ D!Drained(w1))
    /\ WF_drainVars(part = "drain" /\ D!Exit(w1))
    /\ WF_drainVars(part = "drain" /\ D!Write(w1))

-----------------------------------------------------------------------------
(* The properties of the parts, by their names there. *)

\* The sweeper stops re-enqueueing (sweepFailedStorefrontJobs).
SweeperSettles == S!SweeperSettles
\* Every product of a planned discovery is processed, reported or parked in the end.
EveryProductResolved == S!EveryProductResolved
\* Every extraction is written in the end, unless its process goes down (drain).
EverythingFlushed == D!EverythingFlushed
=============================================================================
