---------------------------- MODULE ExtractionRuns ----------------------------
(***************************************************************************)
(* The extraction runs of the scheduler: the crons and the manual trigger  *)
(* start waves (ExtractionScheduler, ManualService), a wave stamps a row    *)
(* and queues one plan job per store (ExtractionOrchestrator), and rows    *)
(* left 'running' are marked 'failed' when the next wave starts.           *)
(*                                                                         *)
(* Left out: the cutoff of incremental runs, which no job uses, and the    *)
(* extraction counters, which BatchAccumulator models.                     *)
(***************************************************************************)
EXTENDS Naturals

CONSTANTS
    Store,      \* active storefront stores that have opted in
    Activity,   \* waves and triggers that can be under way at once
    MaxRuns,    \* bound: rows of extraction_runs
    MaxFaults,  \* bound: failed statements and crashes
    MaxManual   \* bound: manual triggers

ASSUME RunsAssumption ==
    /\ MaxRuns \in Nat /\ MaxFaults \in Nat /\ MaxManual \in Nat

VARIABLES
    run,        \* the rows, in the order of startedAt
    planned,    \* planned[r]: stores whose plan job carries the row's id
    activity,   \* activity[a]: where a wave or a trigger stands
    manuals, faults

vars == <<run, planned, activity, manuals, faults>>

RunID == 1 .. MaxRuns
Statuses == {"none", "running", "completed", "failed"}
NoRun == [status |-> "none", stores |-> {}, stale |-> FALSE]
Idle == [at |-> "idle", manual |-> FALSE, skip |-> FALSE, run |-> 0, left |-> {}, seen |-> {}]

Init ==
    /\ run = [r \in RunID |-> NoRun] /\ planned = [r \in RunID |-> {}]
    /\ activity = [a \in Activity |-> Idle]
    /\ manuals = 0 /\ faults = 0

Started == {r \in RunID : run[r].status # "none"}
Running == {r \in RunID : run[r].status = "running"}
At(a, place) == activity[a].at = place
Goto(a, place) == activity' = [activity EXCEPT ![a].at = place]
Stop(a) == activity' = [activity EXCEPT ![a] = Idle]

-----------------------------------------------------------------------------

\* A cron fires, whatever runs already; or a wave is asked for by hand.
CronTick(a) ==
    /\ At(a, "idle") /\ Started # RunID
    /\ activity' = [activity EXCEPT ![a].at = "cleanup"]
    /\ UNCHANGED <<run, planned, manuals, faults>>

\* A cron's tick after the last modelled row: only its clean-up counts.
LateTick(a) ==
    /\ At(a, "idle") /\ Started = RunID
    /\ \E r \in Running : run[r].stale
    /\ activity' = [activity EXCEPT ![a].at = "cleanup"]
    /\ UNCHANGED <<run, planned, manuals, faults>>

Trigger(a, skip) ==
    /\ At(a, "idle") /\ manuals < MaxManual /\ manuals' = manuals + 1
    /\ activity' = [activity EXCEPT ![a].at = "status", ![a].manual = TRUE, ![a].skip = skip]
    /\ UNCHANGED <<run, planned, faults>>

\* ManualService: the latest run must not be running.
CheckLatest(a) ==
    /\ At(a, "status")
    /\ IF \E r \in Running : \A s \in Started : s <= r
       THEN Stop(a) ELSE Goto(a, "precleanup")
    /\ UNCHANGED <<run, planned, manuals, faults>>

\* Mutant: only the latest row is looked at.
MarkedFailedLatest(r) ==
    run[r].status = "running" /\ run[r].stale /\ \A s \in Started : s <= r
MarkedFailed(r) == run[r].status = "running" /\ run[r].stale

\* cleanupStaleRuns, by the trigger and again by the wave.
CleanupStaleRuns(a) ==
    /\ \/ At(a, "precleanup") /\ Goto(a, "check")
       \/ At(a, "cleanup") /\ Goto(a, "create")
    /\ run' = [r \in RunID |->
                 IF MarkedFailed(r) THEN [run[r] EXCEPT !.status = "failed"] ELSE run[r]]
    /\ UNCHANGED <<planned, manuals, faults>>

\* Mutant: only the latest run is looked at.
NoneRunningLatest == ~ \E r \in Running : \A s \in Started : s <= r
NoneRunning == Running = {}

\* triggerExtractionRun: no run may be running.  seen is history.
CheckRunning(a) ==
    /\ At(a, "check")
    /\ IF NoneRunning
       THEN activity' = [activity EXCEPT ![a].at = "cleanup", ![a].seen = Started]
       ELSE Stop(a)
    /\ UNCHANGED <<run, planned, manuals, faults>>

\* save gives the row the next number.
IsNext(r) == run[r].status = "none" /\ 1 .. (r - 1) \subseteq Started

\* queueExtractionForAllStores: the row, then the jobs one by one, then 'completed'.
CreateRun(a) ==
    LET stores == IF activity[a].skip THEN {} ELSE Store IN
    /\ At(a, "create")
    /\ \/ Started = RunID /\ Stop(a) /\ UNCHANGED run
       \/ \E r \in RunID :
            /\ IsNext(r)
            /\ run' = [run EXCEPT ![r] = [status |-> "running", stores |-> stores, stale |-> FALSE]]
            /\ activity' = [activity EXCEPT ![a].at = "enqueue", ![a].run = r, ![a].left = stores]
    /\ UNCHANGED <<planned, manuals, faults>>

Enqueue(a) ==
    /\ At(a, "enqueue")
    /\ \E s \in activity[a].left :
         /\ planned' = [planned EXCEPT ![activity[a].run] = @ \cup {s}]
         /\ activity' = [activity EXCEPT ![a].left = @ \ {s}]
    /\ UNCHANGED <<run, manuals, faults>>

\* Mutant: the last store is not waited for.
KickedOffEarly(a) == \A s, t \in activity[a].left : s = t
KickedOff(a) == activity[a].left = {}

Complete(a) ==
    /\ At(a, "enqueue") /\ KickedOff(a)
    /\ run' = [run EXCEPT ![activity[a].run].status = "completed"]
    /\ Stop(a)
    /\ UNCHANGED <<planned, manuals, faults>>

-----------------------------------------------------------------------------

\* Six hours pass.
Age(r) ==
    /\ run[r].status # "none" /\ ~run[r].stale
    /\ run' = [run EXCEPT ![r].stale = TRUE]
    /\ UNCHANGED <<planned, activity, manuals, faults>>

\* A statement fails: the wave is given up where it stands.
Fail(a) ==
    /\ faults < MaxFaults /\ faults' = faults + 1
    /\ ~At(a, "idle")
    /\ Stop(a)
    /\ UNCHANGED <<run, planned, manuals>>

\* The scheduler restarts.
Crash ==
    /\ faults < MaxFaults /\ faults' = faults + 1
    /\ activity' = [a \in Activity |-> Idle]
    /\ UNCHANGED <<run, planned, manuals>>

Step(a) ==
    \/ CheckLatest(a) \/ CleanupStaleRuns(a) \/ CheckRunning(a)
    \/ CreateRun(a) \/ Enqueue(a) \/ Complete(a)
Cron == \E a \in Activity : CronTick(a) \/ LateTick(a)

Next ==
    \/ Cron
    \/ \E a \in Activity :
         \/ Step(a) \/ Fail(a)
         \/ \E skip \in BOOLEAN : Trigger(a, skip)
    \/ \E r \in RunID : Age(r)
    \/ Crash

\* Waves take their steps, crons keep firing and time passes.
Fairness ==
    /\ \A a \in Activity : WF_vars(Step(a))
    /\ WF_vars(Cron)
    /\ \A r \in RunID : WF_vars(Age(r))

Spec == Init /\ [][Next]_vars /\ Fairness

-----------------------------------------------------------------------------
(* Properties. *)

TypeOK ==
    /\ run \in [RunID -> [status : Statuses, stores : SUBSET Store, stale : BOOLEAN]]
    /\ planned \in [RunID -> SUBSET Store]
    /\ activity \in [Activity ->
         [at : {"idle", "status", "precleanup", "check", "cleanup", "create", "enqueue"},
          manual : BOOLEAN, skip : BOOLEAN, run : 0 .. MaxRuns, left : SUBSET Store,
          seen : SUBSET RunID]]
    /\ manuals \in 0 .. MaxManual /\ faults \in 0 .. MaxFaults
    \* Rows are numbered in the order of startedAt, and each has one wave at most.
    /\ \A r \in RunID : r \in Started => 1 .. r \subseteq Started
    /\ \A a \in Activity : At(a, "enqueue") => activity[a].run \in Started
    /\ \A a, b \in Activity : At(a, "enqueue") /\ At(b, "enqueue") =>
         a = b \/ activity[a].run # activity[b].run

\* A run is 'completed' only once every one of its stores has a plan job of the
\* run ("Completed" means that the wave is kicked off), however crons, triggers and
\* clean-ups of stale rows overlap and wherever a wave is given up.
CompletedIsKickedOff ==
    \A r \in RunID : run[r].status = "completed" => planned[r] = run[r].stores

\* A wave started by hand never runs beside a run that existed when it was checked
\* (triggerExtractionRun, after ManualService looked at the latest run only).
ManualRunsAlone ==
    \A a \in Activity :
        activity[a].manual /\ activity[a].at \in {"cleanup", "create", "enqueue"} =>
            \A r \in activity[a].seen : run[r].status # "running"

\* No run stays 'running' for ever, whatever stopped its wave: while one does, the
\* manual trigger is refused.
RunsSettle == \A r \in RunID : <>[](run[r].status # "running")
=============================================================================
