---------------------------- MODULE SchedulerProofs ----------------------------
(***************************************************************************)
(* Proofs about Scheduler.  ExtractionRuns: for every set of stores, any   *)
(* number of overlapping waves and triggers, rows, failures and restarts.  *)
(* CatalogueSync: for every number of sets, products, workers, matches at  *)
(* a time, failures, crashes and lost messages.                            *)
(***************************************************************************)
EXTENDS Scheduler, TLAPS

-----------------------------------------------------------------------------
(* ExtractionRuns: the inductive invariant.  CompletedIsKickedOff is not   *)
(* inductive: that a wave with nothing left has planned every store of its *)
(* row must be known while it enqueues, and that no second wave writes to  *)
(* a row that is completed.                                                *)

Rows == [RunID -> [status : Statuses, stores : SUBSET Store, stale : BOOLEAN]]
Acts == [at : {"idle", "status", "precleanup", "check", "cleanup", "create", "enqueue"},
         manual : BOOLEAN, skip : BOOLEAN, run : 0 .. MaxRuns, left : SUBSET Store,
         seen : SUBSET RunID]

\* A row that is not there yet has no plan jobs.
NothingPlanned == \A r \in RunID : run[r].status = "none" => planned[r] = {}

\* A wave that enqueues has its row open and knows what the row still lacks.
WaveOK(a) ==
    /\ At(a, "idle") => ~activity[a].manual
    /\ At(a, "enqueue") =>
         LET r == activity[a].run IN
         /\ r \in RunID
         /\ run[r].status \in {"running", "failed"}
         /\ planned[r] \cup activity[a].left = run[r].stores

\* The rows a manual trigger saw are over, and stay so.
SeenOver(a) ==
    activity[a].manual /\ activity[a].at \in {"cleanup", "create", "enqueue"} =>
        \A r \in activity[a].seen : run[r].status \in {"completed", "failed"}

IInv ==
    /\ TypeOK
    /\ NothingPlanned
    /\ \A a \in Activity : WaveOK(a)
    /\ CompletedIsKickedOff
    /\ \A a \in Activity : SeenOver(a)

LEMMA Types ==
    TypeOK <=>
      /\ run \in Rows
      /\ planned \in [RunID -> SUBSET Store]
      /\ activity \in [Activity -> Acts]
      /\ manuals \in 0 .. MaxManual /\ faults \in 0 .. MaxFaults
      /\ \A r \in RunID : r \in Started => 1 .. r \subseteq Started
      /\ \A a \in Activity : At(a, "enqueue") => activity[a].run \in Started
      /\ \A a, b \in Activity : At(a, "enqueue") /\ At(b, "enqueue") =>
           a = b \/ activity[a].run # activity[b].run
BY DEF TypeOK, Rows, Acts

LEMMA IdleFacts ==
    /\ Idle \in Acts /\ NoRun \in [status : Statuses, stores : SUBSET Store, stale : BOOLEAN]
    /\ Idle.at = "idle" /\ Idle.manual = FALSE /\ NoRun.status = "none"
BY RunsAssumption DEF Idle, NoRun, Acts, Statuses

LEMMA InitInv == Init => IInv
<1> SUFFICES ASSUME Init PROVE IInv
  OBVIOUS
<1>1. /\ \A r \in RunID : run[r] = NoRun /\ planned[r] = {}
      /\ \A a \in Activity : activity[a] = Idle
  BY DEF Init
<1>2. /\ run \in Rows /\ planned \in [RunID -> SUBSET Store]
      /\ activity \in [Activity -> Acts]
      /\ manuals \in 0 .. MaxManual /\ faults \in 0 .. MaxFaults
  BY IdleFacts, RunsAssumption DEF Init, Rows
<1>3. /\ \A r \in RunID : r \notin Started
      /\ \A a \in Activity : At(a, "idle") /\ ~activity[a].manual
  BY <1>1, IdleFacts DEF Started, At
<1>4. TypeOK
  BY <1>2, <1>3, Types DEF At
<1>5. NothingPlanned /\ CompletedIsKickedOff
  BY <1>1, IdleFacts DEF NothingPlanned, CompletedIsKickedOff
<1>6. \A a \in Activity : WaveOK(a) /\ SeenOver(a)
  BY <1>3 DEF WaveOK, SeenOver, At
<1> QED BY <1>4, <1>5, <1>6 DEF IInv

\* A step that only moves activity a to another place keeps what is known of rows;
\* of a, it must be shown again.
LEMMA OnlyMoves ==
    ASSUME IInv, NEW a \in Activity, NEW v \in Acts,
           activity' = [activity EXCEPT ![a] = v],
           v.at # "enqueue",
           v.at = "idle" => ~v.manual,
           v.manual /\ v.at \in {"cleanup", "create"} =>
             \A r \in v.seen : run[r].status \in {"completed", "failed"},
           run' = run, planned' = planned,
           manuals' \in 0 .. MaxManual, faults' \in 0 .. MaxFaults
    PROVE  IInv'
<1>1. /\ activity \in [Activity -> Acts]
      /\ run \in Rows /\ planned \in [RunID -> SUBSET Store]
  BY Types DEF IInv
<1>2. /\ activity'[a] = v
      /\ \A b \in Activity : b # a => activity'[b] = activity[b]
      /\ activity' \in [Activity -> Acts]
  BY <1>1
<1>3. Started' = Started
  BY DEF Started
<1>4. TypeOK'
  <2>1. \A b \in Activity : At(b, "enqueue")' => b # a /\ At(b, "enqueue")
    BY <1>2 DEF At
  <2>2. \A b \in Activity : At(b, "enqueue")' => activity'[b].run \in Started'
    BY <2>1, <1>2, <1>3, Types DEF IInv
  <2>3. \A b, c \in Activity : At(b, "enqueue")' /\ At(c, "enqueue")' =>
           b = c \/ activity'[b].run # activity'[c].run
    BY <2>1, <1>2, Types DEF IInv
  <2> QED BY <1>1, <1>2, <1>3, <2>2, <2>3, Types DEF IInv, TypeOK, Acts, Rows
<1>5. NothingPlanned' /\ CompletedIsKickedOff'
  BY DEF IInv, NothingPlanned, CompletedIsKickedOff
<1>6. \A b \in Activity : WaveOK(b)' /\ SeenOver(b)'
  <2> TAKE b \in Activity
  <2>1. CASE b = a
    BY <2>1, <1>2 DEF WaveOK, SeenOver, At
  <2>2. CASE b # a
    BY <2>2, <1>2 DEF IInv, WaveOK, SeenOver, At
  <2> QED BY <2>1, <2>2
<1> QED BY <1>4, <1>5, <1>6 DEF IInv
-----------------------------------------------------------------------------
(* The steps that only move a wave. *)

LEMMA Fields ==
    ASSUME TypeOK, NEW a \in Activity
    PROVE  activity[a] \in Acts
BY Types

\* A cron's tick, with or without a row left for its wave.
LEMMA TickInv ==
    ASSUME IInv, NEW a \in Activity, CronTick(a) \/ LateTick(a)
    PROVE  IInv'
<1> DEFINE v == [activity[a] EXCEPT !.at = "cleanup"]
<1>1. /\ activity[a] \in Acts /\ activity[a].at = "idle" /\ ~activity[a].manual
      /\ activity' = [activity EXCEPT ![a] = v]
  BY Fields DEF IInv, WaveOK, CronTick, LateTick, At
<1>2. v \in Acts /\ v.at = "cleanup" /\ ~v.manual
  BY <1>1 DEF Acts
<1>3. run' = run /\ planned' = planned /\ manuals' = manuals /\ faults' = faults
  BY DEF CronTick, LateTick
<1> HIDE DEF v
<1> QED BY <1>1, <1>2, <1>3, OnlyMoves, Types DEF IInv

LEMMA TriggerInv ==
    ASSUME IInv, NEW a \in Activity, NEW skip \in BOOLEAN, Trigger(a, skip)
    PROVE  IInv'
<1> DEFINE v == [activity[a] EXCEPT !.at = "status", !.manual = TRUE, !.skip = skip]
<1>1. activity[a] \in Acts /\ activity' = [activity EXCEPT ![a] = v]
  BY Fields DEF IInv, Trigger
<1>2. v \in Acts /\ v.at = "status"
  BY <1>1 DEF Acts
<1>3. /\ run' = run /\ planned' = planned /\ faults' = faults
      /\ manuals' \in 0 .. MaxManual
  BY RunsAssumption, Types DEF Trigger, IInv
<1> HIDE DEF v
<1> QED BY <1>1, <1>2, <1>3, OnlyMoves, Types DEF IInv

LEMMA StopInv ==
    ASSUME IInv, NEW a \in Activity, Stop(a), run' = run, planned' = planned,
           manuals' \in 0 .. MaxManual, faults' \in 0 .. MaxFaults
    PROVE  IInv'
BY OnlyMoves, IdleFacts DEF Stop

LEMMA CheckLatestInv ==
    ASSUME IInv, NEW a \in Activity, CheckLatest(a)
    PROVE  IInv'
<1> DEFINE v == [activity[a] EXCEPT !.at = "precleanup"]
<1>1. /\ run' = run /\ planned' = planned /\ manuals' = manuals /\ faults' = faults
      /\ manuals \in 0 .. MaxManual /\ faults \in 0 .. MaxFaults
      /\ activity[a] \in Acts
  BY Types, Fields DEF CheckLatest, IInv
<1>2. CASE Stop(a)
  BY <1>1, <1>2, StopInv
<1>3. CASE activity' = [activity EXCEPT ![a] = v]
  <2>1. v \in Acts /\ v.at = "precleanup"
    BY <1>1 DEF Acts
  <2> HIDE DEF v
  <2> QED BY <1>1, <1>3, <2>1, OnlyMoves
<1> QED BY <1>2, <1>3 DEF CheckLatest, Goto

\* What a manual trigger sees when it goes on is over.
LEMMA CheckRunningInv ==
    ASSUME IInv, NEW a \in Activity, CheckRunning(a)
    PROVE  IInv'
<1> DEFINE v == [activity[a] EXCEPT !.at = "cleanup", !.seen = Started]
<1>1. /\ run' = run /\ planned' = planned /\ manuals' = manuals /\ faults' = faults
      /\ manuals \in 0 .. MaxManual /\ faults \in 0 .. MaxFaults
      /\ activity[a] \in Acts /\ run \in Rows
  BY Types, Fields DEF CheckRunning, IInv
<1>2. CASE ~NoneRunning
  BY <1>1, <1>2, StopInv DEF CheckRunning
<1>3. CASE NoneRunning
  <2>1. v \in Acts /\ v.at = "cleanup" /\ v.seen = Started
    BY <1>1 DEF Acts, Started
  <2>2. \A r \in Started : run[r].status \in {"completed", "failed"}
    BY <1>1, <1>3 DEF NoneRunning, Running, Started, Rows, Statuses
  <2>3. activity' = [activity EXCEPT ![a] = v]
    BY <1>3 DEF CheckRunning
  <2> HIDE DEF v
  <2> QED BY <1>1, <2>1, <2>2, <2>3, OnlyMoves
<1> QED BY <1>2, <1>3

LEMMA FailInv ==
    ASSUME IInv, NEW a \in Activity, Fail(a)
    PROVE  IInv'
<1>1. faults' \in 0 .. MaxFaults /\ manuals' \in 0 .. MaxManual
  BY RunsAssumption, Types DEF Fail, IInv
<1> QED BY <1>1, StopInv DEF Fail

LEMMA CrashInv ==
    ASSUME IInv, Crash
    PROVE  IInv'
<1>1. /\ \A a \in Activity : activity'[a] = Idle
      /\ activity' \in [Activity -> Acts]
      /\ run' = run /\ planned' = planned /\ manuals' = manuals
      /\ faults' \in 0 .. MaxFaults
  BY IdleFacts, RunsAssumption, Types DEF Crash, IInv
<1>2. \A a \in Activity : ~At(a, "enqueue")'
  BY <1>1, IdleFacts DEF At
<1>3. Started' = Started
  BY <1>1 DEF Started
<1>4. TypeOK'
  BY <1>1, <1>2, <1>3, Types DEF IInv, TypeOK, Acts, Rows
<1>5. NothingPlanned' /\ CompletedIsKickedOff'
  BY <1>1 DEF IInv, NothingPlanned, CompletedIsKickedOff
<1>6. \A a \in Activity : WaveOK(a)' /\ SeenOver(a)'
  BY <1>1, IdleFacts DEF WaveOK, SeenOver, At
<1> QED BY <1>4, <1>5, <1>6 DEF IInv
-----------------------------------------------------------------------------
(* The steps that write rows or plan jobs. *)

\* Rows marked as failed were running: no row appears, closes or loses stores.
LEMMA CleanupInv ==
    ASSUME IInv, NEW a \in Activity, CleanupStaleRuns(a)
    PROVE  IInv'
<1> DEFINE row(r) == IF MarkedFailed(r) THEN [run[r] EXCEPT !.status = "failed"] ELSE run[r]
           u == [activity[a] EXCEPT !.at = "check"]
           w == [activity[a] EXCEPT !.at = "create"]
<1>1. /\ planned' = planned /\ manuals' = manuals /\ faults' = faults
      /\ run' = [r \in RunID |-> row(r)]
      /\ run \in Rows /\ activity \in [Activity -> Acts] /\ activity[a] \in Acts
  BY Types, Fields DEF CleanupStaleRuns, IInv
<1>2. /\ activity' \in [Activity -> Acts]
      /\ \A b \in Activity : b # a => activity'[b] = activity[b]
      /\ activity'[a].at \in {"check", "create"}
      /\ activity'[a].manual = activity[a].manual
      /\ activity'[a].seen = activity[a].seen
      /\ activity'[a].at = "create" => activity[a].at = "cleanup"
  <2>1. /\ u \in Acts /\ u.at = "check" /\ u.manual = activity[a].manual /\ u.seen = activity[a].seen
        /\ w \in Acts /\ w.at = "create" /\ w.manual = activity[a].manual /\ w.seen = activity[a].seen
    BY <1>1 DEF Acts
  <2>2. \/ activity' = [activity EXCEPT ![a] = u]
        \/ activity[a].at = "cleanup" /\ activity' = [activity EXCEPT ![a] = w]
    BY DEF CleanupStaleRuns, Goto, At
  <2> HIDE DEF u, w, row
  <2>3. CASE activity' = [activity EXCEPT ![a] = u]
    BY <2>1, <2>3, <1>1
  <2>4. CASE activity[a].at = "cleanup" /\ activity' = [activity EXCEPT ![a] = w]
    BY <2>1, <2>4, <1>1
  <2> QED BY <2>2, <2>3, <2>4
<1>3. \A r \in RunID :
        /\ run'[r] \in [status : Statuses, stores : SUBSET Store, stale : BOOLEAN]
        /\ run'[r].stores = run[r].stores
        /\ \/ run'[r].status = run[r].status
           \/ run[r].status = "running" /\ run'[r].status = "failed"
  <2> TAKE r \in RunID
  <2>1. run'[r] = row(r) /\ run[r] \in [status : Statuses, stores : SUBSET Store, stale : BOOLEAN]
    BY <1>1 DEF Rows
  <2> QED BY <2>1 DEF MarkedFailed, Statuses
<1> HIDE DEF row, u, w
<1>4. run' \in Rows
  BY <1>1, <1>3 DEF Rows
<1>5. Started' = Started
  BY <1>3 DEF Started
<1>6. TypeOK'
  <2>1. \A b \in Activity : At(b, "enqueue")' => At(b, "enqueue") /\ activity'[b] = activity[b]
    BY <1>2 DEF At
  <2>2. /\ \A b \in Activity : At(b, "enqueue")' => activity'[b].run \in Started'
        /\ \A b, c \in Activity : At(b, "enqueue")' /\ At(c, "enqueue")' =>
              b = c \/ activity'[b].run # activity'[c].run
    BY <2>1, <1>5, Types DEF IInv
  <2> QED BY <1>1, <1>2, <1>4, <1>5, <2>2, Types DEF IInv, TypeOK, Rows, Acts
<1>7. NothingPlanned' /\ CompletedIsKickedOff'
  BY <1>1, <1>3 DEF IInv, NothingPlanned, CompletedIsKickedOff
<1>8. \A b \in Activity : WaveOK(b)'
  <2> TAKE b \in Activity
  <2>1. CASE b = a
    <3>1. WaveOK(a) /\ activity'[b].at \in {"check", "create"}
      BY <2>1, <1>2 DEF IInv
    <3> QED BY <3>1 DEF WaveOK, At
  <2>2. CASE b # a
    <3>1. WaveOK(b) /\ activity'[b] = activity[b]
      BY <2>2, <1>2 DEF IInv
    <3> QED BY <3>1, <1>1, <1>3 DEF WaveOK, At
  <2> QED BY <2>1, <2>2
<1>9. \A b \in Activity : SeenOver(b)'
  <2> TAKE b \in Activity
  <2>1. SeenOver(b) /\ activity[b].seen \subseteq RunID
    BY <1>1 DEF IInv, Acts
  <2>2. activity'[b].seen = activity[b].seen /\ activity'[b].manual = activity[b].manual
    BY <1>2
  <2>3. activity'[b].at \in {"cleanup", "create", "enqueue"} =>
          activity[b].at \in {"cleanup", "create", "enqueue"}
    BY <1>2 DEF At
  <2> QED BY <2>1, <2>2, <2>3, <1>3 DEF SeenOver
<1> QED BY <1>6, <1>7, <1>8, <1>9 DEF IInv

\* A new row follows the others; no wave and no trigger knows it yet.
LEMMA CreateRunInv ==
    ASSUME IInv, NEW a \in Activity, CreateRun(a)
    PROVE  IInv'
<1> DEFINE stores == IF activity[a].skip THEN {} ELSE Store
<1>1. /\ planned' = planned /\ manuals' = manuals /\ faults' = faults
      /\ manuals \in 0 .. MaxManual /\ faults \in 0 .. MaxFaults
      /\ run \in Rows /\ activity \in [Activity -> Acts] /\ activity[a] \in Acts
      /\ stores \in SUBSET Store /\ At(a, "create")
      /\ planned \in [RunID -> SUBSET Store]
  BY Types, Fields DEF CreateRun, IInv
<1>2. CASE Stop(a) /\ UNCHANGED run
  BY <1>1, <1>2, StopInv
<1>3. ASSUME NEW r \in RunID, IsNext(r),
             run' = [run EXCEPT ![r] = [status |-> "running", stores |-> stores, stale |-> FALSE]],
             activity' = [activity EXCEPT ![a].at = "enqueue", ![a].run = r, ![a].left = stores]
      PROVE  IInv'
  <2> DEFINE v == [activity[a] EXCEPT !.at = "enqueue", !.run = r, !.left = stores]
             row == [status |-> "running", stores |-> stores, stale |-> FALSE]
  <2>1. r \in 1 .. MaxRuns /\ r \in Nat /\ r \in 0 .. MaxRuns /\ MaxRuns \in Nat
    BY RunsAssumption DEF RunID
  <2>2. /\ v \in Acts /\ v.at = "enqueue" /\ v.run = r /\ v.left = stores
        /\ v.manual = activity[a].manual /\ v.seen = activity[a].seen
    BY <1>1, <2>1 DEF Acts
  <2>3. /\ activity'[a] = v
        /\ \A b \in Activity : b # a => activity'[b] = activity[b]
        /\ activity' \in [Activity -> Acts]
    BY <1>1, <1>3, <2>2
  <2>4. /\ row \in [status : Statuses, stores : SUBSET Store, stale : BOOLEAN]
        /\ row.status = "running" /\ row.stores = stores
    BY <1>1 DEF Statuses
  <2> HIDE DEF v, row, stores
  <2>5. /\ run' \in Rows /\ run'[r] = row
        /\ \A q \in RunID : q # r => run'[q] = run[q]
    BY <1>1, <1>3, <2>4 DEF Rows, row
  <2>6. run[r].status = "none" /\ r \notin Started /\ 1 .. (r - 1) \subseteq Started
    BY <1>3 DEF IsNext, Started
  <2>7. Started' = Started \cup {r}
    BY <2>5, <2>4 DEF Started
  <2>8. TypeOK'
    <3>1. \A q \in RunID : q \in Started' => 1 .. q \subseteq Started'
      <4>1. 1 .. r \subseteq Started \cup {r}
        BY <2>1, <2>6
      <4>2. \A q \in RunID : q \in Started => 1 .. q \subseteq Started
        BY Types DEF IInv
      <4> QED BY <4>1, <4>2, <2>7
    <3>2. \A b \in Activity : At(b, "enqueue")' => activity'[b].run \in Started'
      BY <2>2, <2>3, <2>7, Types DEF IInv, At
    <3>3. \A b, c \in Activity : At(b, "enqueue")' /\ At(c, "enqueue")' =>
              b = c \/ activity'[b].run # activity'[c].run
      <4> TAKE b, c \in Activity
      <4>1. \A d \in Activity : d # a /\ At(d, "enqueue")' => activity'[d].run # r
        BY <2>3, <2>6, Types DEF IInv, At
      <4>2. b # a /\ c # a /\ At(b, "enqueue")' /\ At(c, "enqueue")' =>
              b = c \/ activity'[b].run # activity'[c].run
        BY <2>3, Types DEF IInv, At
      <4> QED BY <4>1, <4>2, <2>2, <2>3
    <3> QED BY <1>1, <2>3, <2>5, <3>1, <3>2, <3>3 DEF TypeOK, Rows, Acts
  <2>9. NothingPlanned' /\ CompletedIsKickedOff'
    BY <1>1, <2>4, <2>5 DEF IInv, NothingPlanned, CompletedIsKickedOff
  <2>10. \A b \in Activity : WaveOK(b)'
    <3> TAKE b \in Activity
    <3>1. CASE b = a
      <4>1. planned'[r] = {}
        BY <1>1, <2>6 DEF IInv, NothingPlanned
      <4> QED BY <3>1, <4>1, <2>2, <2>3, <2>4, <2>5 DEF WaveOK, At
    <3>2. CASE b # a
      <4>1. WaveOK(b) /\ activity'[b] = activity[b]
        BY <3>2, <2>3 DEF IInv
      <4>2. At(b, "enqueue") => activity[b].run # r
        BY <4>1, <2>6 DEF WaveOK
      <4> QED BY <4>1, <4>2, <1>1, <2>5 DEF WaveOK, At
    <3> QED BY <3>1, <3>2
  <2>11. \A b \in Activity : SeenOver(b)'
    <3> TAKE b \in Activity
    <3>1. SeenOver(b) /\ activity[b].seen \subseteq RunID
      BY <1>1 DEF IInv, Acts
    <3>2. activity'[b].seen = activity[b].seen /\ activity'[b].manual = activity[b].manual
      BY <2>2, <2>3
    <3>3. activity'[b].at \in {"cleanup", "create", "enqueue"} =>
            activity[b].at \in {"cleanup", "create", "enqueue"}
      BY <1>1, <2>3 DEF At
    <3>4. \A q \in RunID : run[q].status \in {"completed", "failed"} => run'[q] = run[q]
      BY <2>5, <2>6
    <3> QED BY <3>1, <3>2, <3>3, <3>4 DEF SeenOver
  <2> QED BY <2>8, <2>9, <2>10, <2>11 DEF IInv
<1> QED BY <1>2, <1>3 DEF CreateRun

LEMMA EnqueueInv ==
    ASSUME IInv, NEW a \in Activity, Enqueue(a)
    PROVE  IInv'
<1>1. PICK s \in activity[a].left :
        /\ planned' = [planned EXCEPT ![activity[a].run] = @ \cup {s}]
        /\ activity' = [activity EXCEPT ![a].left = @ \ {s}]
  BY DEF Enqueue
<1> DEFINE v == [activity[a] EXCEPT !.left = activity[a].left \ {s}]
           r == activity[a].run
<1>2. /\ run' = run /\ manuals' = manuals /\ faults' = faults /\ At(a, "enqueue")
      /\ manuals \in 0 .. MaxManual /\ faults \in 0 .. MaxFaults
      /\ run \in Rows /\ activity \in [Activity -> Acts] /\ activity[a] \in Acts
      /\ planned \in [RunID -> SUBSET Store]
  BY Types, Fields DEF Enqueue, IInv
<1>3. /\ v \in Acts /\ v.at = activity[a].at /\ v.run = activity[a].run
      /\ v.left = activity[a].left \ {s} /\ v.manual = activity[a].manual
      /\ v.seen = activity[a].seen /\ s \in Store
  BY <1>1, <1>2 DEF Acts
<1>4. /\ r \in RunID /\ run[r].status \in {"running", "failed"}
      /\ planned[r] \cup activity[a].left = run[r].stores
  BY <1>2 DEF IInv, WaveOK
<1>5. activity' = [activity EXCEPT ![a] = v]
  BY <1>1, <1>2
<1> HIDE DEF v, r
<1>6. /\ activity'[a] = v
      /\ \A b \in Activity : b # a => activity'[b] = activity[b]
      /\ activity' \in [Activity -> Acts]
  BY <1>2, <1>3, <1>5
<1>7. /\ planned' \in [RunID -> SUBSET Store] /\ planned'[r] = planned[r] \cup {s}
      /\ \A q \in RunID : q # r => planned'[q] = planned[q]
  BY <1>1, <1>2, <1>3, <1>4 DEF r
<1>8. Started' = Started
  BY <1>2 DEF Started
<1>9. \A b \in Activity : At(b, "enqueue")' => At(b, "enqueue") /\ activity'[b].run = activity[b].run
  BY <1>2, <1>3, <1>6 DEF At
<1>10. TypeOK'
  <2>1. /\ \A b \in Activity : At(b, "enqueue")' => activity'[b].run \in Started'
        /\ \A b, c \in Activity : At(b, "enqueue")' /\ At(c, "enqueue")' =>
              b = c \/ activity'[b].run # activity'[c].run
    BY <1>9, <1>8, Types DEF IInv
  <2> QED BY <1>2, <1>6, <1>7, <1>8, <2>1, Types DEF IInv, TypeOK, Rows, Acts
<1>11. NothingPlanned' /\ CompletedIsKickedOff'
  BY <1>2, <1>4, <1>7 DEF IInv, NothingPlanned, CompletedIsKickedOff
<1>12. \A b \in Activity : WaveOK(b)'
  <2> TAKE b \in Activity
  <2>1. CASE b = a
    BY <2>1, <1>1, <1>2, <1>3, <1>4, <1>6, <1>7 DEF WaveOK, At, r
  <2>2. CASE b # a
    <3>1. WaveOK(b) /\ activity'[b] = activity[b]
      BY <2>2, <1>6 DEF IInv
    <3>2. At(b, "enqueue") => activity[b].run # r
      BY <2>2, <1>2, Types DEF IInv, r
    <3> QED BY <3>1, <3>2, <1>2, <1>7 DEF WaveOK, At
  <2> QED BY <2>1, <2>2
<1>13. \A b \in Activity : SeenOver(b)'
  <2> TAKE b \in Activity
  <2>1. SeenOver(b)
    BY DEF IInv
  <2> QED BY <2>1, <1>2, <1>3, <1>6 DEF SeenOver
<1> QED BY <1>10, <1>11, <1>12, <1>13 DEF IInv

LEMMA CompleteInv ==
    ASSUME IInv, NEW a \in Activity, Complete(a)
    PROVE  IInv'
<1> DEFINE r == activity[a].run
<1>1. /\ planned' = planned /\ manuals' = manuals /\ faults' = faults
      /\ At(a, "enqueue") /\ activity[a].left = {}
      /\ activity' = [activity EXCEPT ![a] = Idle]
      /\ run' = [run EXCEPT ![r] = [run[r] EXCEPT !.status = "completed"]]
      /\ manuals \in 0 .. MaxManual /\ faults \in 0 .. MaxFaults
      /\ run \in Rows /\ activity \in [Activity -> Acts] /\ activity[a] \in Acts
      /\ planned \in [RunID -> SUBSET Store]
  BY Types, Fields DEF Complete, IInv, KickedOff, Stop
<1>2. /\ r \in RunID /\ run[r].status \in {"running", "failed"}
      /\ planned[r] = run[r].stores
  BY <1>1 DEF IInv, WaveOK
<1> HIDE DEF r
<1>3. /\ run' \in Rows /\ run'[r].status = "completed" /\ run'[r].stores = run[r].stores
      /\ \A q \in RunID : q # r => run'[q] = run[q]
  BY <1>1, <1>2 DEF Rows, Statuses
<1>4. Started' = Started
  BY <1>2, <1>3 DEF Started
<1>5. /\ activity'[a] = Idle
      /\ \A b \in Activity : b # a => activity'[b] = activity[b]
      /\ activity' \in [Activity -> Acts]
  BY <1>1, IdleFacts
<1>6. \A b \in Activity : At(b, "enqueue")' => b # a /\ At(b, "enqueue")
  BY <1>5, IdleFacts DEF At
<1>7. TypeOK'
  <2>1. /\ \A b \in Activity : At(b, "enqueue")' => activity'[b].run \in Started'
        /\ \A b, c \in Activity : At(b, "enqueue")' /\ At(c, "enqueue")' =>
              b = c \/ activity'[b].run # activity'[c].run
    BY <1>4, <1>5, <1>6, Types DEF IInv
  <2> QED BY <1>1, <1>3, <1>4, <1>5, <2>1, Types DEF IInv, TypeOK, Rows, Acts
<1>8. NothingPlanned' /\ CompletedIsKickedOff'
  BY <1>1, <1>2, <1>3 DEF IInv, NothingPlanned, CompletedIsKickedOff
<1>9. \A b \in Activity : WaveOK(b)'
  <2> TAKE b \in Activity
  <2>1. CASE b = a
    BY <2>1, <1>5, IdleFacts DEF WaveOK, At
  <2>2. CASE b # a
    <3>1. WaveOK(b) /\ activity'[b] = activity[b]
      BY <2>2, <1>5 DEF IInv
    <3>2. At(b, "enqueue") => activity[b].run # r
      BY <2>2, <1>1, Types DEF IInv, r
    <3> QED BY <3>1, <3>2, <1>1, <1>3 DEF WaveOK, At
  <2> QED BY <2>1, <2>2
<1>10. \A b \in Activity : SeenOver(b)'
  <2> TAKE b \in Activity
  <2>1. SeenOver(b) /\ activity[b].seen \subseteq RunID
    BY <1>1 DEF IInv, Acts
  <2>2. CASE b = a
    BY <2>2, <1>5, IdleFacts DEF SeenOver
  <2>3. CASE b # a
    BY <2>1, <2>3, <1>3, <1>5 DEF SeenOver
  <2> QED BY <2>2, <2>3
<1> QED BY <1>7, <1>8, <1>9, <1>10 DEF IInv

LEMMA AgeInv ==
    ASSUME IInv, NEW r \in RunID, Age(r)
    PROVE  IInv'
<1>1. /\ planned' = planned /\ manuals' = manuals /\ faults' = faults
      /\ activity' = activity
      /\ run' = [run EXCEPT ![r] = [run[r] EXCEPT !.stale = TRUE]]
      /\ manuals \in 0 .. MaxManual /\ faults \in 0 .. MaxFaults
      /\ run \in Rows /\ activity \in [Activity -> Acts]
      /\ planned \in [RunID -> SUBSET Store]
  BY Types DEF Age, IInv
<1>2. /\ run' \in Rows
      /\ \A q \in RunID : run'[q].status = run[q].status /\ run'[q].stores = run[q].stores
  BY <1>1 DEF Rows
<1>3. Started' = Started
  BY <1>2 DEF Started
<1>4. TypeOK'
  BY <1>1, <1>2, <1>3, Types DEF IInv, TypeOK, Rows, Acts, At
<1>5. NothingPlanned' /\ CompletedIsKickedOff'
  BY <1>1, <1>2 DEF IInv, NothingPlanned, CompletedIsKickedOff
<1>6. \A b \in Activity : WaveOK(b)'
  BY <1>1, <1>2 DEF IInv, WaveOK, At
<1>7. \A b \in Activity : SeenOver(b)'
  BY <1>1, <1>2 DEF IInv, SeenOver, Acts
<1> QED BY <1>4, <1>5, <1>6, <1>7 DEF IInv

-----------------------------------------------------------------------------
(* The theorems. *)

LEMMA NextInv == IInv /\ [Next]_vars => IInv'
<1> SUFFICES ASSUME IInv, [Next]_vars PROVE IInv'
  OBVIOUS
<1>1. CASE \E a \in Activity : CronTick(a) \/ LateTick(a)
  BY <1>1, TickInv
<1>2. ASSUME NEW a \in Activity, Step(a) PROVE IInv'
  BY <1>2, CheckLatestInv, CleanupInv, CheckRunningInv, CreateRunInv, EnqueueInv,
     CompleteInv DEF Step
<1>3. CASE \E a \in Activity : Fail(a) \/ \E skip \in BOOLEAN : Trigger(a, skip)
  BY <1>3, FailInv, TriggerInv
<1>4. CASE \E r \in RunID : Age(r)
  BY <1>4, AgeInv
<1>5. CASE Crash
  BY <1>5, CrashInv
<1>6. CASE UNCHANGED vars
  BY <1>6 DEF vars, IInv, TypeOK, NothingPlanned, WaveOK, CompletedIsKickedOff,
     SeenOver, Started, At
<1> QED BY <1>1, <1>2, <1>3, <1>4, <1>5, <1>6 DEF Next, Cron

\* The inductive invariant holds in every state of the scheduler.
THEOREM Invariance == Spec => []IInv
BY InitInv, NextInv, PTL DEF Spec

\* Rows are well formed, numbered without gaps, and have one wave at most.
THEOREM TypeCorrect == Spec => []TypeOK
<1>1. IInv => TypeOK
  BY DEF IInv
<1> QED BY <1>1, Invariance, PTL

\* However many crons, triggers, clean-ups, failed statements and restarts
\* overlap, a run is 'completed' only once each of its stores has its plan job.
THEOREM CompletedOnlyWhenKickedOff == Spec => []CompletedIsKickedOff
<1>1. IInv => CompletedIsKickedOff
  BY DEF IInv
<1> QED BY <1>1, Invariance, PTL

\* No wave that was started by hand runs beside a run its trigger had seen.
THEOREM ManualRunsAreAlone == Spec => []ManualRunsAlone
<1>1. IInv => ManualRunsAlone
  BY DEF IInv, SeenOver, ManualRunsAlone
<1> QED BY <1>1, Invariance, PTL

-----------------------------------------------------------------------------
(* CatalogueSync: the inductive invariant.  That a worker holds no sticky  *)
(* miss once it is quiet needs what is on the way to it: a message, or a   *)
(* load of its latest generation, begun after every question whose answer  *)
(* may still be a miss.                                                    *)

\* The sets that are announced, as far as they are going to be.
Announced == imported \ (silent \cup (IF sync.at = "queue" THEN {} ELSE sync.done))

Loads == [gen : Nat, read : BOOLEAN, seen : SUBSET CardSet]
Matches == [at : {"wait", "answer", "save"}, worker : Worker, product : Product,
            rematch : BOOLEAN, awaits : Nat, asked : Nat, hit : BOOLEAN]

SyncTypes ==
    /\ silent \subseteq imported /\ imported \subseteq released /\ released \subseteq CardSet
    /\ sync \in [at : {"idle", "import", "publish", "queue"}, left : SUBSET CardSet,
                 done : SUBSET CardSet]
    /\ sync.at = "idle" => sync.left = {} /\ sync.done = {}
    /\ sync.left \cap imported = {} /\ sync.left \subseteq released
    /\ sync.done \subseteq imported \ silent
    /\ status \in [Product -> {"new", "unmatched", "matched"}]
    /\ delayed \subseteq Announced /\ todo \subseteq Product /\ deaf \subseteq Worker

WorkerTypes ==
    /\ mail \in [Worker -> Nat] /\ gen \in [Worker -> Nat]
    /\ cache \in [Worker -> [CardSet -> {"absent", "none", "found"}]]
    /\ warm \in [Worker -> SUBSET Loads]
    /\ \A w \in Worker : \A load \in warm[w] : load.gen <= gen[w]

TaskTypes ==
    /\ task \in [Task -> Matches \cup {C!Idle}]
    /\ \A t \in C!Busy : task[t].asked <= gen[task[t].worker]

\* Questions of worker w about set s that were asked too early.
Missing(w, s) ==
    {t \in C!Busy : /\ task[t].worker = w /\ SetOf[task[t].product] = s
                    /\ task[t].at = "answer" /\ ~task[t].hit}

Heard(w, s) == cache[w][s] # "none" /\ Missing(w, s) = {}
Hearing(w, s) ==
    \E load \in warm[w] :
        /\ load.gen = gen[w] /\ (load.read => s \in load.seen)
        /\ \A t \in Missing(w, s) : task[t].asked < gen[w]
NewsOK ==
    \A w \in Worker \ deaf, s \in Announced : mail[w] > 0 \/ Hearing(w, s) \/ Heard(w, s)

\* The sets of the re-matches that are due or under way.
Owed ==
    {SetOf[p] : p \in todo} \cup
    {SetOf[task[t].product] : t \in {t \in C!Busy : task[t].rematch}}
RematchOK ==
    /\ Owed \subseteq Announced
    /\ \A s \in Owed, w \in Worker \ deaf : Heard(w, s)

CatalogueInv ==
    SyncTypes /\ WorkerTypes /\ TaskTypes /\ NewsOK /\ RematchOK /\ RematchSeesTheSet

-----------------------------------------------------------------------------
(* Types. *)

LEMMA BusyFacts ==
    ASSUME TaskTypes
    PROVE  /\ C!Busy = {t \in Task : task[t] \in Matches}
           /\ \A t \in Task : task[t] \in Matches <=> task[t] # C!Idle
           /\ \A t \in C!Busy :
                /\ t \in Task /\ task[t] \in Matches /\ task[t].worker \in Worker
                /\ task[t].product \in Product /\ SetOf[task[t].product] \in CardSet
<1>1. C!Idle \notin Matches
  BY DEF C!Idle, Matches
<1>2. \A t \in Task : task[t] \in Matches \/ task[t] = C!Idle
  BY DEF TaskTypes
<1>3. \A t \in Task : task[t] \in Matches <=> task[t] # C!Idle
  BY <1>1, <1>2
<1>4. \A m \in Matches : m.worker \in Worker /\ m.product \in Product /\ SetOf[m.product] \in CardSet
  BY CatalogueAssumption DEF Matches
<1> QED BY <1>3, <1>4 DEF C!Busy

LEMMA CatalogueInit == C!Init => CatalogueInv
<1> SUFFICES ASSUME C!Init
             PROVE  CatalogueInv
  OBVIOUS
<1>1. SyncTypes
  BY DEF C!Init, SyncTypes, C!Resting, Announced
<1>2. WorkerTypes
  BY DEF C!Init, WorkerTypes, Loads, C!Unknown, C!Begun
<1>3. C!Busy = {} /\ TaskTypes
  BY DEF C!Init, TaskTypes, C!Busy
<1>4. NewsOK /\ RematchOK
  BY <1>3 DEF C!Init, NewsOK, RematchOK, Announced, Owed
<1>5. RematchSeesTheSet
  BY <1>3 DEF RematchSeesTheSet, C!RematchSeesTheSet
<1> QED BY <1>1, <1>2, <1>3, <1>4, <1>5 DEF CatalogueInv

\* The sets that become announced are those of a publication.
LEMMA SyncTypesKept ==
    ASSUME SyncTypes, TaskTypes, C!Next
    PROVE  /\ SyncTypes' /\ imported \subseteq imported'
           /\ Announced' = Announced \/ C!Publish
<1>1. \A s \in released : s \in CardSet
  BY DEF SyncTypes
<1>2. CASE \E s \in CardSet : C!Release(s)
  BY <1>2 DEF C!Release, SyncTypes, Announced
<1>3. CASE C!Fetch
  BY <1>3 DEF C!Fetch, SyncTypes, Announced, C!Resting
<1>4. CASE \E s \in CardSet : C!ImportSet(s)
  BY <1>4 DEF C!ImportSet, SyncTypes, Announced
<1>5. CASE C!Publish
  BY <1>5 DEF C!Publish, SyncTypes, Announced
<1>6. CASE C!QueueRematches
  BY <1>6 DEF C!QueueRematches, SyncTypes, Announced, C!Resting
<1>7. CASE C!SyncFails
  BY <1>7 DEF C!SyncFails, SyncTypes, Announced, C!Resting
<1>8. CASE \E w \in Worker : C!WorkerStep(w) \/ C!Restart(w)
  BY <1>8 DEF C!WorkerStep, C!Hear, C!Read, C!Load, C!Restart, SyncTypes, Announced
<1>9. CASE C!StartRematch
  BY <1>9 DEF C!StartRematch, C!Unmatched, SyncTypes, Announced
<1>10. CASE \E p \in Product : C!ScanOf(p) \/ C!RematchOf(p)
  BY <1>10 DEF C!ScanOf, C!RematchOf, C!Scan, C!Rematch, SyncTypes, Announced
<1>11. CASE \E t \in Task : C!TaskStep(t) \/ C!TaskFails(t)
  <2>1. status' \in [Product -> {"new", "unmatched", "matched"}]
    BY <1>11 DEF C!TaskStep, C!Lookup, C!Answer, C!Save, C!TaskFails, SyncTypes
  <2>2. UNCHANGED <<released, imported, sync, delayed, todo, silent, deaf>>
    BY <1>11 DEF C!TaskStep, C!Lookup, C!Answer, C!Save, C!TaskFails
  <2> QED BY <2>1, <2>2 DEF SyncTypes, Announced
<1> QED BY <1>2, <1>3, <1>4, <1>5, <1>6, <1>7, <1>8, <1>9, <1>10, <1>11 DEF C!Next, C!SyncStep

LEMMA WorkerTypesKept ==
    ASSUME SyncTypes, WorkerTypes, TaskTypes, C!Next
    PROVE  WorkerTypes'
<1>1. imported \subseteq CardSet
  BY DEF SyncTypes
<1>2. CASE C!SyncStep \/ C!SyncFails \/ C!StartRematch \/ \E s \in CardSet : C!Release(s)
  BY <1>2 DEF C!SyncStep, C!SyncFails, C!StartRematch, C!Release, C!Fetch, C!ImportSet,
              C!Publish, C!QueueRematches, WorkerTypes
<1>3. ASSUME NEW w \in Worker, C!Hear(w)
      PROVE  WorkerTypes'
  <2>1. C!Begun(gen[w] + 1) \in Loads /\ C!Begun(gen[w] + 1).gen = gen[w] + 1
        /\ C!Unknown \in [CardSet -> {"absent", "none", "found"}]
    BY <1>3 DEF WorkerTypes, C!Begun, Loads, C!Unknown
  <2>2. /\ mail' \in [Worker -> Nat] /\ gen' \in [Worker -> Nat]
        /\ cache' \in [Worker -> [CardSet -> {"absent", "none", "found"}]]
    BY <1>3, <2>1 DEF WorkerTypes, C!Hear
  <2>3. /\ warm' = [warm EXCEPT ![w] = @ \cup {C!Begun(gen[w] + 1)}]
        /\ gen' = [gen EXCEPT ![w] = @ + 1]
    BY <1>3 DEF C!Hear
  <2> DEFINE b == C!Begun(gen[w] + 1)
  <2> HIDE DEF b
  <2>4. warm' = [warm EXCEPT ![w] = @ \cup {b}] /\ b \in Loads /\ b.gen = gen[w] + 1
    BY <2>1, <2>3 DEF b
  <2>5. warm' \in [Worker -> SUBSET Loads]
    BY <2>4 DEF WorkerTypes
  <2>6. ASSUME NEW v \in Worker, NEW load \in warm'[v]
        PROVE  load.gen <= gen'[v]
    <3>1. CASE load \in warm[v]
      <4>1. load.gen \in Nat /\ load.gen <= gen[v]
        BY <3>1 DEF WorkerTypes, Loads
      <4> QED BY <4>1, <2>3 DEF WorkerTypes
    <3>2. CASE load \notin warm[v]
      BY <3>2, <2>3, <2>4, <2>6 DEF WorkerTypes
    <3> QED BY <3>1, <3>2
  <2> QED BY <2>2, <2>5, <2>6 DEF WorkerTypes
<1>4. ASSUME NEW w \in Worker, NEW load \in warm[w], C!Read(w, load)
      PROVE  WorkerTypes'
  <2> DEFINE b == [load EXCEPT !.read = TRUE, !.seen = imported]
  <2>1. b \in Loads /\ b.gen = load.gen
    <3>1. load \in Loads
      BY DEF WorkerTypes
    <3> QED BY <1>1, <3>1 DEF Loads
  <2>2. warm' = [warm EXCEPT ![w] = (@ \ {load}) \cup {b}] /\ UNCHANGED <<mail, gen, cache>>
    BY <1>4 DEF C!Read
  <2> HIDE DEF b
  <2> QED BY <2>1, <2>2 DEF WorkerTypes
<1>5. ASSUME NEW w \in Worker, NEW load \in warm[w], C!Load(w, load)
      PROVE  WorkerTypes'
  <2>1. C!Warmed(cache[w], load.seen) \in [CardSet -> {"absent", "none", "found"}]
    BY DEF C!Warmed, WorkerTypes
  <2>2. /\ warm' = [warm EXCEPT ![w] = @ \ {load}] /\ UNCHANGED <<mail, gen>>
        /\ cache' = [cache EXCEPT ![w] = C!Warmed(@, load.seen)]
    BY <1>5 DEF C!Load
  <2> QED BY <2>1, <2>2 DEF WorkerTypes
<1>6. ASSUME NEW w \in Worker, C!Restart(w)
      PROVE  WorkerTypes'
  <2>1. C!Begun(0) \in Loads /\ C!Begun(0).gen = 0
        /\ C!Unknown \in [CardSet -> {"absent", "none", "found"}]
    BY DEF C!Begun, Loads, C!Unknown
  <2> QED BY <1>6, <2>1 DEF C!Restart, WorkerTypes
<1>7. CASE \E p \in Product : C!ScanOf(p) \/ C!RematchOf(p)
  BY <1>7 DEF C!ScanOf, C!RematchOf, C!Scan, C!Rematch, WorkerTypes
<1>8. ASSUME NEW t \in Task, C!TaskStep(t) \/ C!TaskFails(t)
      PROVE  WorkerTypes'
  <2>1. UNCHANGED <<mail, gen, warm>>
    BY <1>8 DEF C!TaskStep, C!Lookup, C!Answer, C!Save, C!TaskFails
  <2>2. CASE C!Answer(t)
    <3> DEFINE v == task[t].worker
               x == SetOf[task[t].product]
               a == IF task[t].hit THEN "found" ELSE "none"
    <3>1. v \in Worker /\ x \in CardSet /\ a \in {"found", "none"}
      BY <2>2, BusyFacts DEF C!Answer, C!Busy
    <3>2. cache' = [cache EXCEPT ![v][x] = a]
      BY <2>2 DEF C!Answer
    <3> HIDE DEF v, x, a
    <3> QED BY <2>1, <3>1, <3>2 DEF WorkerTypes
  <2>3. CASE ~C!Answer(t)
    <3>1. UNCHANGED cache
      BY <1>8, <2>3 DEF C!TaskStep, C!Lookup, C!Save, C!TaskFails
    <3> QED BY <2>1, <3>1 DEF WorkerTypes
  <2> QED BY <2>2, <2>3
<1> QED BY <1>2, <1>3, <1>4, <1>5, <1>6, <1>7, <1>8 DEF C!Next, C!WorkerStep

\* A match that begins.
LEMMA BeginFacts ==
    ASSUME TaskTypes, WorkerTypes, NEW t \in Task, NEW w \in Worker, NEW p \in Product,
           NEW r \in BOOLEAN, C!Begin(t, w, p, r)
    PROVE  /\ t \notin C!Busy /\ task' \in [Task -> Matches \cup {C!Idle}]
           /\ task'[t].at = "wait" /\ task'[t].asked = 0 /\ task'[t].worker = w
           /\ task'[t].product = p /\ task'[t].rematch = r /\ C!Busy' = C!Busy \cup {t}
           /\ \A u \in Task : u # t => task'[u] = task[u]
<1> DEFINE m == [at |-> "wait", worker |-> w, product |-> p, rematch |-> r,
                 awaits |-> gen[w], asked |-> 0, hit |-> FALSE]
<1>1. m \in Matches /\ m # C!Idle
  BY DEF WorkerTypes, Matches, C!Idle
<1>2. task[t] = C!Idle /\ task' = [task EXCEPT ![t] = m]
  BY DEF C!Begin
<1>3. /\ m.at = "wait" /\ m.asked = 0 /\ m.worker = w /\ m.product = p /\ m.rematch = r
  OBVIOUS
<1> HIDE DEF m
<1>4. task' \in [Task -> Matches \cup {C!Idle}] /\ task'[t] = m
      /\ \A u \in Task : u # t => task'[u] = task[u]
  BY <1>1, <1>2 DEF TaskTypes
<1> QED BY <1>1, <1>2, <1>3, <1>4 DEF C!Busy

\* What a step does to the matches: one may begin, move on, or be given up.
TaskMoves ==
    /\ task' \in [Task -> Matches \cup {C!Idle}]
    /\ \A t \in C!Busy' :
        \/ t \in C!Busy /\ task'[t] = task[t]
        \/ /\ task'[t].at = "wait" /\ task'[t].asked = 0
           /\ task'[t].rematch => task'[t].product \in todo
        \/ /\ t \in C!Busy /\ task[t].at = "wait"
           /\ task'[t].worker = task[t].worker /\ task'[t].product = task[t].product
           /\ task'[t].rematch = task[t].rematch
           /\ LET w == task[t].worker
                  s == SetOf[task[t].product]
              IN \/ /\ task'[t].at = "save" /\ task'[t].asked = task[t].asked
                    /\ cache[w][s] # "absent" /\ task'[t].hit = (cache[w][s] = "found")
                 \/ /\ task'[t].at = "answer" /\ task'[t].asked = gen[w]
                    /\ task'[t].hit = (s \in imported)
        \/ /\ t \in C!Busy /\ task[t].at = "answer" /\ task'[t].at = "save"
           /\ task'[t].worker = task[t].worker /\ task'[t].product = task[t].product
           /\ task'[t].rematch = task[t].rematch /\ task'[t].hit = task[t].hit
           /\ task'[t].asked = 0

LEMMA TasksMove ==
    ASSUME TaskTypes, WorkerTypes, SyncTypes, C!Next
    PROVE  TaskMoves
<1>1. CASE UNCHANGED task
  BY <1>1 DEF TaskMoves, TaskTypes, C!Busy
<1>2. ASSUME NEW p \in Product, NEW t \in Task, NEW w \in Worker, NEW r \in BOOLEAN,
             C!Begin(t, w, p, r), r => p \in todo
      PROVE  TaskMoves
  <2>1. /\ t \notin C!Busy /\ task' \in [Task -> Matches \cup {C!Idle}]
        /\ task'[t].at = "wait" /\ task'[t].asked = 0 /\ C!Busy' = C!Busy \cup {t}
        /\ task'[t].product = p /\ task'[t].rematch = r
        /\ \A u \in Task : u # t => task'[u] = task[u]
    BY <1>2, BeginFacts
  <2>2. C!Busy \subseteq Task
    BY DEF C!Busy
  <2> QED BY <1>2, <2>1, <2>2 DEF TaskMoves
<1>3. ASSUME NEW w \in Worker, C!Restart(w)
      PROVE  TaskMoves
  <2>1. /\ task' = [t \in Task |-> IF t \in C!Busy /\ task[t].worker = w THEN C!Idle ELSE task[t]]
    BY <1>3 DEF C!Restart
  <2>2. task' \in [Task -> Matches \cup {C!Idle}]
    BY <2>1 DEF TaskTypes
  <2>3. \A t \in C!Busy' : t \in C!Busy /\ task'[t] = task[t]
    BY <2>1 DEF C!Busy
  <2> QED BY <2>2, <2>3 DEF TaskMoves
<1>4. ASSUME NEW t \in Task, C!TaskStep(t) \/ C!TaskFails(t)
      PROVE  TaskMoves
  <2>1. t \in C!Busy /\ task[t] \in Matches
    <3>1. task[t] # C!Idle
      BY <1>4 DEF C!TaskStep, C!Lookup, C!Answer, C!Save, C!TaskFails
    <3> QED BY <3>1, BusyFacts
  <2> DEFINE w == task[t].worker
             s == SetOf[task[t].product]
  <2>2. w \in Worker /\ s \in CardSet /\ gen[w] \in Nat /\ cache[w][s] \in {"absent", "none", "found"}
    BY <2>1, BusyFacts DEF WorkerTypes
  <2>3. ASSUME NEW m, m = C!Idle \/ m \in Matches, task' = [task EXCEPT ![t] = m]
        PROVE  /\ task' \in [Task -> Matches \cup {C!Idle}] /\ task'[t] = m
               /\ \A u \in C!Busy' : u # t => u \in C!Busy /\ task'[u] = task[u]
               /\ m = C!Idle => t \notin C!Busy'
    BY <2>3 DEF TaskTypes, C!Busy
  <2>4. CASE C!Lookup(t)
    <3>1. CASE cache[w][s] # "absent"
      <4> DEFINE m == [task[t] EXCEPT !.at = "save", !.awaits = 0, !.hit = cache[w][s] = "found"]
      <4>1. task' = [task EXCEPT ![t] = m]
        BY <2>4, <3>1 DEF C!Lookup
      <4>2. /\ m \in Matches /\ m.at = "save" /\ m.worker = w /\ m.product = task[t].product
            /\ m.rematch = task[t].rematch /\ m.asked = task[t].asked
            /\ m.hit = (cache[w][s] = "found")
        BY <2>1, <2>2 DEF Matches
      <4> HIDE DEF m
      <4>3. task[t].at = "wait"
        BY <2>4 DEF C!Lookup
      <4>4. /\ task' \in [Task -> Matches \cup {C!Idle}] /\ task'[t] = m
            /\ \A u \in C!Busy' : u # t => u \in C!Busy /\ task'[u] = task[u]
        BY <2>3, <4>1, <4>2
      <4> QED BY <2>1, <3>1, <4>2, <4>3, <4>4 DEF TaskMoves
    <3>2. CASE cache[w][s] = "absent"
      <4> DEFINE h == s \in imported
                 m == [task[t] EXCEPT !.at = "answer", !.awaits = 0, !.asked = gen[w], !.hit = h]
                 n == IF cache[w][s] # "absent"
                      THEN [task[t] EXCEPT !.at = "save", !.awaits = 0,
                                           !.hit = cache[w][s] = "found"]
                      ELSE m
      <4>1. task' = [task EXCEPT ![t] = n]
        BY <2>4 DEF C!Lookup
      <4>2. task' = [task EXCEPT ![t] = m]
        BY <4>1, <3>2
      <4>3. task[t].at = "wait"
        BY <2>4 DEF C!Lookup
      <4>4. h \in BOOLEAN
        OBVIOUS
      <4> HIDE DEF h
      <4>5. /\ m \in Matches /\ m.at = "answer" /\ m.worker = w /\ m.product = task[t].product
            /\ m.rematch = task[t].rematch /\ m.asked = gen[w] /\ m.hit = h
        BY <2>1, <2>2, <4>4 DEF Matches
      <4> HIDE DEF m, n
      <4>6. m.hit = (s \in imported)
        BY <4>5 DEF h
      <4>7. /\ task' \in [Task -> Matches \cup {C!Idle}] /\ task'[t] = m
            /\ \A u \in C!Busy' : u # t => u \in C!Busy /\ task'[u] = task[u]
        BY <2>3, <4>2, <4>5
      <4> QED BY <2>1, <4>3, <4>5, <4>6, <4>7 DEF TaskMoves
    <3> QED BY <3>1, <3>2
  <2>5. CASE C!Answer(t)
    <3> DEFINE m == [task[t] EXCEPT !.at = "save", !.asked = 0]
    <3>1. task' = [task EXCEPT ![t] = m]
      BY <2>1, <2>5 DEF C!Answer, TaskTypes
    <3>2. /\ m \in Matches /\ m.at = "save" /\ m.worker = w /\ m.product = task[t].product
          /\ m.rematch = task[t].rematch /\ m.asked = 0 /\ m.hit = task[t].hit
      BY <2>1, <2>2 DEF Matches
    <3> HIDE DEF m
    <3>3. task[t].at = "answer"
      BY <2>5 DEF C!Answer
    <3>4. /\ task' \in [Task -> Matches \cup {C!Idle}] /\ task'[t] = m
          /\ \A u \in C!Busy' : u # t => u \in C!Busy /\ task'[u] = task[u]
      BY <2>3, <3>1, <3>2
    <3> QED BY <2>1, <3>2, <3>3, <3>4 DEF TaskMoves
  <2>6. CASE C!Save(t) \/ C!TaskFails(t)
    <3>1. task' = [task EXCEPT ![t] = C!Idle]
      BY <2>6 DEF C!Save, C!TaskFails
    <3> QED BY <2>3, <3>1 DEF TaskMoves
  <2> QED BY <1>4, <2>4, <2>5, <2>6 DEF C!TaskStep
<1>5. CASE C!SyncStep \/ C!SyncFails \/ C!StartRematch \/ \E s \in CardSet : C!Release(s)
  BY <1>1, <1>5 DEF C!SyncStep, C!SyncFails, C!StartRematch, C!Release, C!Fetch, C!ImportSet,
                    C!Publish, C!QueueRematches
<1>6. CASE \E w \in Worker : C!WorkerStep(w)
  BY <1>1, <1>6 DEF C!WorkerStep, C!Hear, C!Read, C!Load
<1>7. CASE \E p \in Product : C!ScanOf(p) \/ C!RematchOf(p)
  BY <1>2, <1>7 DEF C!ScanOf, C!RematchOf, C!Scan, C!Rematch
<1> QED BY <1>3, <1>4, <1>5, <1>6, <1>7 DEF C!Next

\* A generation only goes back with its process, and the matches of that end.
LEMMA GenerationsGrow ==
    ASSUME TaskTypes, WorkerTypes, SyncTypes, C!Next, NEW w \in Worker
    PROVE  gen[w] <= gen'[w] \/ (C!Restart(w) /\ \A t \in C!Busy' : task'[t].worker # w)
<1>1. gen[w] \in Nat
  BY DEF WorkerTypes
<1>2. CASE C!Restart(w)
  BY <1>2 DEF C!Restart, C!Busy
<1>3. ASSUME NEW v \in Worker, v # w, C!Restart(v)
      PROVE  gen[w] <= gen'[w]
  BY <1>1, <1>3 DEF C!Restart, WorkerTypes
<1>4. ASSUME NEW v \in Worker, C!Hear(v)
      PROVE  gen[w] <= gen'[w]
  BY <1>1, <1>4 DEF C!Hear, WorkerTypes
<1>5. CASE UNCHANGED gen
  BY <1>1, <1>5
<1>6. UNCHANGED gen \/ \E v \in Worker : C!Hear(v) \/ C!Restart(v)
  BY DEF C!Next, C!SyncStep, C!SyncFails, C!StartRematch, C!Release, C!Fetch, C!ImportSet,
         C!Publish, C!QueueRematches, C!WorkerStep, C!Read, C!Load, C!ScanOf, C!RematchOf,
         C!Scan, C!Rematch, C!TaskStep, C!Lookup, C!Answer, C!Save, C!TaskFails
<1> QED BY <1>2, <1>3, <1>4, <1>5, <1>6

LEMMA TaskTypesKept ==
    ASSUME TaskTypes, WorkerTypes, SyncTypes, C!Next
    PROVE  TaskTypes'
<1>1. TaskMoves /\ WorkerTypes'
  BY TasksMove, WorkerTypesKept
<1> SUFFICES ASSUME NEW t \in C!Busy'
             PROVE  task'[t].asked <= gen'[task'[t].worker]
  BY <1>1 DEF TaskTypes, TaskMoves
<1> DEFINE w == task'[t].worker
<1>2. t \in Task /\ task'[t] \in Matches /\ w \in Worker /\ gen'[w] \in Nat /\ gen[w] \in Nat
  <2>1. t \in Task /\ task'[t] # C!Idle
    BY DEF C!Busy
  <2>2. task'[t] \in Matches
    BY <1>1, <2>1 DEF TaskMoves
  <2>3. w \in Worker
    BY <2>2 DEF Matches
  <2> QED BY <2>1, <2>2, <2>3, <1>1 DEF WorkerTypes
<1>3. gen[w] <= gen'[w]
  BY <1>2, GenerationsGrow
<1>4. \/ task'[t].asked = 0
      \/ task'[t].asked = gen[w]
      \/ t \in C!Busy /\ task'[t].asked = task[t].asked /\ task[t].worker = w
  BY <1>1 DEF TaskMoves
<1>5. t \in C!Busy /\ task[t].worker = w => task[t].asked <= gen[w] /\ task[t].asked \in Nat
  BY BusyFacts DEF TaskTypes, Matches
<1> QED BY <1>2, <1>3, <1>4, <1>5

-----------------------------------------------------------------------------
(* What a worker has heard, and what it is about to hear. *)

\* A set that is in the tables is never asked for in vain.
LEMMA NoNewMisses ==
    ASSUME TaskTypes, WorkerTypes, SyncTypes, C!Next, NEW w \in Worker, NEW s \in imported,
           NEW t \in Missing(w, s)'
    PROVE  t \in Missing(w, s) /\ task'[t] = task[t]
<1>1. TaskMoves
  BY TasksMove
<1>2. /\ t \in C!Busy' /\ task'[t].worker = w /\ SetOf[task'[t].product] = s
      /\ task'[t].at = "answer" /\ ~task'[t].hit
  BY DEF Missing
<1>3. t \in C!Busy /\ task'[t] = task[t]
  BY <1>1, <1>2 DEF TaskMoves
<1> QED BY <1>2, <1>3 DEF Missing

LEMMA RestartForgets ==
    ASSUME TaskTypes, WorkerTypes, NEW w \in Worker, NEW s \in CardSet, C!Restart(w)
    PROVE  /\ \A t \in C!Busy' : task'[t].worker # w
           /\ Heard(w, s)' /\ Hearing(w, s)'
<1>1. \A t \in C!Busy' : task'[t].worker # w
  BY DEF C!Restart, C!Busy
<1>2. Missing(w, s)' = {}
  BY <1>1 DEF Missing
<1>3. cache'[w][s] = "absent" /\ warm'[w] = {C!Begun(0)} /\ gen'[w] = 0
  BY DEF C!Restart, WorkerTypes, C!Unknown
<1>4. C!Begun(0).gen = 0 /\ ~C!Begun(0).read
  BY DEF C!Begun
<1> QED BY <1>1, <1>2, <1>3, <1>4 DEF Heard, Hearing

LEMMA HeardStays ==
    ASSUME TaskTypes, WorkerTypes, SyncTypes, C!Next, NEW w \in Worker, NEW s \in imported,
           Heard(w, s)
    PROVE  Heard(w, s)'
<1>1. Missing(w, s)' = {} /\ s \in CardSet
  BY NoNewMisses DEF Heard, SyncTypes
<1>2. cache[w][s] # "none"
  BY DEF Heard
<1> SUFFICES cache'[w][s] # "none"
  BY <1>1 DEF Heard
<1>3. ASSUME NEW v \in Worker, C!Hear(v) \/ C!Restart(v)
      PROVE  cache'[w][s] # "none"
  BY <1>1, <1>2, <1>3 DEF C!Hear, C!Restart, C!Unknown, WorkerTypes
<1>4. ASSUME NEW v \in Worker, NEW load \in warm[v], C!Load(v, load)
      PROVE  cache'[w][s] # "none"
  BY <1>1, <1>2, <1>4 DEF C!Load, C!Warmed, WorkerTypes
<1>5. ASSUME NEW t \in Task, C!Answer(t)
      PROVE  cache'[w][s] # "none"
  <2> DEFINE v == task[t].worker
             x == SetOf[task[t].product]
             a == IF task[t].hit THEN "found" ELSE "none"
  <2>1. t \in C!Busy /\ task[t].at = "answer" /\ v \in Worker /\ x \in CardSet
    BY <1>5, BusyFacts DEF C!Answer, C!Busy
  <2>2. v = w /\ x = s => a = "found"
    BY <2>1 DEF Heard, Missing
  <2>3. cache' = [cache EXCEPT ![v][x] = a]
    BY <1>5 DEF C!Answer
  <2> HIDE DEF v, x, a
  <2> QED BY <1>1, <1>2, <2>1, <2>2, <2>3 DEF WorkerTypes
<1>6. UNCHANGED cache
      \/ (\E v \in Worker : C!Hear(v) \/ C!Restart(v) \/ \E load \in warm[v] : C!Load(v, load))
      \/ \E t \in Task : C!Answer(t)
  BY DEF C!Next, C!SyncStep, C!SyncFails, C!StartRematch, C!Release, C!Fetch, C!ImportSet,
         C!Publish, C!QueueRematches, C!WorkerStep, C!Read, C!ScanOf, C!RematchOf,
         C!Scan, C!Rematch, C!TaskStep, C!Lookup, C!Save, C!TaskFails
<1> QED BY <1>2, <1>3, <1>4, <1>5, <1>6

\* The message: the load it begins comes after every question.
LEMMA HearStarts ==
    ASSUME TaskTypes, WorkerTypes, SyncTypes, C!Next, NEW w \in Worker, NEW s \in imported,
           C!Hear(w)
    PROVE  Hearing(w, s)'
<1> DEFINE b == C!Begun(gen[w] + 1)
<1>1. b.gen = gen[w] + 1 /\ ~b.read
  BY DEF C!Begun
<1> HIDE DEF b
<1>2. b \in warm'[w] /\ gen'[w] = gen[w] + 1 /\ gen[w] \in Nat
  BY DEF C!Hear, WorkerTypes, b
<1>3. ASSUME NEW t \in Missing(w, s)'
      PROVE  task'[t].asked < gen'[w]
  <2>1. t \in Missing(w, s) /\ task'[t] = task[t]
    BY NoNewMisses
  <2>2. t \in C!Busy /\ task[t].worker = w /\ task[t] \in Matches
    BY <2>1, BusyFacts DEF Missing
  <2>3. task[t].asked \in Nat /\ task[t].asked <= gen[w]
    BY <2>2 DEF TaskTypes, Matches
  <2> QED BY <1>2, <2>1, <2>3
<1> QED BY <1>1, <1>2, <1>3 DEF Hearing

LEMMA HearingStays ==
    ASSUME TaskTypes, WorkerTypes, SyncTypes, C!Next, NEW w \in Worker, NEW s \in imported,
           Hearing(w, s)
    PROVE  Hearing(w, s)' \/ Heard(w, s)'
<1>1. PICK load \in warm[w] :
        /\ load.gen = gen[w] /\ (load.read => s \in load.seen)
        /\ \A t \in Missing(w, s) : task[t].asked < gen[w]
  BY DEF Hearing
<1>2. s \in CardSet /\ load \in Loads
  BY DEF SyncTypes, WorkerTypes
<1>3. \A t \in Missing(w, s)' : t \in Missing(w, s) /\ task'[t] = task[t]
  BY NoNewMisses
<1>4. CASE C!Hear(w)
  BY <1>4, HearStarts
<1>5. CASE C!Restart(w)
  BY <1>2, <1>5, RestartForgets
<1>6. ASSUME NEW b \in warm'[w], b.gen = gen[w], b.read => s \in b.seen, gen'[w] = gen[w]
      PROVE  Hearing(w, s)'
  BY <1>1, <1>3, <1>6 DEF Hearing
<1>7. ASSUME NEW l \in warm[w], C!Read(w, l)
      PROVE  Hearing(w, s)'
  <2> DEFINE b == [l EXCEPT !.read = TRUE, !.seen = imported]
  <2>1. l \in Loads
    BY DEF WorkerTypes
  <2>2. b.gen = l.gen /\ b.seen = imported
    BY <2>1 DEF Loads
  <2>3. warm' = [warm EXCEPT ![w] = (@ \ {l}) \cup {b}] /\ UNCHANGED gen
    BY <1>7 DEF C!Read
  <2> HIDE DEF b
  <2>4. warm'[w] = (warm[w] \ {l}) \cup {b}
    BY <2>3 DEF WorkerTypes
  <2> QED BY <1>1, <1>6, <2>2, <2>3, <2>4
<1>8. ASSUME NEW l \in warm[w], C!Load(w, l)
      PROVE  Hearing(w, s)' \/ Heard(w, s)'
  <2>1. warm'[w] = warm[w] \ {l} /\ UNCHANGED gen
    BY <1>8 DEF C!Load, WorkerTypes
  <2>2. CASE l = load
    <3>1. ~ \E t \in C!Busy :
              task[t].worker = w /\ task[t].at = "answer" /\ task[t].asked < load.gen
      BY <1>8, <2>2 DEF C!Load
    <3>2. Missing(w, s) = {}
      BY <1>1, <3>1 DEF Missing
    <3>3. cache'[w] = C!Warmed(cache[w], load.seen) /\ load.read
      BY <1>8, <2>2 DEF C!Load, WorkerTypes
    <3>4. cache'[w][s] = "found"
      BY <1>1, <1>2, <3>3 DEF C!Warmed
    <3> QED BY <1>3, <3>2, <3>4 DEF Heard
  <2> QED BY <1>1, <1>6, <2>1, <2>2
<1>9. CASE warm'[w] = warm[w] /\ gen'[w] = gen[w]
  BY <1>1, <1>6, <1>9
<1>10. \/ C!Hear(w) \/ C!Restart(w) \/ \E l \in warm[w] : C!Read(w, l) \/ C!Load(w, l)
       \/ warm'[w] = warm[w] /\ gen'[w] = gen[w]
  <2>1. \/ UNCHANGED <<warm, gen>>
        \/ \E v \in Worker : \/ C!Hear(v) \/ C!Restart(v)
                             \/ \E l \in warm[v] : C!Read(v, l) \/ C!Load(v, l)
    BY DEF C!Next, C!SyncStep, C!SyncFails, C!StartRematch, C!Release, C!Fetch, C!ImportSet,
           C!Publish, C!QueueRematches, C!WorkerStep, C!ScanOf, C!RematchOf,
           C!Scan, C!Rematch, C!TaskStep, C!Lookup, C!Answer, C!Save, C!TaskFails
  <2>2. ASSUME NEW v \in Worker, v # w,
               C!Hear(v) \/ C!Restart(v) \/ \E l \in warm[v] : C!Read(v, l) \/ C!Load(v, l)
        PROVE  warm'[w] = warm[w] /\ gen'[w] = gen[w]
    BY <2>2 DEF C!Hear, C!Restart, C!Read, C!Load, WorkerTypes
  <2> QED BY <2>1, <2>2
<1> QED BY <1>4, <1>5, <1>7, <1>8, <1>9, <1>10

\* A worker stops being deaf with a restart, and only then.
LEMMA DeafFacts ==
    ASSUME SyncTypes, C!Next
    PROVE  \A w \in deaf : w \in deaf' \/ C!Restart(w)
<1>1. CASE \E w \in Worker : C!WorkerStep(w) \/ C!Restart(w)
  BY <1>1 DEF C!WorkerStep, C!Hear, C!Read, C!Load, C!Restart
<1>2. CASE ~ \E w \in Worker : C!WorkerStep(w) \/ C!Restart(w)
  BY <1>2 DEF C!Next, C!SyncStep, C!SyncFails, C!StartRematch, C!Release, C!Fetch, C!ImportSet,
         C!Publish, C!QueueRematches, C!ScanOf, C!RematchOf,
         C!Scan, C!Rematch, C!TaskStep, C!Lookup, C!Answer, C!Save, C!TaskFails
<1> QED BY <1>1, <1>2

LEMMA MailStays ==
    ASSUME WorkerTypes, C!Next, NEW w \in Worker, mail[w] > 0
    PROVE  mail'[w] > 0 \/ C!Hear(w) \/ C!Restart(w)
<1>0. mail[w] \in Nat
  BY DEF WorkerTypes
<1>1. CASE UNCHANGED mail
  BY <1>1
<1>2. CASE C!Publish
  BY <1>0, <1>2 DEF C!Publish, WorkerTypes
<1>3. ASSUME NEW v \in Worker, v # w, C!Hear(v) \/ C!Restart(v)
      PROVE  mail'[w] > 0
  BY <1>3 DEF C!Hear, C!Restart, WorkerTypes
<1>4. UNCHANGED mail \/ C!Publish \/ \E v \in Worker : C!Hear(v) \/ C!Restart(v)
  BY DEF C!Next, C!SyncStep, C!SyncFails, C!StartRematch, C!Release, C!Fetch, C!ImportSet,
         C!QueueRematches, C!WorkerStep, C!Read, C!Load, C!ScanOf, C!RematchOf,
         C!Scan, C!Rematch, C!TaskStep, C!Lookup, C!Answer, C!Save, C!TaskFails
<1> QED BY <1>1, <1>2, <1>3, <1>4

LEMMA NewsKept ==
    ASSUME CatalogueInv, C!Next
    PROVE  NewsOK'
<1>1. SyncTypes /\ WorkerTypes /\ TaskTypes /\ NewsOK
  BY DEF CatalogueInv
<1> SUFFICES ASSUME NEW w \in Worker \ deaf', NEW s \in Announced'
             PROVE  mail'[w] > 0 \/ Hearing(w, s)' \/ Heard(w, s)'
  BY DEF NewsOK
<1>2. SyncTypes' /\ (Announced' = Announced \/ C!Publish)
  BY <1>1, SyncTypesKept
<1>3. s \in CardSet
  BY <1>2 DEF SyncTypes, Announced
<1>4. CASE w \in deaf
  BY <1>1, <1>3, <1>4, DeafFacts, RestartForgets
<1>5. CASE w \notin deaf /\ s \notin Announced
  <2>1. C!Publish
    BY <1>2, <1>5
  <2> QED BY <1>1, <2>1 DEF C!Publish, WorkerTypes
<1>6. CASE w \notin deaf /\ s \in Announced
  <2>1. s \in imported
    BY <1>6 DEF Announced
  <2>2. mail[w] > 0 \/ Hearing(w, s) \/ Heard(w, s)
    BY <1>1, <1>6 DEF NewsOK
  <2>3. CASE mail[w] > 0
    BY <1>1, <1>3, <2>1, <2>3, MailStays, HearStarts, RestartForgets
  <2> QED BY <1>1, <2>1, <2>2, <2>3, HearingStays, HeardStays
<1> QED BY <1>4, <1>5, <1>6

\* A re-match is owed only for announced sets, and every worker that gets its messages
\* has heard of them.
LEMMA OwedGrows ==
    ASSUME SyncTypes, TaskTypes, WorkerTypes, C!Next
    PROVE  Owed' \subseteq Owed \cup (IF C!StartRematch THEN delayed ELSE {})
<1>1. TaskMoves
  BY TasksMove
<1>2. ASSUME NEW t \in C!Busy', task'[t].rematch
      PROVE  SetOf[task'[t].product] \in Owed
  <2>1. \/ task'[t].product \in todo
        \/ t \in C!Busy /\ task[t].rematch /\ task'[t].product = task[t].product
    BY <1>1, <1>2 DEF TaskMoves
  <2> QED BY <2>1 DEF Owed
<1>3. CASE C!StartRematch
  BY <1>2, <1>3 DEF C!StartRematch, C!Unmatched, Owed
<1>4. CASE ~C!StartRematch
  <2>1. todo' \subseteq todo
    BY <1>4 DEF C!Next, C!SyncStep, C!SyncFails, C!Release, C!Fetch, C!ImportSet,
         C!Publish, C!QueueRematches, C!WorkerStep, C!Hear, C!Restart, C!Read, C!Load, C!ScanOf,
         C!RematchOf, C!Scan, C!Rematch, C!TaskStep, C!Lookup, C!Answer, C!Save, C!TaskFails
  <2> QED BY <1>2, <2>1 DEF Owed
<1> QED BY <1>3, <1>4

LEMMA RematchKept ==
    ASSUME CatalogueInv, C!Next
    PROVE  RematchOK'
<1>1. SyncTypes /\ WorkerTypes /\ TaskTypes /\ NewsOK /\ RematchOK
  BY DEF CatalogueInv
<1>2. Owed' \subseteq Owed \cup (IF C!StartRematch THEN delayed ELSE {})
  BY <1>1, OwedGrows
<1>3. Announced \subseteq Announced' /\ Announced \subseteq imported /\ imported \subseteq CardSet
  BY <1>1, SyncTypesKept DEF C!Publish, Announced, SyncTypes
<1>4. Owed \subseteq Announced /\ delayed \subseteq Announced
  BY <1>1 DEF RematchOK, SyncTypes
<1>5. ASSUME NEW s \in Owed', NEW w \in Worker \ deaf'
      PROVE  Heard(w, s)'
  <2>1. s \in Announced /\ s \in imported /\ s \in CardSet
    BY <1>2, <1>3, <1>4
  <2>2. CASE w \in deaf
    BY <1>1, <2>1, <2>2, DeafFacts, RestartForgets
  <2>3. CASE w \notin deaf /\ s \in Owed
    BY <1>1, <2>1, <2>3, HeardStays DEF RematchOK
  <2>4. CASE w \notin deaf /\ s \notin Owed
    <3>1. C!StartRematch
      BY <1>2, <2>4
    <3>2. mail[w] = 0 /\ warm[w] = {}
      BY <3>1 DEF C!StartRematch, C!DelayPassed, C!Settled
    <3>3. Heard(w, s)
      BY <1>1, <2>1, <2>4, <3>2 DEF NewsOK, Hearing
    <3> QED BY <1>1, <2>1, <3>3, HeardStays
  <2> QED BY <2>2, <2>3, <2>4
<1> QED BY <1>2, <1>3, <1>4, <1>5 DEF RematchOK

LEMMA VerdictsKept ==
    ASSUME CatalogueInv, C!Next
    PROVE  RematchSeesTheSet'
<1>1. SyncTypes /\ WorkerTypes /\ TaskTypes /\ RematchOK /\ RematchSeesTheSet
  BY DEF CatalogueInv
<1>2. TaskMoves
  BY <1>1, TasksMove
<1> SUFFICES ASSUME NEW t \in C!Busy', task'[t].rematch, task'[t].at = "save", ~task'[t].hit
             PROVE  task'[t].worker \in deaf'
  BY DEF RematchSeesTheSet, C!RematchSeesTheSet
<1> DEFINE w == task[t].worker
           s == SetOf[task[t].product]
<1>3. /\ t \in C!Busy /\ task'[t].worker = w /\ task[t].rematch
      /\ \/ task[t].at = "save" /\ ~task[t].hit
         \/ task[t].at = "wait" /\ cache[w][s] # "absent" /\ cache[w][s] # "found"
         \/ task[t].at = "answer" /\ ~task[t].hit
  BY <1>2 DEF TaskMoves
<1>4. w \in Worker /\ s \in CardSet /\ s \in Owed /\ cache[w][s] \in {"absent", "none", "found"}
  BY <1>1, <1>3, BusyFacts DEF Owed, WorkerTypes
<1>5. w \in deaf
  <2>1. CASE task[t].at = "save" /\ ~task[t].hit
    BY <1>1, <1>3, <2>1 DEF RematchSeesTheSet, C!RematchSeesTheSet
  <2>2. CASE task[t].at = "wait" /\ cache[w][s] = "none"
    BY <1>1, <1>4, <2>2 DEF RematchOK, Heard
  <2>3. CASE task[t].at = "answer" /\ ~task[t].hit
    <3>1. t \in Missing(w, s)
      BY <1>3, <2>3 DEF Missing
    <3> QED BY <1>1, <1>4, <3>1 DEF RematchOK, Heard
  <2> QED BY <1>3, <1>4, <2>1, <2>2, <2>3
<1>6. ~C!Restart(w)
  BY <1>1, <1>3, <1>4, RestartForgets
<1> QED BY <1>1, <1>3, <1>5, <1>6, DeafFacts

LEMMA CatalogueNext == CatalogueInv /\ [C!Next]_(C!vars) => CatalogueInv'
<1> SUFFICES ASSUME CatalogueInv, [C!Next]_(C!vars)
             PROVE  CatalogueInv'
  OBVIOUS
<1>1. CASE C!Next
  BY <1>1, SyncTypesKept, WorkerTypesKept, TaskTypesKept, NewsKept, RematchKept, VerdictsKept
     DEF CatalogueInv
<1>2. CASE UNCHANGED C!vars
  <2>1. SyncTypes' /\ WorkerTypes'
    BY <1>2 DEF C!vars, CatalogueInv, SyncTypes, WorkerTypes, Announced
  <2>2. TaskTypes' /\ C!Busy' = C!Busy
    BY <1>2 DEF C!vars, CatalogueInv, TaskTypes, C!Busy
  <2>3. \A w, s : Missing(w, s)' = Missing(w, s)
    BY <1>2, <2>2 DEF C!vars, Missing
  <2>4. NewsOK'
    BY <1>2, <2>3 DEF C!vars, CatalogueInv, NewsOK, Announced, Heard, Hearing
  <2>5. RematchOK'
    <3>1. Owed' = Owed
      BY <1>2, <2>2 DEF C!vars, Owed
    <3>2. Announced' = Announced /\ \A w, s : Heard(w, s)' = Heard(w, s)
      BY <1>2, <2>3 DEF C!vars, Announced, Heard
    <3> QED BY <1>2, <3>1, <3>2 DEF C!vars, CatalogueInv, RematchOK
  <2>6. RematchSeesTheSet'
    BY <1>2, <2>2 DEF C!vars, CatalogueInv, RematchSeesTheSet, C!RematchSeesTheSet
  <2> QED BY <2>1, <2>2, <2>4, <2>5, <2>6 DEF CatalogueInv
<1> QED BY <1>1, <1>2

LEMMA CatalogueInvariance == C!Init /\ [][C!Next]_(C!vars) => []CatalogueInv
  BY CatalogueInit, CatalogueNext, PTL

\* CatalogueSync: a worker that has heard of a set and is quiet holds no negative answer
\* for one of its names (startCardUpdateSubscriber, warmCaches, match).
THEOREM MissesForgotten == C!Spec => []NoStickyMiss
<1>1. C!Spec => C!Init /\ [][C!Next]_(C!vars)
  BY DEF C!Spec
<1>2. CatalogueInv => NoStickyMiss
  BY DEF CatalogueInv, NewsOK, Announced, Heard, Hearing, NoStickyMiss, C!NoStickyMiss, C!Settled
<1> QED BY <1>1, <1>2, CatalogueInvariance, PTL

\* CatalogueSync: a re-match never concludes from the time before the import, on a worker
\* that got its messages (syncMissingSets, queueUnmatchedRematches).
THEOREM RematchesInformed == C!Spec => []RematchSeesTheSet
<1>1. C!Spec => C!Init /\ [][C!Next]_(C!vars)
  BY DEF C!Spec
<1>2. CatalogueInv => RematchSeesTheSet
  BY DEF CatalogueInv
<1> QED BY <1>1, <1>2, CatalogueInvariance, PTL

-----------------------------------------------------------------------------
(* CatalogueSync: TypeOK.  No load has seen more than is imported, and no   *)
(* match waits for a warm-up that has not been begun.                      *)

NotAhead ==
    /\ \A w \in Worker : \A load \in warm[w] : load.seen \subseteq imported
    /\ \A t \in C!Busy : task[t].awaits <= gen[task[t].worker]

LEMMA SeenKept ==
    ASSUME SyncTypes, WorkerTypes, TaskTypes, NotAhead, C!Next
    PROVE  \A w \in Worker : \A load \in warm'[w] : load.seen \subseteq imported'
<1>1. imported \subseteq imported'
  BY SyncTypesKept
<1> SUFFICES ASSUME NEW w \in Worker, NEW load \in warm'[w]
             PROVE  load \in warm[w] \/ load.seen \subseteq imported
  BY <1>1 DEF NotAhead
<1>2. CASE UNCHANGED warm
  BY <1>2
<1>3. ASSUME NEW v \in Worker, C!Hear(v)
      PROVE  load \in warm[w] \/ load.seen \subseteq imported
  <2> DEFINE b == C!Begun(gen[v] + 1)
  <2>1. b.seen = {}
    BY DEF C!Begun
  <2>2. warm' = [warm EXCEPT ![v] = @ \cup {b}]
    BY <1>3 DEF C!Hear
  <2> HIDE DEF b
  <2> QED BY <2>1, <2>2 DEF WorkerTypes
<1>4. ASSUME NEW v \in Worker, NEW l \in warm[v], C!Read(v, l)
      PROVE  load \in warm[w] \/ load.seen \subseteq imported
  <2> DEFINE b == [l EXCEPT !.read = TRUE, !.seen = imported]
  <2>1. b.seen = imported
    <3>1. l \in Loads
      BY DEF WorkerTypes
    <3> QED BY <3>1 DEF Loads
  <2>2. warm' = [warm EXCEPT ![v] = (@ \ {l}) \cup {b}]
    BY <1>4 DEF C!Read
  <2> HIDE DEF b
  <2> QED BY <2>1, <2>2 DEF WorkerTypes
<1>5. ASSUME NEW v \in Worker, NEW l \in warm[v], C!Load(v, l)
      PROVE  load \in warm[w] \/ load.seen \subseteq imported
  BY <1>5 DEF C!Load, WorkerTypes
<1>6. ASSUME NEW v \in Worker, C!Restart(v)
      PROVE  load \in warm[w] \/ load.seen \subseteq imported
  <2>1. C!Begun(0).seen = {} /\ warm' = [warm EXCEPT ![v] = {C!Begun(0)}]
    BY <1>6 DEF C!Restart, C!Begun
  <2> QED BY <2>1 DEF WorkerTypes
<1>7. \/ UNCHANGED warm
      \/ \E v \in Worker : \/ C!Hear(v) \/ C!Restart(v)
                           \/ \E l \in warm[v] : C!Read(v, l) \/ C!Load(v, l)
  BY DEF C!Next, C!SyncStep, C!SyncFails, C!StartRematch, C!Release, C!Fetch, C!ImportSet,
         C!Publish, C!QueueRematches, C!WorkerStep, C!ScanOf, C!RematchOf,
         C!Scan, C!Rematch, C!TaskStep, C!Lookup, C!Answer, C!Save, C!TaskFails
<1> QED BY <1>2, <1>3, <1>4, <1>5, <1>6, <1>7

\* The generation a match awaits is set when it begins, and its worker's only grows
\* until the worker restarts and drops the match.
LEMMA AwaitsKept ==
    ASSUME SyncTypes, WorkerTypes, TaskTypes, NotAhead, C!Next
    PROVE  \A t \in C!Busy' : task'[t].awaits <= gen'[task'[t].worker]
<1> SUFFICES ASSUME NEW t \in C!Busy'
             PROVE  task'[t].awaits <= gen'[task'[t].worker]
  OBVIOUS
<1>1. t \in Task
  BY DEF C!Busy
<1>2. ASSUME t \in C!Busy, task'[t] = task[t]
      PROVE  task[t].awaits \in Nat /\ task[t].awaits <= gen[task[t].worker]
             /\ task[t].worker \in Worker
  <2>1. task[t] \in Matches
    BY <1>2, BusyFacts
  <2> QED BY <1>2, <2>1 DEF NotAhead, Matches
<1>3. CASE UNCHANGED <<task, gen>>
  BY <1>2, <1>3 DEF C!Busy
<1>4. ASSUME NEW v \in Worker, C!Hear(v)
      PROVE  task'[t].awaits <= gen'[task'[t].worker]
  <2>1. UNCHANGED task /\ gen' = [gen EXCEPT ![v] = @ + 1]
    BY <1>4 DEF C!Hear
  <2>2. t \in C!Busy
    BY <2>1 DEF C!Busy
  <2>3. gen'[task[t].worker] \in {gen[task[t].worker], gen[task[t].worker] + 1}
        /\ gen[task[t].worker] \in Nat
    BY <1>2, <2>1, <2>2 DEF WorkerTypes
  <2> QED BY <1>2, <2>1, <2>2, <2>3
<1>5. ASSUME NEW v \in Worker, C!Restart(v)
      PROVE  task'[t].awaits <= gen'[task'[t].worker]
  <2>1. /\ task' = [u \in Task |-> IF u \in C!Busy /\ task[u].worker = v THEN C!Idle ELSE task[u]]
        /\ gen' = [gen EXCEPT ![v] = 0]
    BY <1>5 DEF C!Restart
  <2>2. t \in C!Busy /\ task'[t] = task[t] /\ task[t].worker # v
    BY <1>1, <2>1 DEF C!Busy
  <2> QED BY <1>2, <2>1, <2>2 DEF WorkerTypes
<1>6. ASSUME NEW u \in Task, NEW w \in Worker, NEW p \in Product, NEW r \in BOOLEAN,
             C!Begin(u, w, p, r), UNCHANGED gen
      PROVE  task'[t].awaits <= gen'[task'[t].worker]
  <2>1. task' = [task EXCEPT ![u] = [at |-> "wait", worker |-> w, product |-> p, rematch |-> r,
                                     awaits |-> gen[w], asked |-> 0, hit |-> FALSE]]
    BY <1>6 DEF C!Begin
  <2>2. CASE t = u
    <3>1. task'[t].awaits = gen[w] /\ task'[t].worker = w
      BY <2>1, <2>2 DEF TaskTypes
    <3>2. gen[w] \in Nat
      BY DEF WorkerTypes
    <3> QED BY <1>6, <3>1, <3>2
  <2>3. CASE t # u
    <3>1. task'[t] = task[t] /\ t \in C!Busy
      BY <1>1, <2>1, <2>3 DEF TaskTypes, C!Busy
    <3> QED BY <1>2, <1>6, <3>1
  <2> QED BY <2>2, <2>3
<1>7. ASSUME NEW u \in Task, C!TaskStep(u) \/ C!TaskFails(u)
      PROVE  task'[t].awaits <= gen'[task'[t].worker]
  <2>1. UNCHANGED gen /\ u \in C!Busy /\ task[u] \in Matches
    <3>1. task[u] # C!Idle /\ UNCHANGED gen
      BY <1>7 DEF C!TaskStep, C!Lookup, C!Answer, C!Save, C!TaskFails
    <3> QED BY <3>1, BusyFacts
  <2>2. CASE t # u
    <3>1. task'[t] = task[t]
      BY <1>1, <1>7, <2>2 DEF C!TaskStep, C!Lookup, C!Answer, C!Save, C!TaskFails, TaskTypes
    <3> QED BY <1>1, <1>2, <2>1, <3>1 DEF C!Busy
  <2>3. CASE t = u
    <3>1. C!Lookup(t) \/ C!Answer(t)
      <4>1. ~C!Save(t) /\ ~C!TaskFails(t)
        BY <1>1 DEF C!Save, C!TaskFails, TaskTypes, C!Busy
      <4> QED BY <1>7, <2>3, <4>1 DEF C!TaskStep
    <3>2. task[t].awaits \in Nat /\ task[t].awaits <= gen[task[t].worker]
          /\ task[t].worker \in Worker /\ gen[task[t].worker] \in Nat
      BY <2>1, <2>3 DEF NotAhead, Matches, WorkerTypes
    <3>3. task'[t].worker = task[t].worker /\ task'[t].awaits \in {0, task[t].awaits}
      <4>1. CASE C!Answer(t)
        <5>1. task' = [task EXCEPT ![t].at = "save", ![t].asked = 0]
          BY <4>1 DEF C!Answer
        <5> QED BY <1>1, <2>1, <2>3, <5>1 DEF TaskTypes, Matches
      <4>2. CASE C!Lookup(t)
        <5> DEFINE h == cache[task[t].worker][SetOf[task[t].product]]
                   m == [task[t] EXCEPT !.at = "save", !.awaits = 0, !.hit = h = "found"]
                   n == [task[t] EXCEPT !.at = "answer", !.awaits = 0,
                                        !.asked = gen[task[t].worker],
                                        !.hit = SetOf[task[t].product] \in imported]
        <5>1. task' = [task EXCEPT ![t] = IF h # "absent" THEN m ELSE n]
          BY <4>2 DEF C!Lookup
        <5>2. m.worker = task[t].worker /\ n.worker = task[t].worker /\ m.awaits = 0 /\ n.awaits = 0
          BY <2>1, <2>3 DEF Matches
        <5> HIDE DEF m, n, h
        <5> QED BY <1>1, <5>1, <5>2 DEF TaskTypes
      <4> QED BY <3>1, <4>1, <4>2
    <3> QED BY <2>1, <3>2, <3>3
  <2> QED BY <2>2, <2>3
<1>8. \/ UNCHANGED <<task, gen>>
      \/ \E v \in Worker : C!Hear(v) \/ C!Restart(v)
      \/ \E u \in Task : C!TaskStep(u) \/ C!TaskFails(u)
      \/ \E u \in Task, w \in Worker, p \in Product, r \in BOOLEAN :
            C!Begin(u, w, p, r) /\ UNCHANGED gen
  BY DEF C!Next, C!SyncStep, C!SyncFails, C!StartRematch, C!Release, C!Fetch, C!ImportSet,
         C!Publish, C!QueueRematches, C!WorkerStep, C!Read, C!Load, C!ScanOf, C!RematchOf,
         C!Scan, C!Rematch
<1> QED BY <1>3, <1>4, <1>5, <1>6, <1>7, <1>8

LEMMA NotAheadInvariance == C!Init /\ [][C!Next]_(C!vars) => [](CatalogueInv /\ NotAhead)
<1>1. C!Init => NotAhead
  BY CatalogueInit DEF C!Init, NotAhead, C!Begun, C!Busy
<1>2. CatalogueInv /\ NotAhead /\ [C!Next]_(C!vars) => NotAhead'
  <2> SUFFICES ASSUME CatalogueInv, NotAhead, [C!Next]_(C!vars)
               PROVE  NotAhead'
    OBVIOUS
  <2>1. CASE C!Next
    BY <2>1, SeenKept, AwaitsKept DEF CatalogueInv, NotAhead
  <2>2. CASE UNCHANGED C!vars
    BY <2>2 DEF C!vars, NotAhead, C!Busy
  <2> QED BY <2>1, <2>2
<1> QED BY <1>1, <1>2, CatalogueInit, CatalogueNext, PTL

\* What is imported was released and what is announced imported; no load has seen more
\* than the tables, and no match awaits or asked in a generation to come (doWarmCaches,
\* warmupComplete).
THEOREM CatalogueTyped == C!Spec => []C!TypeOK
<1>1. C!Spec => C!Init /\ [][C!Next]_(C!vars)
  BY DEF C!Spec
<1>2. CatalogueInv /\ NotAhead => C!TypeOK
  <2> SUFFICES ASSUME CatalogueInv, NotAhead
               PROVE  C!TypeOK
    OBVIOUS
  <2>1. \A t \in C!Busy : /\ task[t].at \in {"wait", "answer", "save"}
                          /\ task[t].worker \in Worker /\ task[t].product \in Product
    <3>1. \A t \in C!Busy : task[t] \in Matches
      BY BusyFacts DEF CatalogueInv
    <3> QED BY <3>1 DEF Matches
  <2> QED BY <2>1 DEF CatalogueInv, SyncTypes, WorkerTypes, TaskTypes, NotAhead, Announced, C!TypeOK
<1> QED BY <1>1, <1>2, NotAheadInvariance, PTL

-----------------------------------------------------------------------------
(* Scheduler: the two side by side.                                         *)

LEMMA EitherStep ==
    ASSUME [EitherNext]_<<part, vars, syncVars>>
    PROVE  [Next]_vars /\ [C!Next]_(C!vars)
<1>1. UNCHANGED syncVars => UNCHANGED C!vars
  BY DEF syncVars, C!vars
<1> QED BY <1>1 DEF EitherNext

\* Of the two things the scheduler starts, whichever is under way: a run is 'completed'
\* only once each of its stores has its plan job, no run a trigger had seen goes on beside
\* its wave; a re-match follows its import, and a worker keeps no negative answer for a
\* name of a set it has heard of.  No fairness is needed for this.
THEOREM SchedulerIsSafe ==
    EitherSpec => [](CompletedIsKickedOff /\ ManualRunsAlone /\ RematchSeesTheSet /\ NoStickyMiss)
<1>1. EitherInit => Init /\ C!Init
  BY DEF EitherInit
<1>2. IInv => CompletedIsKickedOff /\ ManualRunsAlone
  BY DEF IInv, SeenOver, ManualRunsAlone
<1>3. CatalogueInv => RematchSeesTheSet /\ NoStickyMiss
  BY DEF CatalogueInv, NewsOK, Announced, Heard, Hearing, NoStickyMiss, C!NoStickyMiss, C!Settled
<1>4. EitherSpec => []IInv
  BY <1>1, InitInv, NextInv, EitherStep, PTL DEF EitherSpec
<1>5. EitherSpec => []CatalogueInv
  BY <1>1, CatalogueInit, CatalogueNext, EitherStep, PTL DEF EitherSpec
<1> QED BY <1>2, <1>3, <1>4, <1>5, PTL
================================================================================
