----------------------- MODULE BucketDiscoveryProofs -----------------------
(***************************************************************************)
(* Proofs about BucketDiscovery for every catalogue, calendar, page size,  *)
(* depth limit, retry budget and number of job slots.                      *)
(***************************************************************************)
EXTENDS BucketDiscovery, FiniteSetTheorems, TLAPS

-----------------------------------------------------------------------------
(* The pure functions of the plan and bucket handlers. *)

\* generateYearlyBuckets covers the catalogue: every product falls into one
\* of the yearly buckets, whose bounds are times.
LEMMA YearlyBucketsCover ==
    /\ YearlyBuckets(Oldest, Newest) \subseteq JobData
    /\ \A d \in YearlyBuckets(Oldest, Newest) : d.kind = "bucket" /\ d.cursor = {}
    /\ Product # {} => \A p \in Product :
        \E d \in YearlyBuckets(Oldest, Newest) : InRange(p, d.lo, d.hi)
<1> DEFINE Years == YearOf(Oldest) .. YearOf(Newest)
           Lo(y) == IF y = YearOf(Oldest) THEN Oldest ELSE YearStart(y)
           Hi(y) == IF YearStart(y + 1) > Newest THEN Newest + EndSlack
                                                 ELSE YearStart(y + 1)
<1>0. /\ YearOf(Oldest) \in Nat /\ YearOf(Newest) \in Nat
      /\ Oldest \in Nat /\ Newest \in Nat /\ EndSlack \in Nat \ {0}
      /\ SweeperMax \in Nat
  BY CatalogueAssumption, CalendarAssumption, BudgetAssumption
<1>1. \A y \in Years : Lo(y) \in Nat /\ Hi(y) \in Nat
  BY <1>0, YearStartAssumption
<1>2. YearlyBuckets(Oldest, Newest) = {Bucket(Lo(y), Hi(y), {}) : y \in Years}
  BY DEF YearlyBuckets
<1>3. \A y \in Years : Bucket(Lo(y), Hi(y), {}) \in JobData
  <2> TAKE y \in Years
  <2>1. Lo(y) \in Nat /\ Hi(y) \in Nat
    BY <1>1
  <2> HIDE DEF Lo, Hi
  <2> QED BY <2>1, <1>0 DEF Bucket, JobData
<1>4. ASSUME NEW p \in Product
      PROVE  \E y \in Years : InRange(p, Lo(y), Hi(y))
  <2> DEFINE t == CreatedAt[p]
             y == YearOf(t)
  <2>1. t \in Nat /\ Oldest <= t /\ t <= Newest
    BY CatalogueAssumption
  <2>2. /\ y \in Nat /\ YearStart(y) <= t /\ t < YearStart(y + 1)
        /\ YearOf(Oldest) <= y /\ y <= YearOf(Newest)
    BY <2>1, CalendarAssumption
  <2>3. YearStart(y) \in Nat /\ YearStart(y + 1) \in Nat
    BY <2>2, <1>0, YearStartAssumption
  <2>4. y \in Years
    BY <2>2, <1>0
  <2>5. Lo(y) <= t /\ t < Hi(y)
    BY <2>1, <2>2, <2>3, <1>0
  <2> QED BY <2>4, <2>5 DEF InRange
<1>5. \A y \in Years : /\ Bucket(Lo(y), Hi(y), {}).lo = Lo(y)
                       /\ Bucket(Lo(y), Hi(y), {}).hi = Hi(y)
                       /\ Bucket(Lo(y), Hi(y), {}).kind = "bucket"
                       /\ Bucket(Lo(y), Hi(y), {}).cursor = {}
  BY DEF Bucket
<1> HIDE DEF Lo, Hi, Years
<1> QED BY <1>2, <1>3, <1>4, <1>5

\* halveDateRange cuts a splittable range into two shorter, non-empty ranges
\* that together cover exactly the range.
LEMMA HalvesPartition ==
    ASSUME NEW lo \in Nat, NEW hi \in Nat, CanSplit(lo, hi)
    PROVE  /\ Halves(lo, hi) \subseteq JobData
           /\ \A d \in Halves(lo, hi) :
                /\ d.kind = "bucket" /\ d.cursor = {}
                /\ lo <= d.lo /\ d.lo < d.hi /\ d.hi <= hi
                /\ d.hi - d.lo < hi - lo
           /\ \A p \in Product :
                InRange(p, lo, hi) <=> \E d \in Halves(lo, hi) : InRange(p, d.lo, d.hi)
<1> DEFINE mid == lo + (hi - lo) \div 2
<1>1. mid \in Nat /\ lo < mid /\ mid < hi
  BY DEF CanSplit
<1>2. Halves(lo, hi) = {Bucket(lo, mid, {}), Bucket(mid, hi, {})}
  BY DEF Halves
<1> HIDE DEF mid
<1>3. /\ Bucket(lo, mid, {}) \in JobData /\ Bucket(mid, hi, {}) \in JobData
  BY <1>1, BudgetAssumption DEF Bucket, JobData
<1>4. \A p \in Product : CreatedAt[p] \in Nat
  BY CatalogueAssumption
<1>5. \A p \in Product :
        InRange(p, lo, hi) <=> InRange(p, lo, mid) \/ InRange(p, mid, hi)
  BY <1>1, <1>4 DEF InRange
<1>6. /\ Bucket(lo, mid, {}).lo = lo /\ Bucket(lo, mid, {}).hi = mid
      /\ Bucket(mid, hi, {}).lo = mid /\ Bucket(mid, hi, {}).hi = hi
      /\ Bucket(lo, mid, {}).kind = "bucket" /\ Bucket(lo, mid, {}).cursor = {}
      /\ Bucket(mid, hi, {}).kind = "bucket" /\ Bucket(mid, hi, {}).cursor = {}
  BY DEF Bucket
<1> QED BY <1>1, <1>2, <1>3, <1>5, <1>6

-----------------------------------------------------------------------------
(* The inductive invariant.  NoSilentLoss alone is not inductive: when a   *)
(* job that has begun to enqueue its follow-ups runs again, what the       *)
(* dropped follow-ups would have brought must be found in the job's own    *)
(* data, and what a half bucket walks again must have been processed.      *)

\* A cursor holds processed products of its own bucket only, and not all.
CursorOK(d) ==
    \A p \in d.cursor : /\ p \in seen
                        /\ d.kind = "bucket" /\ InRange(p, d.lo, d.hi)
                        /\ Rest(d) # {}

\* The follow-ups of the job in slot n bring nothing but what the job itself
\* brings, or what has been processed already; and the job the sweeper is
\* about to remove is still a parked one.
SlotOK(n) ==
    /\ CursorOK(job[n].data)
    /\ \A d \in job[n].todo :
         CursorOK(d) /\ PromisedBy(d) \subseteq seen \cup PromisedBy(job[n].data)
    /\ n \in sweeping => job[n].phase = "failed"

IInv ==
    /\ TypeOK
    /\ \A n \in JobId : SlotOK(n)
    /\ NoSilentLoss
    /\ FlaggedOnlyIfDense

-----------------------------------------------------------------------------
(* Typing of the records. *)

LEMMA DataTypes ==
    /\ PlanData \in JobData
    /\ \A lo, hi \in Nat, c \in SUBSET Product : Bucket(lo, hi, c) \in JobData
    /\ \A lo, hi \in Nat : Recovery(lo, hi) \in JobData
BY BudgetAssumption DEF PlanData, Bucket, Recovery, JobData

LEMMA JobTypes ==
    /\ NoJob \in Job
    /\ \A d \in JobData, t \in Nat : Waiting(d, t) \in Job
    /\ TypeOK => \A n \in JobId, ds \in SUBSET JobData : Adding(n, ds) \in Job
<1>1. NoJob \in Job
  BY DataTypes DEF NoJob, Job, Phases
<1>2. \A d \in JobData, t \in Nat : Waiting(d, t) \in Job
  BY DEF Waiting, Job, Phases
<1>3. ASSUME TypeOK, NEW n \in JobId, NEW ds \in SUBSET JobData
      PROVE  Adding(n, ds) \in Job
  BY <1>3 DEF TypeOK, Adding, Job, Phases
<1> QED BY <1>1, <1>2, <1>3

\* The fields of the job records the actions build.
LEMMA JobFields ==
    /\ NoJob.phase = "absent" /\ NoJob.todo = {} /\ NoJob.data = PlanData
    /\ PlanData.kind = "plan" /\ PlanData.cursor = {}
    /\ \A d, t : /\ Waiting(d, t).phase = "waiting" /\ Waiting(d, t).data = d
                 /\ Waiting(d, t).todo = {}
    /\ TypeOK => \A n \in JobId : \A ds :
                    /\ Adding(n, ds).phase = "adding" /\ Adding(n, ds).todo = ds
                    /\ Adding(n, ds).data = job[n].data
    /\ \A d : /\ OutOfTries(d).phase = "failed" /\ OutOfTries(d).data = d
              /\ OutOfTries(d).todo = {}
    /\ \A lo, hi, c : /\ Bucket(lo, hi, c).kind = "bucket"
                      /\ Bucket(lo, hi, c).lo = lo /\ Bucket(lo, hi, c).hi = hi
                      /\ Bucket(lo, hi, c).cursor = c
    /\ \A lo, hi : /\ Recovery(lo, hi).kind = "recovery"
                   /\ Recovery(lo, hi).cursor = {}
<1>1. ASSUME TypeOK, NEW n \in JobId, NEW ds
      PROVE  /\ Adding(n, ds).phase = "adding" /\ Adding(n, ds).todo = ds
             /\ Adding(n, ds).data = job[n].data
  BY <1>1 DEF TypeOK, Adding, Job
<1> QED
  BY <1>1 DEF NoJob, PlanData, Waiting, OutOfTries, Bucket, Recovery

-----------------------------------------------------------------------------
(* Type correctness. *)

LEMMA InitType == Init => TypeOK
BY JobTypes, BudgetAssumption DEF Init, TypeOK

\* What parking a job, or a failed try, leaves in the queue.
LEMMA ParkType ==
    ASSUME TypeOK, NEW n \in JobId, Park(n)
    PROVE  job' \in [JobId -> Job] /\ evicted' \subseteq Product /\ sweeping' \subseteq sweeping
<1>1. OutOfTries(job[n].data) \in Job
  <2>1. job[n].data \in JobData
    BY DEF TypeOK, Job
  <2> QED BY <2>1 DEF OutOfTries, Job, Phases
<1> QED BY <1>1, JobTypes DEF Park, TypeOK, PromisedBy, Failed

LEMMA FailTryType ==
    ASSUME TypeOK, NEW n \in JobId, FailTry(n)
    PROVE  job' \in [JobId -> Job] /\ evicted' \subseteq Product /\ sweeping' \subseteq sweeping
<1>1. CASE job[n].tries > 1
  <2>1. job[n].data \in JobData /\ job[n].tries \in Nat
    BY DEF TypeOK, Job
  <2>2. Waiting(job[n].data, job[n].tries - 1) \in Job
    BY <1>1, <2>1, JobTypes
  <2> QED BY <1>1, <2>2 DEF FailTry, TypeOK
<1>2. CASE ~(job[n].tries > 1)
  BY <1>2, ParkType DEF FailTry
<1> QED BY <1>1, <1>2

LEMMA NextType == TypeOK /\ [Next]_vars => TypeOK'
<1> SUFFICES ASSUME TypeOK, [Next]_vars PROVE TypeOK'
  OBVIOUS
<1>0. /\ MaxPlans \in Nat /\ MaxFaults \in Nat /\ SweeperMax \in Nat
      /\ PlanAttempts \in Nat /\ JobAttempts \in Nat
  BY BudgetAssumption
<1>1. CASE EnqueuePlan
  BY <1>1, <1>0, DataTypes, JobTypes DEF EnqueuePlan, TypeOK
<1>2. ASSUME NEW n \in JobId, RunPlan(n) PROVE TypeOK'
  <2>1. Product # {} => Adding(n, YearlyBuckets(Oldest, Newest)) \in Job
    BY JobTypes, YearlyBucketsCover
  <2> QED BY <1>2, <2>1, JobTypes DEF RunPlan, Done, TypeOK
<1>3. ASSUME NEW n \in JobId, ServePage(n) PROVE TypeOK'
  <2> DEFINE d == job[n].data
  <2>1. d \in JobData
    BY DEF TypeOK, Job
  <2>2. PICK pg \in SUBSET Rest(d) :
          /\ seen' = seen \cup pg
          /\ IF Rest(d) = pg
             THEN Done(n)
             ELSE job' = [job EXCEPT ![n] =
                            Adding(n, {Bucket(d.lo, d.hi, d.cursor \cup pg)})]
    BY <1>3 DEF ServePage
  <2>3. pg \subseteq Product
    BY <2>2 DEF Rest
  <2>4. Bucket(d.lo, d.hi, d.cursor \cup pg) \in JobData
    BY <2>1, <2>3, DataTypes DEF JobData
  <2>5. Adding(n, {Bucket(d.lo, d.hi, d.cursor \cup pg)}) \in Job
    BY <2>4, JobTypes
  <2>6. job' \in [JobId -> Job]
    BY <2>2, <2>5, JobTypes DEF Done, TypeOK
  <2> QED BY <1>3, <2>2, <2>3, <2>6 DEF ServePage, TypeOK
<1>4. ASSUME NEW n \in JobId, Split(n) PROVE TypeOK'
  <2> DEFINE d == job[n].data
  <2>1. d.lo \in Nat /\ d.hi \in Nat
    BY DEF TypeOK, Job, JobData
  <2>2. Halves(d.lo, d.hi) \subseteq JobData
    BY <1>4, <2>1, HalvesPartition DEF Split
  <2>3. Adding(n, Halves(d.lo, d.hi)) \in Job
    BY <2>2, JobTypes
  <2> QED BY <1>4, <2>3 DEF Split, TypeOK
<1>5. ASSUME NEW n \in JobId, GiveUp(n) PROVE TypeOK'
  <2> DEFINE d == job[n].data
  <2>1. d.lo \in Nat /\ d.hi \in Nat
    BY DEF TypeOK, Job, JobData
  <2>2. Adding(n, {Recovery(d.lo, d.hi)}) \in Job
    BY <2>1, DataTypes, JobTypes
  <2> QED BY <1>5, <2>2 DEF GiveUp, TypeOK
<1>6. ASSUME NEW n \in JobId, Recover(n) PROVE TypeOK'
  BY <1>6, JobTypes, CatalogueAssumption DEF Recover, Done, TypeOK
<1>7. ASSUME NEW n \in JobId, Throttle(n) PROVE TypeOK'
  <2>1. job[n].data \in JobData
    BY DEF TypeOK, Job
  <2>2. Adding(n, {job[n].data}) \in Job
    BY <2>1, JobTypes
  <2> QED BY <1>7, <1>0, <2>2 DEF Throttle, TypeOK
<1>8. ASSUME NEW n \in JobId, AddFollowUp(n) PROVE TypeOK'
  <2>1. PICK d \in job[n].todo, m \in JobId :
          job' = [job EXCEPT ![n] = Adding(n, job[n].todo \ {d}),
                             ![m] = Waiting(d, JobAttempts)]
    BY <1>8 DEF AddFollowUp
  <2>2. d \in JobData /\ job[n].todo \ {d} \in SUBSET JobData
    BY DEF TypeOK, Job
  <2>3. Adding(n, job[n].todo \ {d}) \in Job /\ Waiting(d, JobAttempts) \in Job
    BY <2>2, <1>0, JobTypes
  <2> QED BY <1>8, <2>1, <2>3 DEF AddFollowUp, TypeOK
<1>9. ASSUME NEW n \in JobId, Return(n) PROVE TypeOK'
  BY <1>9, JobTypes DEF Return, Done, TypeOK
<1>10. ASSUME NEW n \in JobId, Error(n) \/ BrokenPage(n) PROVE TypeOK'
  <2>1. /\ job' \in [JobId -> Job] /\ evicted' \subseteq Product
        /\ sweeping' \subseteq sweeping
    BY <1>10, FailTryType DEF Error, BrokenPage
  <2> QED BY <1>10, <1>0, <2>1 DEF Error, BrokenPage, TypeOK
<1>11. ASSUME NEW n \in JobId, Crash(n) PROVE TypeOK'
  <2>1. Waiting(job[n].data, job[n].tries) \in Job
    BY JobTypes DEF TypeOK, Job
  <2>2. /\ job' \in [JobId -> Job] /\ evicted' \subseteq Product
        /\ sweeping' \subseteq sweeping
    BY <1>11, <2>1, ParkType DEF Crash, TypeOK
  <2> QED BY <1>11, <1>0, <2>2 DEF Crash, TypeOK
<1>12. ASSUME NEW n \in JobId, SweepAdd(n) PROVE TypeOK'
  <2> DEFINE d == Resweep(job[n].data)
  <2>1. d \in JobData
    BY <1>12, <1>0 DEF SweepAdd, Sweepable, Resweep, TypeOK, Job, JobData
  <2>2. Waiting(d, JobAttempts) \in Job
    BY <2>1, <1>0, JobTypes
  <2> QED BY <1>12, <2>2 DEF SweepAdd, TypeOK
<1>13. ASSUME NEW n \in JobId, SweepRemove(n) PROVE TypeOK'
  BY <1>13, JobTypes DEF SweepRemove, Done, TypeOK
<1>14. CASE SweepAbort
  BY <1>14, <1>0 DEF SweepAbort, TypeOK
<1>15. CASE UNCHANGED vars
  BY <1>15 DEF vars, TypeOK
<1> QED
  BY <1>1, <1>2, <1>3, <1>4, <1>5, <1>6, <1>7, <1>8, <1>9, <1>10, <1>11,
     <1>12, <1>13, <1>14, <1>15 DEF Next, Work, Sweep

\* Type correctness: in every reachable state the queue holds well-formed
\* jobs within their budgets.
THEOREM TypeCorrect == Spec => []TypeOK
BY InitType, NextType, PTL DEF Spec

-----------------------------------------------------------------------------
(* A step changes one or two slots: the invariant is kept if those slots   *)
(* are in order afterwards and what they held is still accounted for.      *)

Accounted(p) == p \in seen \cup flagged \cup evicted

LEMMA Handover ==
    ASSUME IInv, TypeOK', NEW S \in SUBSET JobId,
           plans' = plans, seen \subseteq seen',
           \A p : Accounted(p) => Accounted(p)',
           \A m \in JobId \ S : job'[m] = job[m] /\ (m \in sweeping' => m \in sweeping),
           \A n \in S : SlotOK(n)',
           \A n \in S : \A p \in Product :
               Holds(n, p) => Accounted(p)' \/ \E m \in JobId : Holds(m, p)',
           FlaggedOnlyIfDense'
    PROVE  IInv'
<1>1. \A n \in JobId : SlotOK(n)'
  BY DEF IInv, SlotOK, CursorOK, PromisedBy, Rest
<1>2. NoSilentLoss'
  <2> SUFFICES ASSUME plans > 0, NEW p \in Product, ~ Accounted(p)'
               PROVE  \E m \in JobId : Holds(m, p)'
    BY DEF NoSilentLoss, Accounted
  <2>1. ~ Accounted(p)
    OBVIOUS
  <2>2. PICK n \in JobId : Holds(n, p)
    BY <2>1 DEF IInv, NoSilentLoss, Accounted
  <2>3. CASE n \notin S
    <3>1. Holds(n, p)'
      BY <2>2, <2>3 DEF Holds, PromisedBy, Rest
    <3> QED BY <3>1
  <2> QED BY <2>2, <2>3
<1> QED BY <1>1, <1>2 DEF IInv

LEMMA InitInv == Init => IInv
<1> SUFFICES ASSUME Init PROVE IInv
  OBVIOUS
<1>1. TypeOK
  BY InitType
<1>2. \A n \in JobId : SlotOK(n)
  BY JobFields DEF Init, SlotOK, CursorOK
<1>3. NoSilentLoss /\ FlaggedOnlyIfDense
  BY DEF Init, NoSilentLoss, FlaggedOnlyIfDense
<1> QED BY <1>1, <1>2, <1>3 DEF IInv

LEMMA EnqueuePlanInv ==
    ASSUME IInv, TypeOK', EnqueuePlan PROVE IInv'
<1>1. PICK n \in JobId : /\ IsFresh(n)
                         /\ job' = [job EXCEPT ![n] = Waiting(PlanData, PlanAttempts)]
  BY DEF EnqueuePlan
<1>2. /\ job'[n] = Waiting(PlanData, PlanAttempts)
      /\ \A m \in JobId \ {n} : job'[m] = job[m]
      /\ job[n].phase = "absent"
  BY <1>1 DEF IInv, TypeOK, IsFresh
<1>3. n \notin sweeping
  BY <1>2 DEF IInv, SlotOK
<1>4. \A m \in JobId : SlotOK(m)'
  BY <1>2, <1>3, JobFields DEF EnqueuePlan, IInv, SlotOK, CursorOK, PromisedBy, Rest
<1>5. \A p \in Product : Holds(n, p)'
  BY <1>2, <1>3, JobFields DEF EnqueuePlan, Holds, PromisedBy
<1>6. FlaggedOnlyIfDense'
  BY DEF EnqueuePlan, IInv, FlaggedOnlyIfDense
<1> QED BY <1>4, <1>5, <1>6 DEF IInv, NoSilentLoss

-----------------------------------------------------------------------------
(* The steps of a worker. *)

\* A job is taken out of the queue: it is enough that what it would have
\* brought is accounted for.
LEMMA DoneInv ==
    ASSUME IInv, TypeOK', NEW n \in JobId, Done(n),
           UNCHANGED <<flagged, evicted, plans>>, seen \subseteq seen',
           sweeping' \subseteq sweeping \ {n},
           \A p \in Product : Holds(n, p) => p \in seen'
    PROVE  IInv'
<1>0. TypeOK
  BY DEF IInv
<1>1. /\ job'[n].phase = "absent" /\ job'[n].todo = {}
      /\ job'[n].data = PlanData
      /\ \A m \in JobId \ {n} : job'[m] = job[m]
  BY <1>0, JobFields DEF Done, TypeOK
<1>2. SlotOK(n)'
  BY <1>1, JobFields DEF SlotOK, CursorOK
<1>3. FlaggedOnlyIfDense'
  BY DEF IInv, FlaggedOnlyIfDense
<1>4. /\ \A p : Accounted(p) => Accounted(p)'
      /\ \A p \in Product : Holds(n, p) => Accounted(p)'
  BY DEF Accounted
<1> QED BY <1>1, <1>2, <1>3, <1>4, Handover

\* A waiting job is left with the follow-ups ds to enqueue: it is enough that
\* they bring what the job would have brought, and no more.
LEMMA HandOnInv ==
    ASSUME IInv, TypeOK', NEW n \in JobId, NEW ds,
           job[n].phase = "waiting",
           job' = [job EXCEPT ![n] = Adding(n, ds)],
           UNCHANGED <<evicted, sweeping, plans>>,
           seen \subseteq seen', flagged \subseteq flagged', FlaggedOnlyIfDense',
           \A e \in ds :
               CursorOK(e)' /\ PromisedBy(e) \subseteq seen' \cup PromisedBy(job[n].data),
           \A p \in PromisedBy(job[n].data) :
               p \in seen' \cup flagged' \/ \E e \in ds : p \in PromisedBy(e)
    PROVE  IInv'
<1>0. TypeOK /\ SlotOK(n) /\ n \notin sweeping
  BY DEF IInv, SlotOK
<1>1. /\ job'[n].phase = "adding" /\ job'[n].todo = ds
      /\ job'[n].data = job[n].data
      /\ \A m \in JobId \ {n} : job'[m] = job[m]
  BY <1>0, JobFields DEF TypeOK
<1>2. \A e : PromisedBy(e)' = PromisedBy(e)
  BY DEF PromisedBy, Rest
<1>3. PromisedBy(job[n].data)' = PromisedBy(job[n].data)
  BY <1>1 DEF PromisedBy, Rest
<1>4. CursorOK(job[n].data)'
  BY <1>0, <1>1 DEF SlotOK, CursorOK
<1>5. SlotOK(n)'
  BY <1>0, <1>1, <1>2, <1>3, <1>4 DEF SlotOK
<1>6. \A p \in Product : Holds(n, p) => Accounted(p)' \/ Holds(n, p)'
  <2> SUFFICES ASSUME NEW p \in Product, Holds(n, p), ~ Accounted(p)'
               PROVE  Holds(n, p)'
    OBVIOUS
  <2>1. p \in PromisedBy(job[n].data)
    BY DEF Holds
  <2>2. PICK e \in ds : p \in PromisedBy(e)
    BY <2>1 DEF Accounted
  <2> QED BY <1>1, <1>2, <2>2 DEF Holds
<1>7. \A p : Accounted(p) => Accounted(p)'
  BY DEF Accounted
<1> QED BY <1>1, <1>5, <1>6, <1>7, Handover

LEMMA RunPlanInv ==
    ASSUME IInv, TypeOK', NEW n \in JobId, RunPlan(n) PROVE IInv'
<1>1. TypeOK /\ n \notin sweeping /\ FlaggedOnlyIfDense'
  BY DEF RunPlan, IInv, SlotOK, FlaggedOnlyIfDense
<1>2. CASE Product = {}
  BY <1>1, <1>2, DoneInv DEF RunPlan
<1>3. CASE Product # {}
  <2> DEFINE ds == YearlyBuckets(Oldest, Newest)
  <2>1. job' = [job EXCEPT ![n] = Adding(n, ds)]
    BY <1>3 DEF RunPlan
  <2>2. PromisedBy(job[n].data) = Product
    BY DEF RunPlan, PromisedBy
  <2>3. \A e \in ds : CursorOK(e)' /\ PromisedBy(e) \subseteq Product
    BY YearlyBucketsCover DEF CursorOK, PromisedBy
  <2>4. \A p \in Product : \E e \in ds : p \in PromisedBy(e)
    BY <1>3, YearlyBucketsCover DEF PromisedBy, Rest
  <2> HIDE DEF ds
  <2> QED BY <1>1, <2>1, <2>2, <2>3, <2>4, HandOnInv DEF RunPlan
<1> QED BY <1>2, <1>3

LEMMA ServePageInv ==
    ASSUME IInv, TypeOK', NEW n \in JobId, ServePage(n) PROVE IInv'
<1> DEFINE d == job[n].data
<1>0. /\ TypeOK /\ SlotOK(n) /\ n \notin sweeping /\ d.kind = "bucket"
      /\ job[n].phase = "waiting" /\ FlaggedOnlyIfDense'
      /\ UNCHANGED <<flagged, evicted, sweeping, plans>>
  BY DEF IInv, ServePage, SlotOK, FlaggedOnlyIfDense
<1>1. PICK pg \in SUBSET Rest(d) :
        /\ seen' = seen \cup pg
        /\ IF Rest(d) = pg
           THEN Done(n)
           ELSE job' = [job EXCEPT ![n] =
                          Adding(n, {Bucket(d.lo, d.hi, d.cursor \cup pg)})]
  BY DEF ServePage
<1>2. CASE Rest(d) = pg
  <2>1. \A p \in Product : Holds(n, p) => p \in seen'
    BY <1>0, <1>1, <1>2 DEF Holds, PromisedBy
  <2> QED BY <1>0, <1>1, <1>2, <2>1, DoneInv
<1>3. CASE Rest(d) # pg
  <2>1. PICK next \in {Bucket(d.lo, d.hi, d.cursor \cup pg)} :
          job' = [job EXCEPT ![n] = Adding(n, {next})]
    BY <1>1, <1>3
  <2>2. /\ next.kind = "bucket" /\ next.lo = d.lo /\ next.hi = d.hi
        /\ next.cursor = d.cursor \cup pg
    BY JobFields
  <2>3. PromisedBy(next) = PromisedBy(d) \ pg
    BY <1>0, <2>2 DEF PromisedBy, Rest
  <2>4. CursorOK(next)'
    <3>1. Rest(next) = Rest(d) \ pg
      BY <2>2 DEF Rest
    <3> QED BY <1>0, <1>1, <1>3, <2>2, <3>1 DEF SlotOK, CursorOK, Rest, InRange
  <2>5. PICK ds : ds = {next}
    OBVIOUS
  <2>6. /\ \A e \in ds : CursorOK(e)' /\ PromisedBy(e) \subseteq seen' \cup PromisedBy(d)
        /\ \A p \in PromisedBy(d) : p \in seen' \/ \E e \in ds : p \in PromisedBy(e)
    BY <1>1, <2>3, <2>4, <2>5
  <2> QED
    BY <1>0, <1>1, <2>1, <2>5, <2>6, HandOnInv
<1> QED BY <1>2, <1>3

LEMMA SplitInv ==
    ASSUME IInv, TypeOK', NEW n \in JobId, Split(n) PROVE IInv'
<1> DEFINE d == job[n].data
           ds == Halves(d.lo, d.hi)
<1>0. /\ TypeOK /\ SlotOK(n) /\ d.kind = "bucket" /\ job[n].phase = "waiting"
      /\ UNCHANGED <<seen, flagged, evicted, sweeping, plans>>
      /\ FlaggedOnlyIfDense'
  BY DEF IInv, Split, FlaggedOnlyIfDense
<1>1. job' = [job EXCEPT ![n] = Adding(n, ds)]
  BY DEF Split
<1>2. d.lo \in Nat /\ d.hi \in Nat
  BY <1>0 DEF TypeOK, Job, JobData
<1>3. /\ \A e \in ds : e.kind = "bucket" /\ e.cursor = {}
      /\ \A p \in Product :
           InRange(p, d.lo, d.hi) <=> \E e \in ds : InRange(p, e.lo, e.hi)
  BY <1>2, HalvesPartition DEF Split
<1> HIDE DEF ds
<1>4. \A e \in ds : CursorOK(e)' /\ PromisedBy(e) \subseteq seen' \cup PromisedBy(d)
  BY <1>0, <1>3 DEF SlotOK, CursorOK, PromisedBy, Rest
<1>5. \A p \in PromisedBy(d) : \E e \in ds : p \in PromisedBy(e)
  BY <1>0, <1>3 DEF PromisedBy, Rest
<1> QED BY <1>0, <1>1, <1>4, <1>5, HandOnInv

LEMMA GiveUpInv ==
    ASSUME IInv, TypeOK', NEW n \in JobId, GiveUp(n) PROVE IInv'
<1> DEFINE d == job[n].data
           Same(p) == {q \in Product : CreatedAt[q] = CreatedAt[p]}
<1>0. /\ TypeOK /\ SlotOK(n) /\ d.kind = "bucket" /\ job[n].phase = "waiting"
      /\ UNCHANGED <<seen, evicted, sweeping, plans>>
      /\ flagged' = flagged \cup {p \in Product : InRange(p, d.lo, d.hi)}
      /\ PastDepthLimit(d) /\ ~CanSplit(d.lo, d.hi)
  BY DEF IInv, GiveUp
<1>1. d.lo \in Nat /\ d.hi \in Nat
  BY <1>0 DEF TypeOK, Job, JobData
<1>2. PICK rec \in {Recovery(d.lo, d.hi)} : job' = [job EXCEPT ![n] = Adding(n, {rec})]
  BY DEF GiveUp
<1>3. rec.kind = "recovery" /\ rec.cursor = {}
  BY JobFields
<1>4. CursorOK(rec)' /\ PromisedBy(rec) = {}
  BY <1>3 DEF CursorOK, PromisedBy
<1>5. \A p \in PromisedBy(d) : p \in flagged'
  BY <1>0 DEF PromisedBy, Rest
<1>6. ASSUME NEW p \in Product, InRange(p, d.lo, d.hi)
      PROVE  Cardinality(Same(p)) > DepthLimit - PageSize + 1
  <2>1. \A q \in Product : CreatedAt[q] \in Nat
    BY CatalogueAssumption
  <2>2. \A q \in Product : InRange(q, d.lo, d.hi) => CreatedAt[q] = d.lo
    BY <1>0, <1>1, <2>1 DEF CanSplit, InRange
  <2>3. d.cursor \subseteq Same(p)
    BY <1>0, <1>6, <2>2 DEF SlotOK, CursorOK, TypeOK, Job, JobData
  <2>4. IsFiniteSet(Same(p))
    BY CatalogueAssumption, FS_Subset
  <2>5. d.cursor # {}
    BY <1>0, FS_EmptySet, BudgetAssumption DEF PastDepthLimit
  <2>6. PICK q \in Rest(d) : q \in Same(p) /\ q \notin d.cursor
    BY <1>0, <1>6, <2>2, <2>5 DEF SlotOK, CursorOK, Rest
  <2>7. IsFiniteSet(d.cursor)
    BY <2>3, <2>4, FS_Subset
  <2>8. /\ IsFiniteSet(d.cursor \cup {q})
        /\ Cardinality(d.cursor \cup {q}) = Cardinality(d.cursor) + 1
    BY <2>6, <2>7, FS_AddElement
  <2>9. Cardinality(d.cursor \cup {q}) <= Cardinality(Same(p))
    <3>1. d.cursor \cup {q} \subseteq Same(p)
      BY <2>3, <2>6
    <3> QED BY <2>4, <3>1, FS_Subset
  <2>10. Cardinality(d.cursor) \in Nat /\ Cardinality(Same(p)) \in Nat
    BY <2>4, <2>7, FS_CardinalityType
  <2> QED BY <1>0, <2>8, <2>9, <2>10, BudgetAssumption DEF PastDepthLimit
<1>7. FlaggedOnlyIfDense'
  BY <1>0, <1>6 DEF IInv, FlaggedOnlyIfDense
<1>8. PICK ds : ds = {rec}
  OBVIOUS
<1>9. \A e \in ds : CursorOK(e)' /\ PromisedBy(e) \subseteq seen' \cup PromisedBy(d)
  BY <1>4, <1>8
<1> QED BY <1>0, <1>2, <1>5, <1>7, <1>8, <1>9, HandOnInv

LEMMA RecoverInv ==
    ASSUME IInv, TypeOK', NEW n \in JobId, Recover(n) PROVE IInv'
<1>1. seen \subseteq seen' /\ n \notin sweeping
  BY DEF Recover, IInv, SlotOK
<1>2. \A p \in Product : ~ Holds(n, p)
  BY DEF Recover, Holds, PromisedBy
<1> QED BY <1>1, <1>2, DoneInv DEF Recover

LEMMA ThrottleInv ==
    ASSUME IInv, TypeOK', NEW n \in JobId, Throttle(n) PROVE IInv'
<1>0. /\ SlotOK(n) /\ job[n].phase = "waiting" /\ FlaggedOnlyIfDense'
      /\ UNCHANGED <<seen, flagged, evicted, sweeping, plans>>
  BY DEF IInv, Throttle, FlaggedOnlyIfDense
<1>1. PICK d : d = job[n].data
  OBVIOUS
<1>2. PICK ds : ds = {d}
  OBVIOUS
<1>3. job' = [job EXCEPT ![n] = Adding(n, ds)]
  BY <1>1, <1>2 DEF Throttle
<1>4. CursorOK(d)'
  BY <1>0, <1>1 DEF SlotOK, CursorOK
<1>5. /\ \A e \in ds : CursorOK(e)' /\ PromisedBy(e) \subseteq seen' \cup PromisedBy(job[n].data)
      /\ \A p \in PromisedBy(job[n].data) : \E e \in ds : p \in PromisedBy(e)
  BY <1>1, <1>2, <1>4
<1> QED BY <1>0, <1>3, <1>5, HandOnInv

LEMMA AddFollowUpInv ==
    ASSUME IInv, TypeOK', NEW n \in JobId, AddFollowUp(n) PROVE IInv'
<1>0. /\ TypeOK /\ SlotOK(n) /\ job[n].phase = "adding" /\ FlaggedOnlyIfDense'
      /\ UNCHANGED <<seen, flagged, evicted, sweeping, plans>>
  BY DEF IInv, AddFollowUp, FlaggedOnlyIfDense
<1>1. PICK d \in job[n].todo, m \in JobId :
        /\ IsFresh(m)
        /\ job' = [job EXCEPT ![n] = Adding(n, job[n].todo \ {d}),
                              ![m] = Waiting(d, JobAttempts)]
  BY DEF AddFollowUp
<1>2. job[m].phase = "absent" /\ m # n /\ m \notin sweeping
  BY <1>0, <1>1 DEF IsFresh, IInv, SlotOK
<1>3. /\ job'[n].phase = "adding" /\ job'[n].todo = job[n].todo \ {d}
      /\ job'[n].data = job[n].data
  BY <1>0, <1>1, <1>2, JobFields DEF TypeOK
<1>4. /\ job'[m].phase = "waiting" /\ job'[m].todo = {} /\ job'[m].data = d
      /\ \A k \in JobId \ {n, m} : job'[k] = job[k]
  BY <1>0, <1>1, <1>2, JobFields DEF TypeOK
<1>5. \A e : (PromisedBy(e)' = PromisedBy(e)) /\ (CursorOK(e) => CursorOK(e)')
  BY <1>0 DEF PromisedBy, Rest, CursorOK
<1>6. PromisedBy(job[n].data)' = PromisedBy(job[n].data) /\ CursorOK(job[n].data)'
  BY <1>0, <1>3 DEF PromisedBy, Rest, SlotOK, CursorOK
<1>7. SlotOK(n)'
  BY <1>0, <1>3, <1>5, <1>6 DEF SlotOK
<1>8. SlotOK(m)'
  <2>1. CursorOK(job[m].data)'
    BY <1>0, <1>1, <1>4 DEF SlotOK, CursorOK
  <2> QED BY <1>0, <1>2, <1>4, <2>1 DEF SlotOK
<1>9. ASSUME NEW k \in {n, m}, NEW p \in Product, Holds(k, p)
      PROVE  Holds(n, p)' \/ Holds(m, p)'
  <2>1. k = n
    BY <1>2, <1>9 DEF Holds
  <2>2. PICK e \in job[n].todo : p \in PromisedBy(e)
    BY <1>0, <1>9, <2>1 DEF Holds
  <2>3. CASE e = d
    BY <1>0, <1>2, <1>4, <2>2, <2>3 DEF Holds, PromisedBy, Rest
  <2>4. CASE e # d
    BY <1>3, <1>5, <2>2, <2>4 DEF Holds
  <2> QED BY <2>3, <2>4
<1>10. \A p : Accounted(p) => Accounted(p)'
  BY <1>0 DEF Accounted
<1>11. PICK S \in SUBSET JobId : S = {n, m}
  OBVIOUS
<1> QED BY <1>0, <1>4, <1>7, <1>8, <1>9, <1>10, <1>11, Handover

LEMMA ReturnInv ==
    ASSUME IInv, TypeOK', NEW n \in JobId, Return(n) PROVE IInv'
<1>1. n \notin sweeping
  BY DEF Return, IInv, SlotOK
<1>2. \A p \in Product : ~ Holds(n, p)
  BY DEF Return, Holds
<1> QED BY <1>1, <1>2, DoneInv DEF Return

-----------------------------------------------------------------------------
(* Failures and the sweeper. *)

\* A job that was running is put back, with its own data and no follow-ups:
\* what it had not handed on yet is found in its data again.
LEMMA PutBack ==
    ASSUME IInv, TypeOK', NEW n \in JobId, NEW S \in SUBSET JobId, n \in S,
           job[n].phase \in {"waiting", "adding"},
           job'[n].phase \in {"waiting", "failed"}, job'[n].todo = {},
           job'[n].data = job[n].data,
           UNCHANGED <<seen, flagged, plans>>, evicted \subseteq evicted',
           sweeping' \subseteq sweeping,
           \A m \in JobId \ S : job'[m] = job[m] /\ (m \in sweeping => m \in sweeping'),
           \A m \in S \ {n} : SlotOK(m)',
           \A m \in S \ {n} : \A p \in Product : Holds(m, p) => p \in evicted'
    PROVE  IInv'
<1>0. TypeOK /\ SlotOK(n) /\ n \notin sweeping /\ FlaggedOnlyIfDense'
  BY DEF IInv, SlotOK, FlaggedOnlyIfDense
<1>1. PromisedBy(job[n].data)' = PromisedBy(job[n].data) /\ CursorOK(job[n].data)'
  BY <1>0 DEF PromisedBy, Rest, SlotOK, CursorOK
<1>2. SlotOK(n)'
  BY <1>0, <1>1 DEF SlotOK
<1>3. ASSUME NEW p \in Product, Holds(n, p), p \notin seen
      PROVE  Holds(n, p)'
  <2>1. p \in PromisedBy(job[n].data)
    BY <1>0, <1>3 DEF Holds, SlotOK
  <2> QED BY <1>0, <1>1, <2>1 DEF Holds
<1>4. \A p : Accounted(p) => Accounted(p)'
  BY DEF Accounted
<1>5. \A m \in S : \A p \in Product :
        Holds(m, p) => Accounted(p)' \/ \E k \in JobId : Holds(k, p)'
  BY <1>3 DEF Accounted
<1>6. \A m \in S : SlotOK(m)'
  BY <1>2
<1>7. \A m \in JobId \ S : job'[m] = job[m] /\ (m \in sweeping' <=> m \in sweeping)
  OBVIOUS
<1> QED BY <1>0, <1>4, <1>5, <1>6, <1>7, Handover

\* The job keeps its data and waits for another try, or is parked while there
\* is room for it.
LEMMA KeptInv ==
    ASSUME IInv, TypeOK', NEW n \in JobId, NEW j,
           job[n].phase \in {"waiting", "adding"},
           j.phase \in {"waiting", "failed"}, j.todo = {}, j.data = job[n].data,
           job' = [job EXCEPT ![n] = j],
           UNCHANGED <<seen, flagged, plans, evicted, sweeping>>
    PROVE  IInv'
<1>1. job'[n] = j /\ \A m \in JobId \ {n} : job'[m] = job[m]
  BY DEF IInv, TypeOK
<1>2. PICK S \in SUBSET JobId : S = {n}
  OBVIOUS
<1> QED BY <1>1, <1>2, PutBack

LEMMA ParkInv ==
    ASSUME IInv, TypeOK', NEW n \in JobId, Park(n),
           job[n].phase \in {"waiting", "adding"},
           UNCHANGED <<seen, flagged, plans>>
    PROVE  IInv'
<1>0. TypeOK
  BY DEF IInv
<1>1. CASE Cardinality(Failed) < KeepFailed
  <2>1. PICK j : j = OutOfTries(job[n].data)
    OBVIOUS
  <2>2. j.phase = "failed" /\ j.todo = {} /\ j.data = job[n].data
    BY <2>1, JobFields
  <2> QED BY <1>1, <2>1, <2>2, KeptInv DEF Park
<1>2. CASE ~(Cardinality(Failed) < KeepFailed)
  <2>1. PICK old \in Failed :
          /\ job' = [job EXCEPT ![n] = OutOfTries(job[n].data), ![old] = NoJob]
          /\ evicted' = evicted \cup PromisedBy(job[old].data)
          /\ sweeping' = sweeping \ {old}
    BY <1>2 DEF Park
  <2>2. old \in JobId /\ job[old].phase = "failed" /\ old # n
    BY <2>1 DEF Failed
  <2>3. /\ job'[n].phase = "failed" /\ job'[n].todo = {}
        /\ job'[n].data = job[n].data
    BY <1>0, <2>1, <2>2, JobFields DEF TypeOK
  <2>4. /\ job'[old].phase = "absent" /\ job'[old].todo = {}
        /\ job'[old].data = PlanData
        /\ \A m \in JobId \ {n, old} : job'[m] = job[m]
    BY <1>0, <2>1, <2>2, JobFields DEF TypeOK
  <2>5. SlotOK(old)'
    BY <2>1, <2>4, JobFields DEF SlotOK, CursorOK
  <2>6. \A p \in Product : Holds(old, p) => p \in evicted'
    BY <2>1, <2>2 DEF Holds
  <2>7. PICK S \in SUBSET JobId : S = {n, old}
    BY <2>2
  <2>8. /\ evicted \subseteq evicted' /\ sweeping' \subseteq sweeping
        /\ \A m \in JobId \ S : job'[m] = job[m] /\ (m \in sweeping => m \in sweeping')
        /\ \A m \in S \ {n} : SlotOK(m)'
        /\ \A m \in S \ {n} : \A p \in Product : Holds(m, p) => p \in evicted'
    <3>1. \A m \in S \ {n} : m = old
      BY <2>7
    <3>2. /\ evicted \subseteq evicted' /\ sweeping' \subseteq sweeping
          /\ \A m \in JobId \ S : job'[m] = job[m] /\ (m \in sweeping => m \in sweeping')
      BY <2>1, <2>4, <2>7
    <3> QED BY <2>5, <2>6, <3>1, <3>2
  <2> QED BY <2>3, <2>7, <2>8, PutBack
<1> QED BY <1>1, <1>2

LEMMA FailTryInv ==
    ASSUME IInv, TypeOK', NEW n \in JobId, FailTry(n),
           job[n].phase \in {"waiting", "adding"},
           UNCHANGED <<seen, flagged, plans>>
    PROVE  IInv'
<1>1. CASE job[n].tries > 1
  <2>1. PICK j : j = Waiting(job[n].data, job[n].tries - 1)
    OBVIOUS
  <2>2. j.phase = "waiting" /\ j.todo = {} /\ j.data = job[n].data
    BY <2>1, JobFields
  <2> QED BY <1>1, <2>1, <2>2, KeptInv DEF FailTry
<1>2. CASE ~(job[n].tries > 1)
  BY <1>2, ParkInv DEF FailTry
<1> QED BY <1>1, <1>2

LEMMA CrashInv ==
    ASSUME IInv, TypeOK', NEW n \in JobId, Crash(n) PROVE IInv'
<1>1. CASE Park(n)
  BY <1>1, ParkInv DEF Crash
<1>2. CASE ~ Park(n)
  <2>1. PICK j : j = Waiting(job[n].data, job[n].tries)
    OBVIOUS
  <2>2. j.phase = "waiting" /\ j.todo = {} /\ j.data = job[n].data
    BY <2>1, JobFields
  <2> QED BY <1>2, <2>1, <2>2, KeptInv DEF Crash
<1> QED BY <1>1, <1>2

LEMMA SweepAddInv ==
    ASSUME IInv, TypeOK', NEW n \in JobId, SweepAdd(n) PROVE IInv'
<1> DEFINE d == job[n].data
<1>0. /\ TypeOK /\ SlotOK(n) /\ job[n].phase = "failed" /\ d.kind = "bucket"
      /\ sweeping = {} /\ sweeping' = {n} /\ FlaggedOnlyIfDense'
      /\ UNCHANGED <<seen, flagged, evicted, plans>>
  BY DEF IInv, SweepAdd, Sweepable, FlaggedOnlyIfDense
<1>1. PICK m \in JobId, r \in {Resweep(d)} :
        IsFresh(m) /\ job' = [job EXCEPT ![m] = Waiting(r, JobAttempts)]
  BY DEF SweepAdd
<1>2. r.kind = "bucket" /\ r.lo = d.lo /\ r.hi = d.hi /\ r.cursor = {}
  BY <1>0, <1>1 DEF Resweep
<1>3. job[m].phase = "absent" /\ m # n
  BY <1>0, <1>1 DEF IsFresh
<1>4. /\ job'[m].phase = "waiting" /\ job'[m].todo = {} /\ job'[m].data = r
      /\ \A k \in JobId \ {m} : job'[k] = job[k]
  BY <1>0, <1>1, JobFields DEF TypeOK
<1>5. SlotOK(m)'
  BY <1>0, <1>2, <1>3, <1>4 DEF SlotOK, CursorOK
<1>6. SlotOK(n)'
  BY <1>0, <1>3, <1>4 DEF SlotOK, CursorOK, PromisedBy, Rest
<1>7. \A p \in Product : Holds(n, p) => Holds(m, p)'
  BY <1>0, <1>2, <1>3, <1>4 DEF Holds, PromisedBy, Rest
<1>8. \A p \in Product : ~ Holds(m, p)
  BY <1>3 DEF Holds
<1>9. \A p : Accounted(p) => Accounted(p)'
  BY <1>0 DEF Accounted
<1>10. PICK S \in SUBSET JobId : S = {n, m}
  OBVIOUS
<1> QED BY <1>0, <1>4, <1>5, <1>6, <1>7, <1>8, <1>9, <1>10, Handover

LEMMA SweepRemoveInv ==
    ASSUME IInv, TypeOK', NEW n \in JobId, SweepRemove(n) PROVE IInv'
<1>1. job[n].phase = "failed"
  BY DEF SweepRemove, IInv, SlotOK
<1>2. \A p \in Product : ~ Holds(n, p)
  BY <1>1 DEF SweepRemove, Holds
<1> QED BY <1>2, DoneInv DEF SweepRemove

LEMMA SweepAbortInv ==
    ASSUME IInv, TypeOK', SweepAbort PROVE IInv'
<1>1. FlaggedOnlyIfDense' /\ \A p : Accounted(p) => Accounted(p)'
  BY DEF SweepAbort, IInv, FlaggedOnlyIfDense, Accounted
<1>2. PICK S \in SUBSET JobId : S = {}
  OBVIOUS
<1> QED BY <1>1, <1>2, Handover DEF SweepAbort

LEMMA NextInv == IInv /\ [Next]_vars => IInv'
<1> SUFFICES ASSUME IInv, [Next]_vars PROVE IInv'
  OBVIOUS
<1>0. TypeOK'
  BY NextType DEF IInv
<1>1. ASSUME NEW n \in JobId, Error(n) \/ BrokenPage(n) PROVE IInv'
  BY <1>0, <1>1, FailTryInv DEF Error, BrokenPage
<1>2. CASE UNCHANGED vars
  BY <1>2 DEF vars, IInv, TypeOK, SlotOK, CursorOK, PromisedBy, Rest, Holds,
              NoSilentLoss, FlaggedOnlyIfDense
<1> QED
  BY <1>0, <1>1, <1>2, EnqueuePlanInv, RunPlanInv, ServePageInv, SplitInv,
     GiveUpInv, RecoverInv, ThrottleInv, AddFollowUpInv, ReturnInv, CrashInv,
     SweepAddInv, SweepRemoveInv, SweepAbortInv
  DEF Next, Work, Sweep

\* The inductive invariant of the queue holds in every behaviour.
THEOREM Invariance == Spec => []IInv
BY InitInv, NextInv, PTL DEF Spec

\* No product of a planned discovery is lost silently, however the jobs are
\* split, retried, throttled, interrupted and swept.
THEOREM NothingLostSilently == Spec => []NoSilentLoss
<1>1. IInv => NoSilentLoss
  BY DEF IInv
<1> QED BY <1>1, Invariance, PTL

\* Only products that share their timestamp with more products than the
\* shop's cursor can reach are reported as undiscoverable.
THEOREM FlaggedAreDense == Spec => []FlaggedOnlyIfDense
<1>1. IInv => FlaggedOnlyIfDense
  BY DEF IInv
<1> QED BY <1>1, Invariance, PTL

\* No job's cursor skips a product that was not processed.
THEOREM CursorsAreHonest == Spec => []CursorHonest
<1>1. IInv => CursorHonest
  BY DEF IInv, SlotOK, CursorOK, CursorHonest
<1> QED BY <1>1, Invariance, PTL

-----------------------------------------------------------------------------
(* The queue implements CatalogueDiscovery. *)

\* Only a planned discovery has jobs.
OpenPlanned == Open => plans > 0

RInv == IInv /\ OpenPlanned

\* The marks a product can get are never taken back.
LEMMA Monotone ==
    ASSUME IInv, Next
    PROVE  seen \subseteq seen' /\ flagged \subseteq flagged' /\ evicted \subseteq evicted'
<1>1. ASSUME NEW n \in JobId, FailTry(n) \/ Park(n) PROVE evicted \subseteq evicted'
  BY <1>1 DEF FailTry, Park
<1>2. ASSUME NEW n \in JobId, Recover(n) PROVE seen \subseteq seen'
  BY <1>2 DEF Recover
<1>3. ASSUME NEW n \in JobId, ServePage(n) PROVE seen \subseteq seen'
  BY <1>3 DEF ServePage
<1> QED
  BY <1>1, <1>2, <1>3
  DEF Next, Work, Sweep, EnqueuePlan, RunPlan, ServePage, Split, GiveUp, Recover,
      AddFollowUp, Return, BrokenPage, Throttle, Error, Crash, SweepAdd,
      SweepRemove, SweepAbort

\* Every step but the enqueueing of a plan finds a job in the queue.
LEMMA StepsWhenOpen ==
    ASSUME IInv, Next, ~ EnqueuePlan
    PROVE  Open /\ UNCHANGED plans
<1>1. CASE SweepAbort
  BY <1>1 DEF SweepAbort, Open, IInv, TypeOK, SlotOK
<1>2. CASE ~ SweepAbort
  <2>1. PICK n \in JobId : Work(n) \/ Sweep(n) \/ Throttle(n) \/ Error(n) \/ Crash(n)
    BY <1>2 DEF Next
  <2>2. job[n].phase # "absent"
    BY <2>1
    DEF IInv, SlotOK, Work, Sweep, RunPlan, ServePage, Split, GiveUp, Recover,
        AddFollowUp, Return, BrokenPage, Throttle, Error, Crash, SweepAdd,
        Sweepable, SweepRemove
  <2>3. UNCHANGED plans
    BY <2>1
    DEF Work, Sweep, RunPlan, ServePage, Split, GiveUp, Recover, AddFollowUp,
        Return, BrokenPage, Throttle, Error, Crash, SweepAdd, SweepRemove
  <2> QED BY <2>2, <2>3 DEF Open
<1> QED BY <1>1, <1>2

LEMMA EnqueueOpens ==
    ASSUME IInv, EnqueuePlan
    PROVE  Open' /\ plans' > 0 /\ UNCHANGED <<seen, flagged, evicted>>
<1>1. PICK n \in JobId : job' = [job EXCEPT ![n] = Waiting(PlanData, PlanAttempts)]
  BY DEF EnqueuePlan
<1>2. job'[n].phase = "waiting"
  BY <1>1, JobFields DEF IInv, TypeOK
<1>3. plans' > 0
  BY BudgetAssumption DEF EnqueuePlan, IInv, TypeOK
<1> QED BY <1>2, <1>3 DEF EnqueuePlan, Open

LEMMA RInvariance == Spec => []RInv
<1>1. Init => RInv
  BY InitInv, JobFields DEF Init, RInv, OpenPlanned, Open
<1>2. RInv /\ [Next]_vars => RInv'
  <2> SUFFICES ASSUME RInv, [Next]_vars PROVE OpenPlanned'
    BY NextInv DEF RInv
  <2>1. CASE EnqueuePlan
    BY <2>1, EnqueueOpens DEF RInv, OpenPlanned
  <2>2. CASE Next /\ ~ EnqueuePlan
    BY <2>2, StepsWhenOpen DEF RInv, OpenPlanned
  <2>3. CASE UNCHANGED vars
    BY <2>3 DEF vars, RInv, OpenPlanned, Open
  <2> QED BY <2>1, <2>2, <2>3
<1> QED BY <1>1, <1>2, PTL DEF Spec

\* Every step of the queue is a step of the catalogue's discovery, or none.
LEMMA StepImplements ==
    ASSUME RInv, RInv', [Next]_vars
    PROVE  [Abstract!Next]_(Abstract!vars)
<1>1. CASE EnqueuePlan
  <2>1. Open' /\ UNCHANGED <<seen, flagged, evicted>>
    BY <1>1, EnqueueOpens DEF RInv
  <2>2. Fate' = Fate
    BY <2>1 DEF Fate
  <2> QED BY <2>1, <2>2 DEF Abstract!Next, Abstract!Start
<1>2. CASE Next /\ ~ EnqueuePlan
  <2>1. /\ Open
        /\ seen \subseteq seen' /\ flagged \subseteq flagged'
        /\ evicted \subseteq evicted'
    BY <1>2, StepsWhenOpen, Monotone DEF RInv
  <2>2. Fate' \in [Product -> Abstract!Fates]
    BY DEF Fate, Abstract!Fates
  <2>3. \A p \in Product : \/ Fate'[p] = Fate[p]
                           \/ Fate[p] = "owed"
                           \/ Fate[p] = "reported" /\ Fate'[p] = "processed"
    BY <2>1 DEF Fate
  <2>4. ASSUME ~ Open', NEW p \in Product
        PROVE  Fate'[p] # "owed"
    <3>1. plans' > 0
      BY <1>2, <2>1, StepsWhenOpen DEF RInv, OpenPlanned
    <3>2. \A n \in JobId : ~ Holds(n, p)'
      BY <2>4 DEF Open, Holds
    <3>3. p \in seen' \cup flagged' \cup evicted'
      BY <3>1, <3>2 DEF RInv, IInv, NoSilentLoss
    <3> QED BY <3>3 DEF Fate
  <2>5. Open' \in BOOLEAN
    BY DEF Open
  <2> QED
    BY <2>1, <2>2, <2>3, <2>4, <2>5 DEF Abstract!Next, Abstract!Advance
<1>3. CASE UNCHANGED vars
  BY <1>3 DEF vars, Fate, Open, Abstract!vars
<1> QED BY <1>1, <1>2, <1>3

\* The job queue, with its pages, retries, crashes and sweeps, implements the
\* catalogue's discovery.
THEOREM QueueImplementsDiscovery == Spec => ImplementsDiscovery
<1>1. Init => Abstract!Init
  BY JobFields DEF Init, Abstract!Init, Fate, Open
<1>2. RInv /\ RInv' /\ [Next]_vars => [Abstract!Next]_(Abstract!vars)
  BY StepImplements
<1> QED BY <1>1, <1>2, RInvariance, PTL DEF Spec, ImplementsDiscovery, Abstract!Spec
=============================================================================
