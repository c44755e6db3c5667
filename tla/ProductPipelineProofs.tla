------------------------ MODULE ProductPipelineProofs ------------------------
(***************************************************************************)
(* Proofs about ProductPipeline for every set of products, handles and     *)
(* answers, any number of jobs at a time, changes of the shop and faults.  *)
(***************************************************************************)
EXTENDS ProductPipeline, TLAPS

-----------------------------------------------------------------------------
(* The inductive invariant.  An offer comes from what a job has fetched,   *)
(* through what an accumulator holds: what the shop has said must be known *)
(* of both, and which URL a job writes to at each of its steps.            *)

Fetched == {"drop", "classify", "lookup", "extract"}

\* The stock the shop has answered for any product so far.
Said == UNION {given[p] : p \in Product}

JobOK(s) ==
    job[s] # Idle =>
      /\ job[s] \in Job
      /\ job[s].step \in {"classify", "lookup", "drop"} => job[s].handle \in Handle
      /\ job[s].step \in {"clear", "extract", "save"} => job[s].url \in Handle
      /\ job[s].step \in Fetched /\ job[s].answer.match # "gone" =>
            job[s].answer \in Answer /\ job[s].answer.stock \in Said
      /\ job[s].step \in Fetched \ {"drop"} => job[s].answer.match # "gone"
      /\ job[s].step = "missing" => "out" \in Said

Types ==
    /\ shop \in [Product -> [answer : Answer, handle : Handle]]
    /\ row \in [Product -> Rows]
    /\ listing \in [Handle -> Stock \cup {"none"}]
    /\ unmatched \subseteq Handle
    /\ pending \in [Item -> Nat]
    /\ DOMAIN job = Slot
    /\ given \in [Product -> SUBSET Stock]
    /\ edits \in 0 .. MaxEdits /\ faults \in 0 .. MaxFaults

\* What the accumulators hold, the shop has said.
BufferedSaid == \A i \in Item : pending[i] > 0 => i.stock \in Said

IInv ==
    /\ Types
    /\ \A s \in Slot : JobOK(s)
    /\ BufferedSaid
    /\ OffersFromAnswers

-----------------------------------------------------------------------------
(* Facts about records. *)

LEMMA AnswerFacts ==
    /\ \A a \in Answer : a.match \in Matches /\ a.stock \in Stock
    /\ Unanswered.match = "gone" /\ Unanswered.stock = "out"
    /\ "out" \in Stock
BY ShopAssumption DEF Unanswered, Stock

LEMMA RowFacts ==
    /\ NoRow \in Rows
    /\ NoRow.status = "none"
    /\ \A r \in Rows : r # NoRow => r.url \in Handle /\ r.status \in Statuses
    /\ \A r \in Rows : r.url \in Handle \cup {"none"}
    /\ \A r \in Rows : r.status = "matched" => r # NoRow
    /\ \A t \in Statuses, u \in Handle : [status |-> t, url |-> u] \in Rows
BY DEF NoRow, Rows, Statuses

LEMMA IdleFacts ==
    /\ Idle.step = "idle"
    /\ \A j \in Job : j.step \in Steps /\ j # Idle
    /\ "idle" \notin Steps
BY DEF Idle, Job, Steps

LEMMA AtWork ==
    ASSUME Types, NEW s \in Slot, JobOK(s), NEW step \in Steps, At(s, step)
    PROVE  job[s] \in Job /\ job[s] # Idle
BY IdleFacts DEF At, JobOK

LEMMA TypesImplyTypeOK ==
    IInv => TypeOK
BY DEF IInv, Types, JobOK, TypeOK

\* What the shop has said stays said.
LEMMA SaidGrows ==
    ASSUME Types, NEW g, \A p \in Product : given[p] \subseteq g[p]
    PROVE  Said \subseteq UNION {g[p] : p \in Product}
BY DEF Said

-----------------------------------------------------------------------------
(* Steps that change jobs only in one slot. *)

\* A step of slot s that leaves the tables alone, or a lemma's part of one: the
\* other jobs keep what is known of them.
LEMMA OtherJobs ==
    ASSUME IInv, NEW s \in Slot, NEW v, job' = [job EXCEPT ![s] = v],
           Said \subseteq Said'
    PROVE  /\ DOMAIN job' = Slot
           /\ job'[s] = v
           /\ \A t \in Slot : t # s => JobOK(t)'
<1>1. /\ DOMAIN job' = Slot
      /\ job'[s] = v
      /\ \A t \in Slot : t # s => job'[t] = job[t]
  BY DEF IInv, Types
<1>2. ASSUME NEW t \in Slot, t # s PROVE JobOK(t)'
  <2>1. JobOK(t) /\ job'[t] = job[t]
    BY <1>1, <1>2 DEF IInv
  <2> QED BY <2>1 DEF JobOK
<1> QED BY <1>1, <1>2

LEMMA IdleJobOK ==
    ASSUME NEW s \in Slot, job'[s] = Idle
    PROVE  JobOK(s)'
BY DEF JobOK

\* The offers and the buffers are said as long as nothing new is written.
LEMMA NothingWritten ==
    ASSUME IInv, listing' = listing, pending' = pending, Said \subseteq Said'
    PROVE  OffersFromAnswers' /\ BufferedSaid'
BY DEF IInv, OffersFromAnswers, BufferedSaid, Said

LEMMA InitInv == Init => IInv
<1> SUFFICES ASSUME Init PROVE IInv
  OBVIOUS
<1>1. PICK a \in [Product -> Answer] :
        shop = [p \in Product |-> [answer |-> a[p], handle |-> FirstHandle[p]]]
  BY DEF Init
<1>2. shop \in [Product -> [answer : Answer, handle : Handle]]
  BY <1>1, ShopAssumption
<1>3. row \in [Product -> Rows]
  BY RowFacts DEF Init
<1>4. Types
  BY <1>2, <1>3, BoundAssumption DEF Init, Types
<1>5. \A s \in Slot : JobOK(s)
  BY DEF Init, JobOK
<1>6. BufferedSaid /\ OffersFromAnswers
  BY DEF Init, BufferedSaid, OffersFromAnswers
<1> QED BY <1>4, <1>5, <1>6 DEF IInv
-----------------------------------------------------------------------------
(* The actions, in the order of the module. *)

LEMMA EditInv ==
    ASSUME IInv, NEW p \in Product, Edit(p)
    PROVE  IInv'
<1>1. PICK a \in Answer, h \in Handle :
        shop' = [shop EXCEPT ![p] = [answer |-> a, handle |-> h]]
  BY DEF Edit
<1>2. /\ row' = row /\ listing' = listing /\ unmatched' = unmatched /\ pending' = pending
      /\ job' = job /\ given' = given /\ faults' = faults
      /\ edits' \in 0 .. MaxEdits
  BY BoundAssumption DEF Edit, tables, IInv, Types
<1>3. shop' \in [Product -> [answer : Answer, handle : Handle]]
  BY <1>1 DEF IInv, Types
<1>4. Said' = Said
  BY <1>2 DEF Said
<1>5. Types'
  BY <1>2, <1>3 DEF IInv, Types
<1>6. OffersFromAnswers' /\ BufferedSaid'
  BY <1>2, <1>4, NothingWritten
<1>7. \A s \in Slot : JobOK(s)'
  BY <1>2, <1>4 DEF IInv, JobOK
<1> QED BY <1>5, <1>6, <1>7 DEF IInv

LEMMA StartInv ==
    ASSUME IInv, NEW s \in Slot, NEW kind \in Kinds, NEW p \in Product, Start(s, kind, p)
    PROVE  IInv'
<1> DEFINE v == NewJob(kind, p)
<1>1. /\ shop' = shop /\ row' = row /\ listing' = listing /\ unmatched' = unmatched
      /\ pending' = pending /\ given' = given /\ edits' = edits /\ faults' = faults
      /\ job' = [job EXCEPT ![s] = v]
  BY DEF Start, tables
<1>2. v \in Job /\ v.step = "fetch"
  <2>1. row[p].url \in Handle \cup {"none"}
    BY RowFacts DEF IInv, Types
  <2> QED BY <2>1, AnswerFacts DEF NewJob, Job, Steps, Statuses
<1>3. Said' = Said
  BY <1>1 DEF Said
<1> HIDE DEF v
<1>4. /\ DOMAIN job' = Slot /\ job'[s] = v /\ \A t \in Slot : t # s => JobOK(t)'
  BY <1>1, <1>3, OtherJobs
<1>5. JobOK(s)'
  BY <1>2, <1>4 DEF JobOK, Fetched
<1>6. Types'
  BY <1>1, <1>4 DEF IInv, Types
<1> QED BY <1>1, <1>3, <1>4, <1>5, <1>6, NothingWritten DEF IInv

\* A step that ends a job or moves it on, and writes nothing.
LEMMA EndInv ==
    ASSUME IInv, NEW s \in Slot, End(s), faults' \in 0 .. MaxFaults,
           UNCHANGED <<shop, tables, given, edits>>
    PROVE  IInv'
<1>1. /\ shop' = shop /\ row' = row /\ listing' = listing /\ unmatched' = unmatched
      /\ pending' = pending /\ given' = given /\ edits' = edits
      /\ job' = [job EXCEPT ![s] = Idle]
  BY DEF End, tables
<1>2. Said' = Said
  BY <1>1 DEF Said
<1>3. /\ DOMAIN job' = Slot /\ job'[s] = Idle /\ \A t \in Slot : t # s => JobOK(t)'
  BY <1>1, <1>2, OtherJobs
<1>4. Types'
  BY <1>1, <1>3 DEF IInv, Types
<1> QED BY <1>1, <1>2, <1>3, <1>4, IdleJobOK, NothingWritten DEF IInv

\* What the shop answers is said from now on.
LEMMA FetchInv ==
    ASSUME IInv, NEW s \in Slot, Fetch(s)
    PROVE  IInv'
<1> DEFINE j == job[s]
           p == j.product
           a == shop[p].answer
           said == IF a.match = "gone" THEN "out" ELSE a.stock
<1>1. PICK step \in AfterFetch(j.kind, a.match) :
        job' = [job EXCEPT ![s] = IF step = "idle" THEN Idle
                  ELSE [j EXCEPT !.step = step, !.answer = a, !.handle = shop[p].handle]]
  BY DEF Fetch
<1> DEFINE w == [j EXCEPT !.step = step, !.answer = a, !.handle = shop[p].handle]
           v == IF step = "idle" THEN Idle ELSE w
<1>2. /\ shop' = shop /\ row' = row /\ listing' = listing /\ unmatched' = unmatched
      /\ pending' = pending /\ edits' = edits /\ faults' = faults
      /\ given' = [given EXCEPT ![p] = @ \cup {said}]
      /\ At(s, "fetch")
  BY DEF Fetch, tables
<1>3. j \in Job /\ JobOK(s)
  BY <1>2, AtWork DEF IInv, Steps
<1>4. p \in Product /\ a \in Answer /\ shop[p].handle \in Handle
  BY <1>3 DEF Job, IInv, Types
<1>5. said \in Stock /\ (a.match # "gone" => said = a.stock) /\ (a.match = "gone" => said = "out")
  BY <1>4, AnswerFacts
<1>6. /\ step \in {"idle", "drop", "classify", "missing"}
      /\ step = "classify" => a.match # "gone"
      /\ step = "missing" => a.match = "gone"
  BY DEF AfterFetch
<1>7. step # "idle" => /\ w \in Job /\ w.step = step /\ w.answer = a /\ w.handle = shop[p].handle
  BY <1>3, <1>4, <1>6 DEF Job, Steps
<1> HIDE DEF w, a, said, j, p
<1>8. /\ given' \in [Product -> SUBSET Stock]
      /\ \A q \in Product : given[q] \subseteq given'[q]
      /\ said \in given'[p]
  BY <1>2, <1>4, <1>5 DEF IInv, Types
<1>9. Said \subseteq Said' /\ said \in Said'
  BY <1>8, <1>4 DEF Said
<1>10. job' = [job EXCEPT ![s] = v]
  BY <1>1 DEF w, j
<1> HIDE DEF v
<1>11. /\ DOMAIN job' = Slot /\ job'[s] = v /\ \A t \in Slot : t # s => JobOK(t)'
  BY <1>10, <1>9, OtherJobs
<1>12. JobOK(s)'
  <2>1. CASE step = "idle"
    BY <2>1, <1>11, IdleJobOK DEF v
  <2>2. CASE step # "idle"
    <3>1. job'[s] = w
      BY <2>2, <1>11 DEF v
    <3> QED BY <3>1, <2>2, <1>4, <1>5, <1>6, <1>7, <1>9 DEF JobOK, Fetched
  <2> QED BY <2>1, <2>2
<1>13. Types'
  BY <1>2, <1>8, <1>11 DEF IInv, Types
<1> QED BY <1>2, <1>9, <1>11, <1>12, <1>13, NothingWritten DEF IInv

LEMMA MarkMissingInv ==
    ASSUME IInv, NEW s \in Slot, MarkMissing(s)
    PROVE  IInv'
<1> DEFINE u == job[s].url
<1>1. /\ shop' = shop /\ row' = row /\ unmatched' = unmatched
      /\ pending' = pending /\ given' = given /\ edits' = edits /\ faults' = faults
      /\ job' = [job EXCEPT ![s] = Idle] /\ At(s, "missing")
      /\ listing' = [listing EXCEPT ![u] = IF @ = "none" THEN @ ELSE "out"]
  BY DEF MarkMissing, End
<1>2. Said' = Said
  BY <1>1 DEF Said
<1>3. /\ DOMAIN job' = Slot /\ job'[s] = Idle /\ \A t \in Slot : t # s => JobOK(t)'
  BY <1>1, <1>2, OtherJobs
<1>4. "out" \in Said
  <2>1. job[s] # Idle /\ JobOK(s) /\ job[s].step = "missing"
    BY <1>1, AtWork DEF IInv, Steps, At
  <2> QED BY <2>1 DEF JobOK
<1>5. listing' \in [Handle -> Stock \cup {"none"}]
  BY <1>1, AnswerFacts DEF IInv, Types
<1>6. Types'
  BY <1>1, <1>3, <1>5 DEF IInv, Types
<1>7. OffersFromAnswers'
  BY <1>1, <1>2, <1>4 DEF IInv, OffersFromAnswers, Types, Said
<1>8. BufferedSaid'
  BY <1>1, <1>2 DEF IInv, BufferedSaid
<1> QED BY <1>3, <1>6, <1>7, <1>8, IdleJobOK DEF IInv

LEMMA DropInv ==
    ASSUME IInv, NEW s \in Slot, Drop(s)
    PROVE  IInv'
<1> DEFINE v == [job[s] EXCEPT !.step = "classify"]
<1>1. /\ shop' = shop /\ row' = row /\ listing' = listing
      /\ pending' = pending /\ given' = given /\ edits' = edits /\ faults' = faults
      /\ unmatched' = unmatched \ {job[s].url} /\ At(s, "drop")
      /\ job' = [job EXCEPT ![s] = IF job[s].answer.match = "gone" THEN Idle ELSE v]
  BY DEF Drop, End
<1>2. Said' = Said
  BY <1>1 DEF Said
<1>3. /\ DOMAIN job' = Slot
      /\ job'[s] = IF job[s].answer.match = "gone" THEN Idle ELSE v
      /\ \A t \in Slot : t # s => JobOK(t)'
  BY <1>1, <1>2, OtherJobs
<1>4. JobOK(s) /\ job[s] \in Job /\ job[s].step = "drop" /\ job[s] # Idle
  BY <1>1, AtWork DEF IInv, Steps, At
<1>5. /\ v \in Job /\ v.step = "classify" /\ v.answer = job[s].answer /\ v.handle = job[s].handle
  BY <1>4 DEF Job, Steps
<1>6. JobOK(s)'
  <2> HIDE DEF v
  <2>1. CASE job[s].answer.match = "gone"
    BY <2>1, <1>3, IdleJobOK
  <2>2. CASE job[s].answer.match # "gone"
    BY <2>2, <1>2, <1>3, <1>4, <1>5 DEF JobOK, Fetched
  <2> QED BY <2>1, <2>2
<1>7. Types'
  BY <1>1, <1>3 DEF IInv, Types
<1> QED BY <1>1, <1>2, <1>3, <1>6, <1>7, NothingWritten DEF IInv

LEMMA ClassifyInv ==
    ASSUME IInv, NEW s \in Slot, Classify(s)
    PROVE  IInv'
<1> DEFINE j == job[s]
           x == [j EXCEPT !.step = "clear", !.url = j.handle,
                          !.left = {"listing", "unmatched"}, !.status = "excluded"]
           l == [j EXCEPT !.step = "lookup"]
           v == IF j.answer.match = "art" THEN x ELSE l
<1>1. /\ shop' = shop /\ row' = row /\ listing' = listing /\ unmatched' = unmatched
      /\ pending' = pending /\ given' = given /\ edits' = edits /\ faults' = faults
      /\ At(s, "classify") /\ job' = [job EXCEPT ![s] = v]
  BY DEF Classify, tables
<1>2. Said' = Said
  BY <1>1 DEF Said
<1>3. JobOK(s) /\ j \in Job /\ j.step = "classify" /\ j # Idle /\ j.handle \in Handle
  BY <1>1, AtWork DEF IInv, Steps, At, JobOK
<1>4. /\ x \in Job /\ x.step = "clear" /\ x.url = j.handle
      /\ l \in Job /\ l.step = "lookup" /\ l.answer = j.answer /\ l.handle = j.handle
  BY <1>3 DEF Job, Steps, Statuses
<1> HIDE DEF x, l
<1>5. JobOK(s)' /\ DOMAIN job' = Slot /\ \A t \in Slot : t # s => JobOK(t)'
  <2>1. DOMAIN job' = Slot /\ job'[s] = v /\ \A t \in Slot : t # s => JobOK(t)'
    BY <1>1, <1>2, OtherJobs
  <2>2. CASE j.answer.match = "art"
    BY <2>1, <2>2, <1>3, <1>4 DEF JobOK, Fetched
  <2>3. CASE j.answer.match # "art"
    BY <2>1, <2>3, <1>2, <1>3, <1>4 DEF JobOK, Fetched
  <2> QED BY <2>1, <2>2, <2>3
<1>6. Types'
  BY <1>1, <1>5 DEF IInv, Types
<1> QED BY <1>1, <1>2, <1>5, <1>6, NothingWritten DEF IInv

\* The two deletes of an exclusion.
LEMMA ClearInv ==
    ASSUME IInv, NEW s \in Slot, ClearListing(s) \/ ClearUnmatched(s)
    PROVE  IInv'
<1>1. PICK what \in {"listing", "unmatched"} : Cleared(s, what)
  BY DEF ClearListing, ClearUnmatched
<1> DEFINE v == [job[s] EXCEPT !.left = job[s].left \ {what},
                               !.step = IF job[s].left = {what} THEN "save" ELSE "clear"]
<1>2. /\ shop' = shop /\ row' = row /\ pending' = pending /\ given' = given
      /\ edits' = edits /\ faults' = faults /\ At(s, "clear")
      /\ job' = [job EXCEPT ![s] = v]
  BY <1>1 DEF Cleared
<1>3. Said' = Said
  BY <1>2 DEF Said
<1>4. JobOK(s) /\ job[s] \in Job /\ job[s].step = "clear" /\ job[s] # Idle
  BY <1>2, AtWork DEF IInv, Steps, At
<1>5. v \in Job /\ v.step \in {"save", "clear"} /\ v.url = job[s].url
  BY <1>4 DEF Job, Steps
<1> HIDE DEF v
<1>6. DOMAIN job' = Slot /\ job'[s] = v /\ \A t \in Slot : t # s => JobOK(t)'
  BY <1>2, <1>3, OtherJobs
<1>7. JobOK(s)'
  BY <1>4, <1>5, <1>6 DEF JobOK, Fetched
<1>8. /\ unmatched' \subseteq unmatched
      /\ listing' = listing \/ listing' = [listing EXCEPT ![job[s].url] = "none"]
  BY DEF ClearListing, ClearUnmatched
<1>9. Types'
  BY <1>2, <1>6, <1>8 DEF IInv, Types
<1>10. OffersFromAnswers'
  BY <1>2, <1>8 DEF IInv, OffersFromAnswers, Types
<1>11. BufferedSaid'
  BY <1>2, <1>3 DEF IInv, BufferedSaid
<1> QED BY <1>6, <1>7, <1>9, <1>10, <1>11 DEF IInv

LEMMA LookupInv ==
    ASSUME IInv, NEW s \in Slot, Lookup(s)
    PROVE  IInv'
<1> DEFINE p == job[s].product
           u == IF IsKnown(p) THEN row[p].url ELSE job[s].handle
           v == [job[s] EXCEPT !.step = "extract", !.known = IsKnown(p), !.url = u]
<1>1. /\ shop' = shop /\ row' = row /\ listing' = listing /\ unmatched' = unmatched
      /\ pending' = pending /\ given' = given /\ edits' = edits /\ faults' = faults
      /\ At(s, "lookup") /\ job' = [job EXCEPT ![s] = v]
  BY DEF Lookup, tables
<1>2. Said' = Said
  BY <1>1 DEF Said
<1>3. JobOK(s) /\ job[s] \in Job /\ job[s].step = "lookup" /\ job[s] # Idle
  BY <1>1, AtWork DEF IInv, Steps, At
<1>4. u \in Handle /\ IsKnown(p) \in BOOLEAN
  <2>1. p \in Product /\ job[s].handle \in Handle
    BY <1>3 DEF Job, JobOK
  <2>2. IsKnown(p) => row[p].url \in Handle
    BY <2>1, RowFacts DEF IInv, Types, IsKnown
  <2> QED BY <2>1, <2>2 DEF IsKnown
<1> HIDE DEF u
<1>5. v \in Job /\ v.step = "extract" /\ v.url = u /\ v.answer = job[s].answer
  BY <1>3, <1>4 DEF Job, Steps
<1> HIDE DEF v
<1>6. DOMAIN job' = Slot /\ job'[s] = v /\ \A t \in Slot : t # s => JobOK(t)'
  BY <1>1, <1>2, OtherJobs
<1>7. JobOK(s)'
  BY <1>2, <1>3, <1>4, <1>5, <1>6 DEF JobOK, Fetched
<1>8. Types'
  BY <1>1, <1>6 DEF IInv, Types
<1> QED BY <1>1, <1>2, <1>6, <1>7, <1>8, NothingWritten DEF IInv

\* Whether the extraction succeeds or not, what it hands over was said.
LEMMA ExtractionInv ==
    ASSUME IInv, NEW s \in Slot, At(s, "extract"), NEW status \in Statuses,
           \/ HandOver(job[s].url, job[s].answer)
           \/ UNCHANGED <<pending, unmatched>>,
           AfterExtract(s, status) \/ End(s),
           faults' \in 0 .. MaxFaults,
           UNCHANGED <<shop, row, listing, given, edits>>
    PROVE  IInv'
<1> DEFINE a == job[s].answer
           i == [url |-> job[s].url, stock |-> a.stock]
           w == [job[s] EXCEPT !.step = "save", !.status = status]
<1>1. Said' = Said
  BY DEF Said
<1>2. JobOK(s) /\ job[s] \in Job /\ job[s].step = "extract" /\ job[s] # Idle
  BY AtWork DEF IInv, Steps, At
<1>3. /\ job[s].url \in Handle /\ a \in Answer /\ a.stock \in Said /\ a.stock \in Stock
  BY <1>2, AnswerFacts DEF JobOK, Fetched
<1>4. w \in Job /\ w.step = "save" /\ w.url = job[s].url
  BY <1>2 DEF Job, Steps
<1>5. /\ DOMAIN job' = Slot /\ JobOK(s)' /\ \A t \in Slot : t # s => JobOK(t)'
  <2> HIDE DEF w
  <2>1. \/ job' = [job EXCEPT ![s] = w]
        \/ job' = [job EXCEPT ![s] = Idle]
    BY DEF AfterExtract, End, w
  <2>2. CASE job' = [job EXCEPT ![s] = w]
    <3>1. DOMAIN job' = Slot /\ job'[s] = w /\ \A t \in Slot : t # s => JobOK(t)'
      BY <2>2, <1>1, OtherJobs
    <3> QED BY <3>1, <1>3, <1>4 DEF JobOK, Fetched
  <2>3. CASE job' = [job EXCEPT ![s] = Idle]
    BY <2>3, <1>1, OtherJobs, IdleJobOK
  <2> QED BY <2>1, <2>2, <2>3
<1>6. i \in Item /\ i.stock = a.stock
  BY <1>3 DEF Item
<1>7. /\ pending' = pending \/ pending' = [pending EXCEPT ![i] = @ + 1]
      /\ unmatched' \subseteq unmatched \cup {job[s].url}
  BY DEF HandOver
<1> HIDE DEF i, a
<1>8. pending' \in [Item -> Nat] /\ \A k \in Item : k # i => pending'[k] = pending[k]
  BY <1>6, <1>7 DEF IInv, Types
<1>9. Types'
  BY <1>3, <1>5, <1>7, <1>8 DEF IInv, Types
<1>10. BufferedSaid'
  BY <1>1, <1>3, <1>6, <1>8 DEF IInv, BufferedSaid
<1>11. OffersFromAnswers'
  BY DEF IInv, OffersFromAnswers
<1> QED BY <1>5, <1>9, <1>10, <1>11 DEF IInv

LEMMA ExtractInv ==
    ASSUME IInv, NEW s \in Slot, Extract(s) \/ ExtractFails(s) \/ TokenStepFails(s)
    PROVE  IInv'
<1>1. faults \in 0 .. MaxFaults /\ MaxFaults \in Nat
  BY BoundAssumption DEF IInv, Types
<1>2. CASE Extract(s)
  BY <1>1, <1>2, ExtractionInv DEF Extract, StatusOf, Statuses
<1>3. CASE ExtractFails(s)
  BY <1>1, <1>3, ExtractionInv DEF ExtractFails, Statuses
<1>4. CASE TokenStepFails(s)
  BY <1>1, <1>4, ExtractionInv DEF TokenStepFails, Statuses
<1> QED BY <1>2, <1>3, <1>4

LEMMA SaveInv ==
    ASSUME IInv, NEW s \in Slot, Save(s)
    PROVE  IInv'
<1> DEFINE j == job[s]
           p == j.product
           r == [status |-> j.status, url |-> IF row[p] = NoRow THEN j.url ELSE row[p].url]
<1>1. /\ shop' = shop /\ listing' = listing /\ unmatched' = unmatched /\ pending' = pending
      /\ given' = given /\ edits' = edits /\ faults' = faults /\ At(s, "save")
      /\ job' = [job EXCEPT ![s] = Idle] /\ row' = [row EXCEPT ![p] = r]
  BY DEF Save, End
<1>2. Said' = Said
  BY <1>1 DEF Said
<1>3. j \in Job /\ j.url \in Handle /\ p \in Product /\ j.status \in Statuses
  <2>1. JobOK(s) /\ j \in Job /\ j.step = "save" /\ j # Idle
    BY <1>1, AtWork DEF IInv, Steps, At
  <2> QED BY <2>1 DEF JobOK, Job
<1>4. r \in Rows
  <2>1. (IF row[p] = NoRow THEN j.url ELSE row[p].url) \in Handle
    BY <1>3, RowFacts DEF IInv, Types
  <2> QED BY <2>1, <1>3, RowFacts
<1> HIDE DEF r
<1>5. row' \in [Product -> Rows]
  BY <1>1, <1>4 DEF IInv, Types
<1>6. DOMAIN job' = Slot /\ job'[s] = Idle /\ \A t \in Slot : t # s => JobOK(t)'
  BY <1>1, <1>2, OtherJobs
<1>7. Types'
  BY <1>1, <1>5, <1>6 DEF IInv, Types
<1> QED BY <1>1, <1>2, <1>6, <1>7, IdleJobOK, NothingWritten DEF IInv

LEMMA FlushInv ==
    ASSUME IInv, NEW i \in Item, Flush(i)
    PROVE  IInv'
<1>1. /\ shop' = shop /\ row' = row /\ unmatched' = unmatched /\ job' = job
      /\ given' = given /\ edits' = edits /\ faults' = faults
      /\ pending[i] > 0 /\ pending' = [pending EXCEPT ![i] = pending[i] - 1]
      /\ listing' = [listing EXCEPT ![i.url] = i.stock]
  BY DEF Flush
<1>2. Said' = Said
  BY <1>1 DEF Said
<1>3. i.url \in Handle /\ i.stock \in Stock /\ i.stock \in Said
  BY <1>1 DEF Item, IInv, BufferedSaid
<1>4. pending' \in [Item -> Nat] /\ \A k \in Item : pending'[k] > 0 => pending[k] > 0
  BY <1>1 DEF IInv, Types
<1>5. listing' \in [Handle -> Stock \cup {"none"}]
  BY <1>1, <1>3 DEF IInv, Types
<1>6. Types'
  BY <1>1, <1>4, <1>5 DEF IInv, Types
<1>7. OffersFromAnswers'
  BY <1>1, <1>2, <1>3 DEF IInv, OffersFromAnswers, Types, Said
<1>8. BufferedSaid'
  BY <1>2, <1>4 DEF IInv, BufferedSaid
<1>9. \A s \in Slot : JobOK(s)'
  BY <1>1, <1>2 DEF IInv, JobOK
<1> QED BY <1>6, <1>7, <1>8, <1>9 DEF IInv

LEMMA CrashInv ==
    ASSUME IInv, Crash
    PROVE  IInv'
<1>1. /\ shop' = shop /\ row' = row /\ listing' = listing /\ unmatched' = unmatched
      /\ given' = given /\ edits' = edits /\ faults' \in 0 .. MaxFaults
      /\ job' = [s \in Slot |-> Idle]
  BY BoundAssumption DEF Crash, IInv, Types
<1>2. Said' = Said
  BY <1>1 DEF Said
<1>3. /\ pending' \in [Item -> Nat] /\ \A i \in Item : pending'[i] <= pending[i]
  BY BoundAssumption DEF Crash
<1>4. \A s \in Slot : JobOK(s)'
  BY <1>1 DEF JobOK
<1>5. Types'
  BY <1>1, <1>3 DEF IInv, Types
<1>6. BufferedSaid'
  BY <1>2, <1>3 DEF IInv, BufferedSaid, Types
<1>7. OffersFromAnswers'
  BY <1>1 DEF IInv, OffersFromAnswers
<1> QED BY <1>4, <1>5, <1>6, <1>7 DEF IInv

-----------------------------------------------------------------------------
(* The theorems. *)

LEMMA NextInv == IInv /\ [Next]_vars => IInv'
<1> SUFFICES ASSUME IInv, [Next]_vars PROVE IInv'
  OBVIOUS
<1>1. ASSUME NEW s \in Slot, Work(s) PROVE IInv'
  BY <1>1, FetchInv, MarkMissingInv, DropInv, ClassifyInv, ClearInv, LookupInv, ExtractInv,
     SaveInv DEF Work
<1>2. ASSUME NEW s \in Slot, ExtractFails(s) \/ TokenStepFails(s) PROVE IInv'
  BY <1>2, ExtractInv
<1>3. ASSUME NEW s \in Slot, Abort(s) PROVE IInv'
  <2>1. faults' \in 0 .. MaxFaults
    BY <1>3, BoundAssumption DEF Abort, IInv, Types
  <2> QED BY <1>3, <2>1, EndInv DEF Abort
<1>4. ASSUME NEW s \in Slot, NEW kind \in Kinds, NEW p \in Product, Start(s, kind, p) PROVE IInv'
  BY <1>4, StartInv
<1>5. CASE UNCHANGED vars
  BY <1>5 DEF vars, IInv, Types, JobOK, BufferedSaid, OffersFromAnswers, Said
<1> QED BY <1>1, <1>2, <1>3, <1>4, <1>5, EditInv, FlushInv, CrashInv DEF Next

THEOREM Invariance == Spec => []IInv
BY InitInv, NextInv, PTL DEF Spec

\* Rows, listings, unmatched cards and jobs are well formed, the match status that
\* is stored among the entity's.
THEOREM TypeCorrect == Spec => []TypeOK
BY Invariance, TypesImplyTypeOK, PTL

\* No offer shows a stock that the shop has not answered, whatever the handlers
\* that run at once, renames, failures and crashes between two statements.
THEOREM OffersAreAnswers == Spec => []OffersFromAnswers
<1>1. IInv => OffersFromAnswers
  BY DEF IInv
<1> QED BY <1>1, Invariance, PTL
=============================================================================
