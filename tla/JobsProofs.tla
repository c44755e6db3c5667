------------------------------- MODULE JobsProofs -------------------------------
(***************************************************************************)
(* Proofs about Jobs.  CartRefresh: for every set of offers, cards, batches *)
(* and prices, any number of attempts, changes and faults, what a refresh  *)
(* tells the shopper was so at the shop or in the tables, and its progress *)
(* bar never falls or runs ahead.  PrintingMatch: for any printings, titles *)
(* and products, what was matched before makes no difference.              *)
(***************************************************************************)
EXTENDS Jobs, FiniteSetTheorems, SequenceTheorems, WellFoundedInduction, TLAPS

-----------------------------------------------------------------------------
(* The inductive invariant: wherever an answer travels - row, buffer, a     *)
(* batch that has been abandoned, an outcome, a result - it was known.      *)

Heard(outcomes) == outcomes = None \/ outcomes \in [Offer -> Outcomes]

DataOK ==
    /\ shop \in [Offer -> Answers] /\ known \in [Offer -> SUBSET Answers]
    /\ row \in [Offer -> [price : Price, stock : BOOLEAN]]
    /\ buffered \in [Offer -> Answers \cup {None}]
    /\ late \subseteq Offer \X (Answers \cup {None})
    /\ answer \in [Offer -> Answers \cup {None}]
    /\ outcome \in [Offer -> Outcomes] /\ Heard(result) /\ Heard(seen)

\* An outcome that is reported of offer i.
Founded(i, said) ==
    /\ said.is = "unavailable" => known[i] \cap OffSale # {}
    /\ said.price \in known[i] \cup {0}

Known(i) ==
    /\ shop[i] \in known[i]
    /\ IF row[i].stock THEN row[i].price \in known[i] ELSE known[i] \cap OffSale # {}
    /\ buffered[i] \in known[i] \cup {None} /\ answer[i] \in known[i] \cup {None}
    /\ \A v \in Answers : <<i, v>> \in late => v \in known[i] \cup {None}
    /\ Founded(i, outcome[i])
    /\ result # None => Founded(i, result[i])
    /\ seen # None => Founded(i, seen[i])

IInv == DataOK /\ \A i \in Offer : Known(i)

-----------------------------------------------------------------------------
(* Steps, by what they change. *)

\* The answers that a step does not touch, for offers whose known answers stay.
carried == <<shop, known, row, buffered, late, answer, outcome, result, seen>>

LEMMA Rest == ASSUME IInv, UNCHANGED carried PROVE IInv'
BY DEF IInv, DataOK, Heard, Known, Founded, carried

\* What is learned of some offers, with the rest at rest.
LEMMA LearnKeeps ==
    ASSUME IInv, NEW told, Learn(told),
           \A i \in DOMAIN told \cap Offer : told[i] \in Outcomes /\ Founded(i, told[i]),
           UNCHANGED <<shop, known, row, buffered, late, answer, result, seen>>
    PROVE  IInv'
<1>1. ASSUME NEW i \in Offer PROVE outcome'[i] \in Outcomes /\ Founded(i, outcome'[i])
  BY DEF IInv, DataOK, Known, Learn
<1>2. DataOK'
  BY <1>1 DEF IInv, DataOK, Heard, Learn
<1> QED BY <1>1, <1>2 DEF IInv, Known, Founded

\* What is stored of an answer that is known.
LEMMA StoredOK ==
    ASSUME NEW r \in [price : Price, stock : BOOLEAN], NEW v \in Answers, NEW said, v \in said
    PROVE  LET new == Stored(r, v)
           IN  /\ new \in [price : Price, stock : BOOLEAN]
               /\ IF new.stock THEN new.price \in said ELSE said \cap OffSale # {}
<1>1. CASE v \in OffSale
  BY <1>1 DEF Stored
<1>2. CASE v \notin OffSale
  BY <1>2 DEF Stored, Answers
<1> QED BY <1>1, <1>2

\* Rows of offers are written, from answers that are known; buffers may empty.
LEMMA RowsKeep ==
    ASSUME IInv, row' = [i \in Offer |-> row'[i]],
           \A i \in Offer : \/ row'[i] = row[i]
                            \/ \E v \in known[i] : row'[i] = Stored(row[i], v),
           UNCHANGED <<shop, known, answer, outcome, result, seen>>,
           late' \subseteq late, \A i \in Offer : buffered'[i] \in {buffered[i], None},
           buffered' \in [Offer -> Answers \cup {None}]
    PROVE  IInv'
<1>1. ASSUME NEW i \in Offer
      PROVE  /\ row'[i] \in [price : Price, stock : BOOLEAN]
             /\ IF row'[i].stock THEN row'[i].price \in known[i] ELSE known[i] \cap OffSale # {}
  <2>1. ASSUME NEW v \in known[i], row'[i] = Stored(row[i], v)
        PROVE  /\ row'[i] \in [price : Price, stock : BOOLEAN]
               /\ IF row'[i].stock THEN row'[i].price \in known[i] ELSE known[i] \cap OffSale # {}
    <3>1. v \in Answers /\ row[i] \in [price : Price, stock : BOOLEAN]
      BY DEF IInv, DataOK
    <3> QED BY <2>1, <3>1, StoredOK
  <2>2. CASE row'[i] = row[i]
    BY <2>2 DEF IInv, DataOK, Known
  <2> QED BY <2>1, <2>2
<1>2. DataOK'
  BY <1>1 DEF IInv, DataOK, Heard
<1> QED BY <1>1, <1>2 DEF IInv, Known, Founded

\* Answers are buffered, if they are known; a batch that was abandoned may be through.
LEMMA BuffersKeep ==
    ASSUME IInv, NEW new \in [Offer -> Answers \cup {None}],
           \A i \in Offer : new[i] \in known[i] \cup {None},
           buffered' = new, late' \subseteq late,
           UNCHANGED <<shop, known, row, answer, outcome, result, seen>>
    PROVE  IInv'
<1>1. DataOK'
  BY DEF IInv, DataOK, Heard
<1> QED BY <1>1 DEF IInv, Known, Founded

\* A product has answered (Rediscover, GoesOn).
LEMMA ApplyKeeps ==
    ASSUME RefreshAssumption, IInv, NEW i \in Offer, NEW v \in known[i], Apply(i, v),
           late' \subseteq late, UNCHANGED <<shop, known, answer, outcome, result, seen>>
    PROVE  IInv'
<1>1. CASE v = Gone
  <2>1. /\ row' = [j \in Offer |-> row'[j]] /\ row'[i] = Stored(row[i], v)
        /\ \A j \in Offer \ {i} : row'[j] = row[j]
    BY <1>1 DEF Apply, Stored, OffSale, IInv, DataOK
  <2>2. UNCHANGED buffered /\ buffered \in [Offer -> Answers \cup {None}]
    BY <1>1 DEF Apply, IInv, DataOK
  <2> QED BY <2>1, <2>2, RowsKeep
<1>2. CASE v # Gone
  <2> DEFINE new == [buffered EXCEPT ![i] = v]
  <2>1. new \in [Offer -> Answers \cup {None}]
    BY DEF IInv, DataOK
  <2>2. \A j \in Offer : new[j] \in known[j] \cup {None}
    BY DEF IInv, DataOK, Known
  <2>3. buffered' = new /\ UNCHANGED row
    BY <1>2 DEF Apply
  <2> QED BY <2>1, <2>2, <2>3, BuffersKeep
<1> QED BY <1>1, <1>2

\* What the attempts, the job and the page say stays, but for results and what a tab reads.
LEMMA HeardKeeps ==
    ASSUME IInv, UNCHANGED <<shop, known, row, buffered, late, answer, outcome>>,
           result' \in {result, outcome}, seen' \in {seen, result, None}
    PROVE  IInv'
<1>1. DataOK'
  BY DEF IInv, DataOK, Heard
<1>2. ASSUME NEW i \in Offer PROVE Known(i)'
  <2>1. Known(i)
    BY DEF IInv
  <2> QED BY <2>1 DEF Known, Founded
<1> QED BY <1>1, <1>2 DEF IInv

-----------------------------------------------------------------------------
(* The shops and the tables. *)

LEMMA WorldKeeps ==
    ASSUME RefreshAssumption, IInv,
           \/ \E i \in Offer, v \in Price \cup OffSale : ShopChanges(i, v)
           \/ \E i \in Offer : Flush(i) \/ Rediscover(i)
           \/ \E l \in late : GoesOn(l[1], l[2])
    PROVE  IInv'
<1>1. ASSUME NEW i \in Offer, NEW v \in Price \cup OffSale, ShopChanges(i, v) PROVE IInv'
  <2>1. /\ shop' = [shop EXCEPT ![i] = v] /\ known' = [known EXCEPT ![i] = @ \cup {v}]
        /\ UNCHANGED <<row, buffered, late, answer, outcome, result, seen>>
    BY <1>1 DEF ShopChanges, rows, job, attempt, page
  <2>2. DataOK'
    BY <2>1 DEF IInv, DataOK, Heard, Answers
  <2>3. \A j \in Offer : known[j] \subseteq known'[j] /\ shop'[j] \in known'[j]
    BY <2>1 DEF IInv, DataOK, Known
  <2>4. ASSUME NEW j \in Offer PROVE Known(j)'
    <3>1. Known(j)
      BY DEF IInv
    <3> QED BY <2>1, <2>3, <3>1 DEF Known, Founded
  <2> QED BY <2>2, <2>4 DEF IInv
<1>2. ASSUME NEW i \in Offer, Flush(i) PROVE IInv'
  <2>1. buffered[i] \in known[i]
    BY <1>2 DEF Flush, IInv, Known
  <2>2. /\ row' = [j \in Offer |-> row'[j]] /\ row'[i] = Stored(row[i], buffered[i])
        /\ \A j \in Offer \ {i} : row'[j] = row[j]
    BY <1>2 DEF Flush, IInv, DataOK
  <2>3. /\ buffered' \in [Offer -> Answers \cup {None}]
        /\ \A j \in Offer : buffered'[j] \in {buffered[j], None}
    BY <1>2 DEF Flush, IInv, DataOK
  <2>4. UNCHANGED <<late, shop, known, answer, outcome, result, seen>>
    BY <1>2 DEF Flush, world, job, attempt, page
  <2> QED BY <2>1, <2>2, <2>3, <2>4, RowsKeep
<1>3. ASSUME NEW i \in Offer, Rediscover(i) PROVE IInv'
  <2>1. shop[i] \in known[i]
    BY DEF IInv, Known
  <2> QED BY <1>3, <2>1, ApplyKeeps DEF Rediscover, job, attempt, page
<1>4. ASSUME NEW l \in late, GoesOn(l[1], l[2]) PROVE IInv'
  <2>1. l[1] \in Offer /\ l[2] \in Answers \cup {None}
    BY DEF IInv, DataOK
  <2> DEFINE v == IF l[2] = None THEN shop[l[1]] ELSE l[2]
  <2>2. v \in known[l[1]]
    BY <1>4, <2>1 DEF GoesOn, IInv, Known
  <2>3. Apply(l[1], v)
    BY <1>4 DEF GoesOn
  <2>4. late' \subseteq late /\ UNCHANGED <<shop, known, answer, outcome, result, seen>>
    BY <1>4 DEF GoesOn, world, job, attempt, page
  <2> HIDE DEF v
  <2> QED BY <2>1, <2>2, <2>3, <2>4, ApplyKeeps
<1> QED BY <1>1, <1>2, <1>3, <1>4

-----------------------------------------------------------------------------
(* The worker. *)

LEMMA OutcomesOK ==
    ASSUME IInv, NEW i \in Offer
    PROVE  /\ Unconfirmed \in Outcomes /\ Founded(i, Unconfirmed)
           /\ Is("unsupported", 0) \in Outcomes /\ Founded(i, Is("unsupported", 0))
           /\ FromRow(i) \in Outcomes /\ Founded(i, FromRow(i))
           /\ Unavailable \in Outcomes
           /\ known[i] \cap OffSale # {} => Founded(i, Unavailable)
<1>1. /\ Unconfirmed \in Outcomes /\ Is("unsupported", 0) \in Outcomes /\ Unavailable \in Outcomes
  BY DEF Unconfirmed, Unavailable, Is, Outcomes
<1>2. /\ Founded(i, Unconfirmed) /\ Founded(i, Is("unsupported", 0))
      /\ known[i] \cap OffSale # {} => Founded(i, Unavailable)
  BY DEF Unconfirmed, Unavailable, Is, Founded
<1>3. CASE ~row[i].stock
  BY <1>1, <1>2, <1>3 DEF FromRow, IInv, Known
<1>4. CASE row[i].stock
  <2>1. row[i].price \in Price /\ row[i].price \in known[i]
    BY <1>4 DEF IInv, DataOK, Known
  <2>2. \A w \in {"refreshed", "price_changed"} :
            Is(w, row[i].price) \in Outcomes /\ Founded(i, Is(w, row[i].price))
    BY <2>1 DEF Is, Outcomes, Founded
  <2> QED BY <1>1, <1>2, <1>4, <2>2 DEF FromRow
<1> QED BY <1>1, <1>2, <1>3, <1>4

LEMMA TakeKeeps == ASSUME IInv, Take PROVE IInv'
<1>1. /\ outcome' \in [Offer -> Outcomes] /\ answer' = [i \in Offer |-> None]
      /\ \A i \in Offer : Founded(i, outcome'[i])
  BY OutcomesOK DEF Take
<1>2. UNCHANGED <<shop, known, row, buffered, late, result, seen>>
  BY DEF Take, world, rows, page
<1>3. DataOK'
  BY <1>1, <1>2 DEF IInv, DataOK, Heard
<1>4. ASSUME NEW i \in Offer PROVE Known(i)'
  <2>1. Known(i)
    BY DEF IInv
  <2> QED BY <1>1, <1>2, <2>1 DEF Known, Founded
<1> QED BY <1>3, <1>4 DEF IInv

LEMMA FetchKeeps == ASSUME IInv, NEW b \in Batch, Fetch(b) PROVE IInv'
<1>1. UNCHANGED <<shop, known, row, buffered, late, outcome, result, seen>>
  BY DEF Fetch, world, rows, job, page
<1>2. DataOK'
  BY <1>1 DEF Fetch, IInv, DataOK, Heard
<1>3. ASSUME NEW i \in Offer PROVE Known(i)'
  <2>1. Known(i)
    BY DEF IInv
  <2>2. answer'[i] \in {shop[i], answer[i]}
    BY DEF Fetch
  <2> QED BY <1>1, <2>1, <2>2 DEF Known, Founded
<1> QED BY <1>2, <1>3 DEF IInv

\* The rows of absent products, and that they are absent.
LEMMA MarkMissingKeeps == ASSUME RefreshAssumption, IInv, NEW b \in Batch, MarkMissing(b) PROVE IInv'
<1>1. \A i \in Missing(b) : i \in Offer /\ Gone \in known[i] /\ known[i] \cap OffSale # {}
  BY DEF Missing, InBatch, IInv, Known, RefreshAssumption, OffSale
<1>2. /\ row' = [i \in Offer |-> row'[i]]
      /\ \A i \in Offer : row'[i] = row[i] \/ \E v \in known[i] : row'[i] = Stored(row[i], v)
  BY <1>1 DEF MarkMissing
<1>3. UNCHANGED <<shop, known, buffered, late, answer, result, seen>>
  BY DEF MarkMissing, world, job, page
<1>4. ASSUME NEW i \in Offer
      PROVE  /\ outcome'[i] \in Outcomes /\ Founded(i, outcome'[i])
             /\ row'[i] \in [price : Price, stock : BOOLEAN]
             /\ IF row'[i].stock THEN row'[i].price \in known[i] ELSE known[i] \cap OffSale # {}
  <2>1. outcome'[i] \in Outcomes /\ Founded(i, outcome'[i])
    BY <1>1, OutcomesOK DEF MarkMissing, Learn, IInv, DataOK, Known
  <2>2. \A v \in known[i] : v \in Answers /\ row[i] \in [price : Price, stock : BOOLEAN]
    BY DEF IInv, DataOK
  <2>3. CASE row'[i] = row[i]
    <3>1. /\ row[i] \in [price : Price, stock : BOOLEAN]
          /\ IF row[i].stock THEN row[i].price \in known[i] ELSE known[i] \cap OffSale # {}
      BY DEF IInv, DataOK, Known
    <3> QED BY <2>1, <2>3, <3>1
  <2>4. CASE \E v \in known[i] : row'[i] = Stored(row[i], v)
    <3>1. PICK v \in known[i] : row'[i] = Stored(row[i], v)
      BY <2>4
    <3>2. /\ Stored(row[i], v) \in [price : Price, stock : BOOLEAN]
          /\ IF Stored(row[i], v).stock THEN Stored(row[i], v).price \in known[i]
             ELSE known[i] \cap OffSale # {}
      BY <2>2, StoredOK
    <3> QED BY <2>1, <3>1, <3>2
  <2> QED BY <1>2, <2>3, <2>4
<1>5. outcome' = [i \in Offer |-> outcome'[i]]
  BY DEF MarkMissing, Learn
<1>6. DataOK'
  BY <1>2, <1>3, <1>4, <1>5 DEF IInv, DataOK, Heard
<1>7. ASSUME NEW i \in Offer PROVE Known(i)'
  <2>1. Known(i)
    BY DEF IInv
  <2> QED BY <1>3, <1>4, <2>1 DEF Known, Founded
<1> QED BY <1>6, <1>7 DEF IInv

LEMMA ProcessPageKeeps == ASSUME IInv, NEW b \in Batch, ProcessPage(b) PROVE IInv'
<1> DEFINE new == [i \in Offer |-> IF i \in Returned(b) THEN answer[i] ELSE buffered[i]]
<1>1. new \in [Offer -> Answers \cup {None}] /\ \A i \in Offer : new[i] \in known[i] \cup {None}
  BY DEF IInv, DataOK, Known
<1>2. buffered' = new /\ UNCHANGED <<shop, known, row, late, answer, outcome, result, seen>>
  BY DEF ProcessPage, world, job, page
<1> QED BY <1>1, <1>2, BuffersKeep

\* What a batch gives up on is unconfirmed.
LEMMA GivingUp ==
    ASSUME IInv, NEW offers, Learn([i \in offers |-> GivesUp(i)]),
           UNCHANGED <<answer, world, rows, job, page>>
    PROVE  IInv'
<1> DEFINE told == [i \in offers |-> GivesUp(i)]
<1>1. \A i \in DOMAIN told \cap Offer : told[i] \in Outcomes /\ Founded(i, told[i])
  BY OutcomesOK DEF GivesUp
<1>2. UNCHANGED <<shop, known, row, buffered, late, answer, result, seen>>
  BY DEF world, rows, job, page
<1> QED BY <1>1, <1>2, LearnKeeps

LEMMA ReadRowsKeeps == ASSUME IInv, NEW b \in Batch, ReadRows(b) PROVE IInv'
<1> DEFINE told == [i \in Returned(b) |-> FromRow(i)]
<1>1. \A i \in DOMAIN told \cap Offer : told[i] \in Outcomes /\ Founded(i, told[i])
  BY OutcomesOK
<1>2. Learn(told) /\ UNCHANGED <<shop, known, row, buffered, late, answer, result, seen>>
  BY DEF ReadRows, world, rows, job, page
<1> QED BY <1>1, <1>2, LearnKeeps

\* Batches of an attempt that has failed keep their answers.
LEMMA AttemptFailsKeeps == ASSUME IInv, AttemptFails PROVE IInv'
<1>1. UNCHANGED <<shop, known, row, buffered, answer, outcome, result, seen>>
  BY DEF AttemptFails, attempt, world, page
<1>2. \A l \in Unfinished : \E i \in Offer : l = <<i, answer[i]>>
  BY DEF Unfinished
<1>3. DataOK'
  <2>1. Unfinished \subseteq Offer \X (Answers \cup {None})
    BY <1>2 DEF IInv, DataOK
  <2> QED BY <1>1, <2>1 DEF AttemptFails, IInv, DataOK, Heard
<1>4. ASSUME NEW i \in Offer PROVE Known(i)'
  <2>1. Known(i)
    BY DEF IInv
  <2>2. ASSUME NEW v \in Answers, <<i, v>> \in late' PROVE v \in known[i] \cup {None}
    <3>1. CASE <<i, v>> \in late
      BY <2>1, <3>1 DEF Known
    <3>2. CASE <<i, v>> \in Unfinished
      BY <1>2, <2>1, <3>2 DEF Known
    <3> QED BY <2>2, <3>1, <3>2 DEF AttemptFails
  <2> QED BY <1>1, <2>1, <2>2 DEF Known, Founded
<1> QED BY <1>3, <1>4 DEF IInv

LEMMA CrashKeeps == ASSUME IInv, Crash PROVE IInv'
<1> DEFINE new == [i \in Offer |-> None]
<1>1. new \in [Offer -> Answers \cup {None}] /\ \A i \in Offer : new[i] \in known[i] \cup {None}
  OBVIOUS
<1>2. /\ buffered' = new /\ late' \subseteq late
      /\ UNCHANGED <<shop, known, row, answer, outcome, result, seen>>
  BY DEF Crash, attempt, world, page
<1> QED BY <1>1, <1>2, BuffersKeep

LEMMA WorkerKeeps == ASSUME RefreshAssumption, IInv, Job \/ JobFaults PROVE IInv'
<1>1. CASE Take
  BY <1>1, TakeKeeps
<1>2. ASSUME NEW b \in Batch, Fetch(b) \/ MarkMissing(b) \/ ProcessPage(b) \/ ReadRows(b) PROVE IInv'
  BY <1>2, FetchKeeps, MarkMissingKeeps, ProcessPageKeeps, ReadRowsKeeps
<1>3. ASSUME NEW k \in 1 .. Len(writes), WriteProgress(k) PROVE IInv'
  BY <1>3, Rest DEF WriteProgress, carried, world, rows, page
<1>4. CASE LastWrite \/ WriteFails
  BY <1>4, Rest DEF LastWrite, WriteFails, carried, attempt, world, rows, job, page
<1>5. CASE Complete
  BY <1>5, HeardKeeps DEF Complete, attempt, world, rows, page
<1>6. ASSUME NEW b \in Batch, PageErrors(b) \/ BatchFails(b) PROVE IInv'
  <2>1. CASE PageErrors(b)
    BY <2>1, GivingUp DEF PageErrors
  <2>2. CASE BatchFails(b)
    BY <2>2, GivingUp DEF BatchFails
  <2> QED BY <1>6, <2>1, <2>2
<1>7. ASSUME NEW s, StoreFails(s) PROVE IInv'
  BY <1>7, GivingUp DEF StoreFails
<1>8. CASE AttemptFails \/ Crash
  BY <1>8, AttemptFailsKeeps, CrashKeeps
<1> QED BY <1>1, <1>2, <1>3, <1>4, <1>5, <1>6, <1>7, <1>8 DEF Job, JobFaults, Batches, BatchFaults

-----------------------------------------------------------------------------
(* The API and the tab. *)

LEMMA PageKeeps ==
    ASSUME IInv, Click \/ Tab \/ DeadlinePasses \/ RequestFails
    PROVE  IInv'
<1>1. UNCHANGED <<shop, known, row, buffered, late, answer, outcome, result>>
  BY DEF Click, Tab, Request, ReadJob, Answer, PollAgain, Close, DeadlinePasses, RequestFails,
         Told, world, rows, job, attempt
<1>2. seen' \in {seen, result, None}
  BY DEF Click, Tab, Request, ReadJob, Answer, PollAgain, Close, DeadlinePasses, RequestFails,
         Told, Goto
<1> QED BY <1>1, <1>2, HeardKeeps

-----------------------------------------------------------------------------

LEMMA InitOK ==
    ASSUME RefreshAssumption, Init PROVE IInv
<1>1. shop \in [Offer -> Answers] /\ row \in [Offer -> [price : Price, stock : BOOLEAN]]
  BY DEF RefreshAssumption, Init, Answers, OffSale
<1>2. \A i \in Offer : Unconfirmed \in Outcomes /\ Founded(i, Unconfirmed)
  BY DEF Unconfirmed, Is, Outcomes, Founded
<1>3. DataOK
  BY <1>1, <1>2 DEF Init, NoAttempt, DataOK, Heard, Answers, OffSale
<1>4. ASSUME NEW i \in Offer PROVE Known(i)
  BY <1>1, <1>2 DEF Init, NoAttempt, Known, OffSale
<1> QED BY <1>3, <1>4 DEF IInv

LEMMA StepOK == ASSUME RefreshAssumption, IInv, [Next]_vars PROVE IInv'
<1>1. CASE UNCHANGED vars
  BY <1>1, Rest DEF carried, vars, world, rows, job, attempt, page
<1>2. CASE Next
  BY <1>2, WorldKeeps, WorkerKeeps, PageKeeps DEF Next
<1> QED BY <1>1, <1>2

LEMMA FoundedReports == ASSUME RefreshAssumption, IInv PROVE NothingInvented
<1>1. ASSUME NEW i \in Offer, Reported(CardOf[i], "unavailable") PROVE known[i] \cap OffSale # {}
  <2> DEFINE said == {seen[j].is : j \in {k \in Offer : CardOf[k] = CardOf[i]}}
  <2>1. CardOf[i] \in Card
    BY DEF RefreshAssumption
  <2>2. /\ seen # None
        /\ (CASE "price_changed" \in said -> "price_changed"
             [] "refreshed" \in said -> "refreshed"
             [] said = {"unavailable"} -> "unavailable"
             [] "unconfirmed" \in said -> "unconfirmed"
             [] OTHER -> "unsupported") = "unavailable"
    BY <1>1, <2>1 DEF Reported, Summary
  <2>3. said = {"unavailable"}
    BY <2>2
  <2>4. seen[i].is = "unavailable"
    BY <2>3
  <2> QED BY <2>2, <2>4 DEF IInv, Known, Founded
<1>2. ASSUME result # None, NEW i \in Offer PROVE result[i].price \in known[i] \cup {0}
  BY <1>2 DEF IInv, Known, Founded
<1> QED BY <1>1, <1>2 DEF NothingInvented

\* Whatever fails, is retried or comes late: what a refresh reports unavailable was off
\* sale, and the prices it reports were asked (refreshCartProducts, summarizeRefresh-
\* ItemsByCard).
THEOREM ReportsAreFounded == Spec => []NothingInvented
<1>1. Init => IInv
  BY InitOK, RefreshAssumption
<1>2. IInv /\ [Next]_vars => IInv'
  BY StepOK, RefreshAssumption
<1>3. IInv => NothingInvented
  BY FoundedReports, RefreshAssumption
<1> QED BY <1>1, <1>2, <1>3, PTL DEF Spec

-----------------------------------------------------------------------------
(* ProgressHonest.  The chain of progress writes is sorted and ahead of    *)
(* what is stored, and nothing in it is ahead of the batches settled: that *)
(* is needed at the moment its first write goes through.                   *)

Counts ==
    /\ completed \in Nat /\ published \in 0 .. 95 /\ progress \in 0 .. 100
    /\ writes \in Seq(Nat)

Chained ==
    /\ \A k \in 1 .. Len(writes) : writes[k] <= published
    /\ \A j, k \in 1 .. Len(writes) : j < k => writes[j] < writes[k]

\* In an attempt the bar is behind the batches, until the last write fills it.
Behind ==
    state = "active" =>
        \/ /\ Total # 0
           /\ progress <= published /\ (published = 0 \/ published <= Share(completed))
           /\ \A k \in 1 .. Len(writes) : progress < writes[k]
        \/ progress = 100 /\ writes = <<>> /\ \A b \in Batch : at[b] = "done"

BarInv == Counts /\ Chained /\ Behind

LEMMA DivGrows ==
    ASSUME NEW a \in Nat, NEW b \in Nat, NEW t \in Nat \ {0}, a <= b
    PROVE  a \div t \in Nat /\ a \div t <= b \div t
<1> DEFINE p == a \div t
           q == b \div t
<1>1. p \in Int /\ q \in Int /\ p >= 0 /\ q >= 0
  OBVIOUS
<1>2. t * p <= a /\ b < t * (q + 1)
  OBVIOUS
<1> HIDE DEF p, q
<1>3. ASSUME q + 1 <= p
      PROVE  FALSE
  <2>1. t * (q + 1) <= t * p
    BY <1>1, <1>3
  <2> DEFINE x == t * (q + 1)
             y == t * p
  <2>2. x \in Int /\ y \in Int
    BY <1>1
  <2> HIDE DEF x, y
  <2>3. x <= y /\ y <= a /\ b < x
    BY <1>2, <2>1 DEF x, y
  <2> QED BY <2>2, <2>3
<1> QED BY <1>1, <1>3 DEF p, q

LEMMA ShareGrows ==
    ASSUME NEW m \in Nat, NEW n \in Nat, m <= n, Total \in Nat \ {0}
    PROVE  Share(m) \in 0 .. 95 /\ Share(n) \in 0 .. 95 /\ Share(m) <= Share(n)
<1> DEFINE p == (20 * m) \div Total
           q == (20 * n) \div Total
<1>1. p \in Nat /\ q \in Nat /\ p <= q
  <2>1. 20 * m \in Nat /\ 20 * n \in Nat /\ 20 * m <= 20 * n /\ 20 * n <= 20 * n
    OBVIOUS
  <2> QED BY <2>1, DivGrows
<1> HIDE DEF p, q
<1>2. /\ Share(m) = IF p * 5 > 95 THEN 95 ELSE p * 5
      /\ Share(n) = IF q * 5 > 95 THEN 95 ELSE q * 5
  BY DEF Share, p, q
<1> QED BY <1>1, <1>2

LEMMA TotalFacts == Total \in Nat /\ (Total = 0 => Batch = {})
<1> DEFINE asked == {i \in Offer : BatchOf[i] # None}
<1>1. IsFiniteSet(asked)
  BY FS_Subset, RefreshAssumption
<1>2. Total = Cardinality(asked)
  BY DEF Total
<1>3. asked = {} => Batch = {}
  BY RefreshAssumption
<1> HIDE DEF asked
<1> QED BY <1>1, <1>2, <1>3, FS_CardinalityType, FS_EmptySet

\* The batches of `done` are through.
LEMMA ReportKeeps ==
    ASSUME BarInv, NEW done \in SUBSET Batch, done # {}, state = "active",
           \A b \in done : at[b] # "done", ReportProgress(done), UNCHANGED <<state, progress>>
    PROVE  BarInv'
<1> DEFINE more == Cardinality({i \in Offer : BatchOf[i] \in done})
           n == completed + more
<1>1. more \in Nat
  BY FS_Subset, FS_CardinalityType, RefreshAssumption
<1>2. completed' = n
  BY DEF ReportProgress
<1>3. IF Share(n) > published
      THEN published' = Share(n) /\ writes' = Append(writes, Share(n))
      ELSE UNCHANGED <<published, writes>>
  BY DEF ReportProgress
<1> HIDE DEF more
<1>4. n \in Nat /\ completed <= n
  BY <1>1 DEF BarInv, Counts
<1> HIDE DEF n
<1>5. Total \in Nat \ {0}
  BY TotalFacts
<1> DEFINE p == Share(n)
           c == Share(completed)
<1>6. p \in 0 .. 95 /\ c <= p /\ c \in 0 .. 95
  BY <1>4, <1>5, ShareGrows DEF BarInv, Counts
<1>7. /\ progress <= published /\ (published = 0 \/ published <= c)
      /\ \A k \in 1 .. Len(writes) : progress < writes[k]
  BY DEF BarInv, Behind
<1>8. p = Share(completed') /\ IF p > published
                               THEN published' = p /\ writes' = Append(writes, p)
                               ELSE UNCHANGED <<published, writes>>
  BY <1>2, <1>3
<1> HIDE DEF p, c
<1>9. /\ Len(writes) \in Nat /\ published \in Nat /\ published <= 95 /\ progress \in Nat
      /\ \A k \in 1 .. Len(writes) : writes[k] \in Nat
  BY DEF BarInv, Counts
<1>10. CASE p > published
  <2>1. published' = p /\ writes' = Append(writes, p)
    BY <1>8, <1>10
  <2>2. /\ writes' \in Seq(Nat) /\ Len(writes') = Len(writes) + 1 /\ writes'[Len(writes) + 1] = p
        /\ \A k \in 1 .. Len(writes) : writes'[k] = writes[k]
    BY <1>6, <2>1 DEF BarInv, Counts
  <2>3. \A k \in 1 .. Len(writes') : k \in 1 .. Len(writes) \/ k = Len(writes) + 1
    BY <1>9, <2>2
  <2>4. Counts'
    BY <1>2, <1>4, <1>6, <2>1, <2>2 DEF BarInv, Counts
  <2>5. Chained'
    BY <1>6, <1>9, <1>10, <2>1, <2>2, <2>3 DEF BarInv, Chained
  <2>6. Behind'
    BY <1>5, <1>6, <1>7, <1>8, <1>9, <1>10, <2>1, <2>2, <2>3 DEF Behind
  <2> QED BY <2>4, <2>5, <2>6 DEF BarInv
<1>11. CASE p <= published
  <2>1. UNCHANGED <<published, writes>>
    BY <1>6, <1>8, <1>9, <1>11
  <2>3. Counts' /\ Chained'
    BY <1>2, <1>4, <2>1 DEF BarInv, Counts, Chained
  <2>2. published = 0 \/ published <= p
    BY <1>6, <1>7, <1>9
  <2>4. Behind'
    BY <1>5, <1>7, <1>8, <2>1, <2>2 DEF Behind
  <2> QED BY <2>3, <2>4 DEF BarInv
<1> QED BY <1>6, <1>9, <1>10, <1>11

\* The first write of the chain goes through.
LEMMA WriteFacts ==
    ASSUME BarInv, NEW k, WriteProgress(k)
    PROVE  /\ BarInv' /\ progress < progress' /\ progress' <= published
           /\ published = 0 \/ (Total # 0 /\ published <= Share(completed))
<1>1. /\ k = 1 /\ writes # <<>> /\ progress' = writes[1] /\ state = "active"
      /\ writes' = SubSeq(writes, 1, k - 1) \o SubSeq(writes, k + 1, Len(writes))
      /\ UNCHANGED <<state, at, completed, published>>
  BY DEF WriteProgress, NextWrite
<1>2. writes \in Seq(Nat) /\ Len(writes) \in Nat \ {0}
  BY <1>1 DEF BarInv, Counts
<1>3. /\ writes' \in Seq(Nat) /\ Len(writes') = Len(writes) - 1
      /\ \A j \in 1 .. Len(writes') : writes'[j] = writes[j + 1]
  <2>1. SubSeq(writes, 1, k - 1) = <<>>
    BY <1>1, <1>2
  <2> DEFINE q == SubSeq(writes, 2, Len(writes))
  <2>2. /\ q \in Seq(Nat) /\ Len(q) = Len(writes) - 1
        /\ \A j \in 1 .. Len(q) : q[j] = writes[j + 1]
    <3>1. 2 \in Int /\ Len(writes) \in Int /\ \A j \in 2 .. Len(writes) : writes[j] \in Nat
      BY <1>2
    <3> DEFINE m == Len(writes)
    <3>2. /\ q \in Seq(Nat) /\ Len(q) = IF 2 <= m THEN m - 2 + 1 ELSE 0
          /\ \A j \in 1 .. m - 2 + 1 : q[j] = writes[2 + j - 1]
      BY <3>1, SubSeqProperties
    <3> HIDE DEF q, m
    <3>3. m \in Nat \ {0}
      BY <1>2 DEF m
    <3>4. Len(q) = m - 1
      BY <3>2, <3>3
    <3>5. \A j \in 1 .. Len(q) : j \in 1 .. m - 2 + 1 /\ 2 + j - 1 = j + 1
      BY <3>3, <3>4
    <3> QED BY <3>2, <3>4, <3>5 DEF m
  <2>3. writes' = <<>> \o q
    BY <1>1, <1>2, <2>1
  <2> HIDE DEF q
  <2>4. <<>> \o q = q
    BY <2>2
  <2> QED BY <2>2, <2>3, <2>4
<1>4. /\ Total # 0
      /\ progress <= published /\ (published = 0 \/ published <= Share(completed))
      /\ \A j \in 1 .. Len(writes) : progress < writes[j]
  BY <1>1 DEF BarInv, Behind
<1>5. 1 \in 1 .. Len(writes) /\ \A j \in 1 .. Len(writes') : j + 1 \in 1 .. Len(writes) /\ 1 < j + 1
  BY <1>2, <1>3
<1>6. progress < progress' /\ progress' <= published /\ progress' \in Nat
  BY <1>1, <1>2, <1>4, <1>5 DEF BarInv, Chained
<1>7. Counts'
  <2>1. published \in 0 .. 95 /\ progress' \in 0 .. 100
    BY <1>6 DEF BarInv, Counts
  <2> QED BY <1>1, <1>3, <2>1 DEF BarInv, Counts
<1>8. Chained'
  <2>1. \A j \in 1 .. Len(writes') : writes'[j] <= published'
    BY <1>1, <1>3, <1>5 DEF BarInv, Chained
  <2>2. ASSUME NEW i \in 1 .. Len(writes'), NEW j \in 1 .. Len(writes'), i < j
        PROVE  writes'[i] < writes'[j]
    <3>1. i + 1 \in 1 .. Len(writes) /\ j + 1 \in 1 .. Len(writes) /\ i + 1 < j + 1
      BY <1>5, <2>2
    <3> QED BY <1>3, <3>1 DEF BarInv, Chained
  <2> QED BY <2>1, <2>2 DEF Chained
<1>9. Behind'
  <2>1. \A j \in 1 .. Len(writes') : progress' < writes'[j]
    BY <1>1, <1>3, <1>5 DEF BarInv, Chained
  <2> QED BY <1>1, <1>4, <1>6, <2>1 DEF Behind
<1> QED BY <1>4, <1>6, <1>7, <1>8, <1>9 DEF BarInv

bar == <<state, progress, at, completed, published, writes>>

LEMMA BarRest == BarInv /\ UNCHANGED bar => BarInv'
BY DEF BarInv, Counts, Chained, Behind, bar

\* A batch goes on to its next step.
LEMMA BatchGoesOn ==
    ASSUME BarInv, NEW b \in Batch, at[b] # "done",
           UNCHANGED <<state, progress, completed, published, writes>>
    PROVE  BarInv'
BY DEF BarInv, Counts, Chained, Behind

\* The attempt is over.
LEMMA AttemptOver ==
    ASSUME BarInv, state' # "active", UNCHANGED <<progress, completed, published, writes>>
    PROVE  BarInv'
BY DEF BarInv, Counts, Chained, Behind

LEMMA BarInit == Init => BarInv
BY DEF Init, NoAttempt, BarInv, Counts, Chained, Behind

LEMMA BarNext == BarInv /\ [Next]_vars => BarInv'
<1> SUFFICES ASSUME BarInv, [Next]_vars
             PROVE  BarInv'
  OBVIOUS
<1>1. CASE UNCHANGED vars
  BY <1>1, BarRest DEF vars, job, attempt, bar
<1>2. CASE Take
  <2>1. /\ state' = "active" /\ completed' = 0 /\ published' = 0 /\ writes' = <<>>
        /\ progress' = IF Total = 0 THEN 100 ELSE 0
    BY <1>2 DEF Take
  <2> QED BY <2>1, TotalFacts DEF BarInv, Counts, Chained, Behind
<1>3. ASSUME NEW b \in Batch, Fetch(b) \/ MarkMissing(b) \/ ProcessPage(b)
      PROVE  BarInv'
  BY <1>3, BatchGoesOn DEF Fetch, MarkMissing, ProcessPage, job
<1>4. ASSUME NEW b \in Batch, ReadRows(b) \/ PageErrors(b) \/ BatchFails(b)
      PROVE  BarInv'
  <2>1. /\ state = "active" /\ at[b] # "done" /\ ReportProgress({b})
        /\ UNCHANGED <<state, progress>>
    BY <1>4 DEF ReadRows, PageErrors, BatchFails, job
  <2> QED BY <2>1, ReportKeeps
<1>5. ASSUME NEW s, StoreFails(s)
      PROVE  BarInv'
  <2> DEFINE batches == {b \in Batch : StoreOf[b] = s}
  <2>1. /\ state = "active" /\ batches # {} /\ (\A b \in batches : at[b] # "done")
        /\ ReportProgress(batches) /\ UNCHANGED <<state, progress>>
    BY <1>5 DEF StoreFails, job
  <2>2. batches \in SUBSET Batch
    OBVIOUS
  <2> HIDE DEF batches
  <2> QED BY <2>1, <2>2, ReportKeeps
<1>6. ASSUME NEW k, WriteProgress(k)
      PROVE  BarInv'
  BY <1>6, WriteFacts
<1>7. CASE LastWrite
  BY <1>7 DEF LastWrite, attempt, BarInv, Counts, Chained, Behind
<1>8. CASE AttemptFails \/ Crash \/ Complete
  BY <1>8, AttemptOver DEF AttemptFails, Crash, Complete, attempt
<1>9. CASE WriteFails
  BY <1>9, BarRest DEF WriteFails, job, bar
<1>10. CASE Click \/ Tab \/ DeadlinePasses \/ RequestFails
  <2>1. CASE Request
    <3>1. UNCHANGED bar \/ (state' = "waiting" /\ UNCHANGED <<progress, completed, published, writes>>)
      BY <2>1 DEF Request, job, attempt, bar
    <3> QED BY <3>1, BarRest, AttemptOver
  <2>2. CASE ~Request
    <3>1. UNCHANGED bar
      BY <1>10, <2>2 DEF Click, Tab, ReadJob, Answer, PollAgain, Close, DeadlinePasses,
                         RequestFails, job, attempt, bar
    <3> QED BY <3>1, BarRest
  <2> QED BY <2>1, <2>2
<1>11. CASE \/ \E i \in Offer, v \in Price \cup OffSale : ShopChanges(i, v)
            \/ \E i \in Offer : Flush(i) \/ Rediscover(i)
            \/ \E l \in late : GoesOn(l[1], l[2])
  <2>1. UNCHANGED bar
    BY <1>11 DEF ShopChanges, Flush, Rediscover, GoesOn, job, attempt, bar
  <2> QED BY <2>1, BarRest
<1> QED BY <1>1, <1>2, <1>3, <1>4, <1>5, <1>6, <1>7, <1>8, <1>9, <1>10, <1>11
        DEF Next, Job, JobFaults, Batches, BatchFaults

\* Batches that run in parallel and share one chain of progress writes: the percentage
\* stored with an attempt never falls and is never ahead of the batches settled
\* (reportProgress of refreshCartProducts).
THEOREM BarNeverFalls == Spec => ProgressHonest
<1> DEFINE Honest ==
      state = "active" /\ state' = "active" =>
            /\ progress' >= progress
            /\ progress' \in 1 .. 99 => progress' <= Share(completed)
<1>1. ASSUME BarInv, [Next]_vars
      PROVE  Honest
  <2> SUFFICES ASSUME state = "active", state' = "active"
               PROVE  /\ progress' >= progress
                      /\ progress' \in 1 .. 99 => progress' <= Share(completed)
    OBVIOUS
  <2>1. progress \in 0 .. 100 /\ completed \in Nat /\ published \in 0 .. 95
    BY <1>1 DEF BarInv, Counts
  <2>2. CASE UNCHANGED progress
    <3> DEFINE c == Share(completed)
    <3>1. progress = 100 \/ (Total # 0 /\ progress <= published /\ (published = 0 \/ published <= c))
      BY <1>1 DEF BarInv, Behind
    <3>2. Total # 0 => c \in Nat
      BY <2>1, ShareGrows, TotalFacts
    <3> HIDE DEF c
    <3>3. progress \in 1 .. 99 => progress <= c
      BY <2>1, <3>1, <3>2
    <3> QED BY <2>1, <2>2, <3>3 DEF c
  <2>3. ASSUME NEW k, WriteProgress(k)
        PROVE  Honest
    <3> DEFINE c == Share(completed)
    <3>1. /\ BarInv' /\ progress < progress' /\ progress' <= published
          /\ published = 0 \/ (Total # 0 /\ published <= c)
      BY <1>1, <2>3, WriteFacts
    <3>4. progress' \in Nat
      BY <3>1 DEF BarInv, Counts
    <3>2. Total # 0 => c \in Nat
      BY <2>1, ShareGrows, TotalFacts
    <3> HIDE DEF c
    <3>3. progress' \in 1 .. 99 => progress' <= c
      BY <2>1, <3>1, <3>2, <3>4
    <3> QED BY <2>1, <3>1, <3>3, <3>4 DEF c
  <2>4. CASE LastWrite
    BY <2>1, <2>4 DEF LastWrite
  <2>5. ~Take
    BY DEF Take
  <2>6. UNCHANGED progress \/ LastWrite \/ Take \/ \E k : WriteProgress(k)
    BY <1>1 DEF Next, Job, JobFaults, Batches, BatchFaults, Fetch, MarkMissing, ProcessPage,
         ReadRows, PageErrors, BatchFails, StoreFails, WriteFails, AttemptFails, Crash, Complete,
         Click, Tab, Request, ReadJob, Answer, PollAgain, Close, DeadlinePasses, RequestFails,
         ShopChanges, Flush, Rediscover, GoesOn, vars, job
  <2> QED BY <2>2, <2>3, <2>4, <2>5, <2>6
<1>2. Init /\ [][Next]_vars => [][Honest]_vars
  BY <1>1, BarInit, BarNext, PTL
<1> QED BY <1>2 DEF Spec, ProgressHonest
-----------------------------------------------------------------------------
(* TypeOK.  The bar counts every product once, and a job that may still run *)
(* has an attempt left.                                                     *)

Settled == {i \in Offer : BatchOf[i] \in {b \in Batch : at[b] = "done"}}

AttemptOK ==
    /\ at \in [Batch -> {"fetch", "missing", "process", "read", "done"}]
    /\ completed <= Cardinality(Settled)
    /\ state = "active" => completed = Cardinality(Settled)
    /\ broken \in BOOLEAN

JobOK ==
    /\ state \in {"none", "waiting", "active", "completed", "failed"}
    /\ failures \in 0 .. Attempts /\ stalled \in BOOLEAN
    /\ state \in {"none", "waiting", "active"} => failures < Attempts
    /\ previous \in [Offer -> Price]

PageOK ==
    /\ tab \in {"idle", "starting", "asking", "reading", "waiting", "closing"}
    /\ overdue \in BOOLEAN /\ report \in {"none", "refreshed", "running", "failed", "error"}
    /\ clicks \in 0 .. MaxClicks /\ changes \in 0 .. MaxChanges /\ faults \in 0 .. MaxFaults

Kinds == AttemptOK /\ JobOK /\ PageOK

\* Products of batches that are through, before and after some more are.
LEMMA SettledGrows ==
    ASSUME NEW done \in SUBSET Batch, \A b \in done : at[b] # "done",
           at' = [b \in Batch |-> IF b \in done THEN "done" ELSE at[b]]
    PROVE  /\ Cardinality(Settled) \in Nat
           /\ Cardinality(Settled') =
                Cardinality(Settled) + Cardinality({i \in Offer : BatchOf[i] \in done})
<1> DEFINE more == {i \in Offer : BatchOf[i] \in done}
<1>1. IsFiniteSet(Settled) /\ IsFiniteSet(more)
  BY FS_Subset, RefreshAssumption DEF Settled
<1>2. Settled' = Settled \cup more /\ Settled \cap more = {}
  BY DEF Settled
<1> HIDE DEF more
<1>3. Cardinality(Settled \cap more) = 0
  BY <1>2, FS_EmptySet
<1>4. Cardinality(Settled \cup more) = Cardinality(Settled) + Cardinality(more) - Cardinality(Settled \cap more)
  BY <1>1, FS_Union
<1>5. Cardinality(Settled) \in Nat /\ Cardinality(more) \in Nat
  BY <1>1, FS_CardinalityType
<1> QED BY <1>2, <1>3, <1>4, <1>5 DEF more

LEMMA SettledFacts == Cardinality(Settled) \in Nat /\ Cardinality(Settled) <= Total
<1> DEFINE asked == {i \in Offer : BatchOf[i] # None}
<1>1. IsFiniteSet(asked)
  BY FS_Subset, RefreshAssumption
<1>2. Settled \subseteq asked
  BY RefreshAssumption DEF Settled
<1>3. Total = Cardinality(asked)
  BY DEF Total
<1> HIDE DEF asked
<1>4. IsFiniteSet(Settled) /\ Cardinality(Settled) <= Cardinality(asked)
  BY <1>1, <1>2, FS_Subset
<1> QED BY <1>3, <1>4, FS_CardinalityType

\* The bounds are numbers.
LEMMA BoundFacts ==
    /\ Attempts \in Nat \ {0} /\ MaxClicks \in Nat /\ MaxChanges \in Nat /\ MaxFaults \in Nat
BY RefreshAssumption

LEMMA FaultCounted ==
    ASSUME faults \in 0 .. MaxFaults, UNCHANGED faults \/ Fault
    PROVE  faults' \in 0 .. MaxFaults
BY BoundFacts DEF Fault

LEMMA KindsInit == ASSUME IInv, Init PROVE Kinds
<1>1. previous \in [Offer -> Price]
  BY DEF Init, IInv, DataOK
<1>2. AttemptOK
  <2>1. at = [b \in Batch |-> "done"] /\ state = "none" /\ completed = 0
    BY DEF Init, NoAttempt
  <2>2. broken \in BOOLEAN
    BY Zenon DEF Init, NoAttempt
  <2> QED BY <2>1, <2>2, SettledFacts DEF AttemptOK
<1>3. JobOK /\ PageOK
  <2>1. stalled \in BOOLEAN /\ overdue \in BOOLEAN
    BY Zenon DEF Init
  <2>2. /\ state = "none" /\ failures = 0 /\ tab = "idle" /\ report = "none"
        /\ clicks = 0 /\ changes = 0 /\ faults = 0
    BY DEF Init
  <2> QED BY <1>1, <2>1, <2>2, BoundFacts DEF JobOK, PageOK
<1> QED BY <1>2, <1>3 DEF Kinds

\* An attempt that reports batches which are through, each for the first time.
LEMMA ReportCounts ==
    ASSUME Kinds, BarInv, NEW done \in SUBSET Batch, state = "active",
           \A b \in done : at[b] # "done", ReportProgress(done), UNCHANGED state
    PROVE  AttemptOK'
<1>1. at' = [b \in Batch |-> IF b \in done THEN "done" ELSE at[b]] /\ UNCHANGED broken
  BY DEF ReportProgress
<1>2. completed' = completed + Cardinality({i \in Offer : BatchOf[i] \in done})
  BY DEF ReportProgress
<1>3. completed' = Cardinality(Settled')
  BY <1>1, <1>2, SettledGrows DEF Kinds, AttemptOK
<1>4. Cardinality(Settled') \in Nat
  <2>1. IsFiniteSet(Settled')
    BY FS_Subset, RefreshAssumption DEF Settled
  <2> QED BY <2>1, FS_CardinalityType
<1>5. at' \in [Batch -> {"fetch", "missing", "process", "read", "done"}]
  BY <1>1 DEF Kinds, AttemptOK
<1> QED BY <1>1, <1>3, <1>4, <1>5 DEF Kinds, AttemptOK

\* A batch goes on, and is not through yet.
LEMMA MoveCounts ==
    ASSUME Kinds, NEW b \in Batch, at[b] # "done",
           NEW place \in {"missing", "process", "read"}, at' = [at EXCEPT ![b] = place],
           UNCHANGED <<state, completed, broken>>
    PROVE  AttemptOK'
<1>1. Settled' = Settled
  BY DEF Kinds, AttemptOK, Settled
<1> QED BY <1>1 DEF Kinds, AttemptOK

\* The attempt is left as it is.
LEMMA AttemptRests ==
    ASSUME Kinds, UNCHANGED <<at, completed>>, broken' \in BOOLEAN,
           state' = "active" => state = "active"
    PROVE  AttemptOK'
BY DEF Kinds, AttemptOK, Settled

LEMMA WorkerKinds ==
    ASSUME IInv, BarInv, Kinds, Job \/ JobFaults
    PROVE  Kinds'
<1>1. CASE Take
  <2>1. Settled' = {}
    BY <1>1 DEF Take, Settled
  <2>2. Cardinality(Settled') = 0
    BY <2>1, FS_EmptySet
  <2>3. at' = [b \in Batch |-> "fetch"] /\ completed' = 0 /\ state' = "active"
    BY <1>1 DEF Take
  <2>4. AttemptOK'
    <3>1. broken' \in BOOLEAN
      BY <1>1, Zenon DEF Take
    <3> QED BY <2>2, <2>3, <3>1 DEF AttemptOK
  <2> QED BY <1>1, <2>4 DEF Take, Kinds, JobOK, PageOK, page, world
<1>2. ASSUME NEW b \in Batch, Fetch(b) \/ MarkMissing(b) \/ ProcessPage(b)
      PROVE  Kinds'
  <2>1. AttemptOK'
    BY <1>2, MoveCounts DEF Fetch, MarkMissing, ProcessPage, job
  <2> QED BY <1>2, <2>1 DEF Fetch, MarkMissing, ProcessPage, Kinds, JobOK, PageOK, job, page, world
<1>3. ASSUME NEW b \in Batch, ReadRows(b) \/ PageErrors(b) \/ BatchFails(b)
      PROVE  Kinds'
  <2>1. /\ state = "active" /\ at[b] # "done" /\ ReportProgress({b}) /\ UNCHANGED state
    BY <1>3 DEF ReadRows, PageErrors, BatchFails, job
  <2>2. AttemptOK'
    BY <2>1, ReportCounts
  <2>3. UNCHANGED <<job, page, changes>> /\ (UNCHANGED faults \/ Fault)
    BY <1>3 DEF ReadRows, PageErrors, BatchFails, world
  <2>4. faults' \in 0 .. MaxFaults
    BY <2>3, FaultCounted DEF Kinds, PageOK
  <2> QED BY <2>2, <2>3, <2>4 DEF Kinds, JobOK, PageOK, job, page
<1>4. ASSUME NEW s, StoreFails(s)
      PROVE  Kinds'
  <2> DEFINE batches == {b \in Batch : StoreOf[b] = s}
  <2>1. /\ state = "active" /\ (\A b \in batches : at[b] # "done")
        /\ ReportProgress(batches) /\ UNCHANGED state
    BY <1>4 DEF StoreFails, job
  <2>2. batches \in SUBSET Batch
    OBVIOUS
  <2>3. UNCHANGED <<job, page, changes>> /\ Fault
    BY <1>4 DEF StoreFails, world
  <2> HIDE DEF batches
  <2>4. AttemptOK'
    BY <2>1, <2>2, ReportCounts
  <2>5. faults' \in 0 .. MaxFaults
    BY <2>3, FaultCounted DEF Kinds, PageOK
  <2> QED BY <2>3, <2>4, <2>5 DEF Kinds, JobOK, PageOK, job, page
<1>5. CASE AttemptFails
  <2>1. failures \in Nat /\ failures < Attempts
    BY <1>5 DEF AttemptFails, Kinds, JobOK
  <2>2. /\ failures' = failures + 1
        /\ state' = IF failures' < Attempts THEN "waiting" ELSE "failed"
        /\ UNCHANGED <<stalled, previous, at, completed, broken, changes, page, faults>>
    BY <1>5 DEF AttemptFails, attempt, world
  <2>3. AttemptOK'
    BY <2>2, AttemptRests DEF Kinds, AttemptOK
  <2>4. JobOK'
    <3>1. stalled' \in BOOLEAN
      BY <2>2, Zenon DEF Kinds, JobOK
    <3>2. failures' \in 0 .. Attempts
      BY <2>1, <2>2, BoundFacts
    <3> QED BY <2>1, <2>2, <3>1, <3>2 DEF Kinds, JobOK
  <2> QED BY <2>2, <2>3, <2>4 DEF Kinds, PageOK, page
<1>6. CASE Crash \/ Complete \/ LastWrite \/ WriteFails \/ \E k \in 1 .. Len(writes) : WriteProgress(k)
  <2>1. /\ UNCHANGED <<at, completed, failures, previous, changes, page>>
        /\ state = "active" /\ state' \in {"active", "waiting", "completed", "failed"}
        /\ UNCHANGED faults \/ Fault
    BY <1>6 DEF Crash, Complete, LastWrite, WriteFails, WriteProgress, attempt, job, world
  <2>2. broken' \in BOOLEAN /\ stalled' \in BOOLEAN
    <3>1. (broken' = broken \/ broken' = TRUE) /\ (stalled' = stalled \/ stalled' = TRUE)
      BY <1>6, Zenon DEF Crash, Complete, LastWrite, WriteFails, WriteProgress, attempt, job
    <3> QED BY <3>1, Zenon DEF Kinds, AttemptOK, JobOK
  <2>3. AttemptOK'
    BY <2>1, <2>2, AttemptRests
  <2>4. faults' \in 0 .. MaxFaults
    BY <2>1, FaultCounted DEF Kinds, PageOK
  <2> QED BY <2>1, <2>2, <2>3, <2>4 DEF Kinds, JobOK, PageOK, page
<1> QED BY <1>1, <1>2, <1>3, <1>4, <1>5, <1>6 DEF Job, JobFaults, Batches, BatchFaults

LEMMA PageKinds ==
    ASSUME IInv, Kinds, Click \/ Tab \/ DeadlinePasses \/ RequestFails
    PROVE  Kinds'
<1>1. UNCHANGED <<at, completed, broken, failures, stalled, changes>>
  BY DEF Click, Tab, Request, ReadJob, Answer, PollAgain, Close, DeadlinePasses, RequestFails,
         job, attempt, world
<1>2. /\ state' = state \/ (state = "none" /\ state' = "waiting")
      /\ previous' \in {previous, [i \in Offer |-> row[i].price]}
  BY DEF Click, Tab, Request, ReadJob, Answer, PollAgain, Close, DeadlinePasses, RequestFails, job
<1>3. /\ tab' \in {"idle", "starting", "asking", "reading", "waiting", "closing"}
      /\ report' \in {report, "none", "refreshed", "running", "failed", "error"}
      /\ clicks' = clicks \/ (clicks < MaxClicks /\ clicks' = clicks + 1)
      /\ UNCHANGED faults \/ Fault
  BY DEF Click, Tab, Request, ReadJob, Answer, PollAgain, Close, DeadlinePasses, RequestFails,
         Told, Goto
<1>4. broken' \in BOOLEAN /\ stalled' \in BOOLEAN /\ overdue' \in BOOLEAN
  <2>1. overdue' = overdue \/ overdue' = TRUE \/ overdue' = FALSE
    BY Zenon DEF Click, Tab, Request, ReadJob, Answer, PollAgain, Close, DeadlinePasses,
                 RequestFails, Told, Goto
  <2> QED BY <1>1, <2>1, Zenon DEF Kinds, AttemptOK, JobOK, PageOK
<1>5. AttemptOK'
  BY <1>1, <1>2, <1>4, AttemptRests
<1>6. [i \in Offer |-> row[i].price] \in [Offer -> Price]
  BY DEF IInv, DataOK
<1>7. faults' \in 0 .. MaxFaults /\ clicks' \in 0 .. MaxClicks
  BY <1>3, BoundFacts, FaultCounted DEF Kinds, PageOK
<1>8. JobOK'
  BY <1>1, <1>2, <1>4, <1>6 DEF Kinds, JobOK
<1>9. PageOK'
  BY <1>1, <1>3, <1>4, <1>7 DEF Kinds, PageOK
<1> QED BY <1>5, <1>8, <1>9 DEF Kinds

LEMMA WorldKinds ==
    ASSUME Kinds,
           \/ \E i \in Offer, v \in Price \cup OffSale : ShopChanges(i, v)
           \/ \E i \in Offer : Flush(i) \/ Rediscover(i)
           \/ \E l \in late : GoesOn(l[1], l[2])
    PROVE  Kinds'
<1>1. /\ UNCHANGED <<job, attempt, page, faults>>
      /\ UNCHANGED changes \/ (changes < MaxChanges /\ changes' = changes + 1)
  BY DEF ShopChanges, Flush, Rediscover, GoesOn, world
<1>2. AttemptOK'
  BY <1>1, AttemptRests DEF Kinds, AttemptOK, attempt, job
<1> QED BY <1>1, <1>2, RefreshAssumption DEF Kinds, JobOK, PageOK, job, page

LEMMA KindsNext == IInv /\ BarInv /\ Kinds /\ [Next]_vars => Kinds'
<1> SUFFICES ASSUME IInv, BarInv, Kinds, [Next]_vars
             PROVE  Kinds'
  OBVIOUS
<1>1. CASE UNCHANGED vars
  <2>1. UNCHANGED <<job, attempt, page, changes, faults>>
    BY <1>1 DEF vars, world
  <2>2. AttemptOK'
    BY <2>1, AttemptRests DEF Kinds, AttemptOK, attempt, job
  <2> QED BY <2>1, <2>2 DEF Kinds, JobOK, PageOK, job, page
<1>2. CASE Next
  BY <1>2, WorkerKinds, PageKinds, WorldKinds DEF Next
<1> QED BY <1>1, <1>2

LEMMA RefreshInvariance == Spec => [](IInv /\ BarInv /\ Kinds)
<1>1. Init => IInv /\ BarInv /\ Kinds
  BY InitOK, BarInit, KindsInit, RefreshAssumption
<1>2. IInv /\ BarInv /\ Kinds /\ [Next]_vars => (IInv /\ BarInv /\ Kinds)'
  BY StepOK, BarNext, KindsNext, RefreshAssumption
<1> QED BY <1>1, <1>2, PTL DEF Spec

\* Rows, answers and outcomes are of their kinds, no more products are counted than the
\* batches ask for as long as progress is written, and a job fails once its attempts are
\* used up.
THEOREM RefreshesTyped == Spec => []TypeOK
<1>1. IInv /\ BarInv /\ Kinds => TypeOK
  <2> SUFFICES ASSUME IInv, BarInv, Kinds
               PROVE  TypeOK
    OBVIOUS
  <2>1. completed \in Nat /\ completed <= Cardinality(Settled) /\ Total \in Nat
    BY TotalFacts DEF BarInv, Counts, Kinds, AttemptOK
  <2>2. completed \in Nat /\ completed <= Total
    BY <2>1, SettledFacts
  <2> QED BY <2>2 DEF TypeOK, IInv, DataOK, Heard, BarInv, Counts, Kinds, AttemptOK, JobOK, PageOK
<1> QED BY <1>1, RefreshInvariance, PTL

\* As long as its progress is written, each product of an attempt is counted once, when
\* its batch is through, however batches end: with their rows, an error of the page, an
\* exception, or with their store (reportProgress, called behind and in the catch blocks).
THEOREM ProductsCountedOnce ==
    Spec => [](state = "active" /\ ~broken => completed = Cardinality(Settled))
<1>1. Kinds => (state = "active" /\ ~broken => completed = Cardinality(Settled))
  BY DEF Kinds, AttemptOK
<1> QED BY <1>1, RefreshInvariance, PTL

-----------------------------------------------------------------------------
(* PrintingMatch: FindsThePrinting.  What is cached of earlier products is *)
(* what the tables say, so that a match does not depend on what was        *)
(* matched before; then the chain of rules finds the printing.             *)

\* The set a product names, by its code or by the name of its set.
SetFor(x) ==
    IF x.code # None THEN x.code
    ELSE IF x.setName = None THEN None ELSE M!SetCalled(x.setName).code

CardCached ==
    /\ cardCaches.names \in [Title -> {None} \cup {M!CardName(t) : t \in Title}]
    /\ cardCaches.sets \in [SetName -> {None} \cup {M!SetCalled(n) : n \in SetName}]
    /\ cardCaches.numbers \in [M!Sets \X M!Numbers -> {None} \cup tables]
    /\ \A t \in Title : cardCaches.names[t] \in {None, M!CardName(t)}
    /\ \A n \in SetName : cardCaches.sets[n] \in {None, M!SetCalled(n)}
    /\ \A s \in M!Sets, n \in M!Numbers :
         cardCaches.numbers[<<s, n>>] \in {None, M!RowAt(M!AnyCard, s, n)}
MatchInv == tables \in Catalogue /\ CardCached

\* What the property says of a product and what it was filed as.
InItsSet(x, name) == {p \in M!RowsOf(name) : Printing[p].set = SetFor(x)}
Numbered(x, name) ==
    {p \in InItsSet(x, name) : x.number # None /\ Printing[p].number = M!Stripped(x.number)}
Right(name, x, f) ==
    /\ f.name = name
    /\ f.printing # None => f.printing \in M!RowsOf(name)
    /\ M!RowsOf(name) # {} => f.printing # None
    /\ Numbered(x, name) # {} => f.printing \in Numbered(x, name)
    /\ Numbered(x, name) = {} /\ InItsSet(x, name) # {} => InItsSet(x, name) = {f.printing}

\* Every nonempty set of numbers has a least one.
LEMMA Least ==
    ASSUME NEW S \in SUBSET Nat, S # {}
    PROVE  \E p \in S : \A q \in S : p <= q
<1> DEFINE R == {ss \in Nat \X Nat : ss[1] < ss[2]}
<1>1. IsWellFoundedOn(R, Nat)
  BY NatLessThanWellFounded DEF OpToRel
<1>2. \E p \in S : \A q \in S : ~(<<q, p>> \in R)
  <2> HIDE DEF R
  <2> QED BY <1>1, WFMin
<1>3. PICK p \in S : \A q \in S : ~(<<q, p>> \in R)
  BY <1>2
<1>4. \A q \in S : ~(q < p)
  BY <1>3
<1> QED BY <1>4

LEMMA FirstFacts ==
    ASSUME NEW S \in SUBSET Nat, S # {}
    PROVE  M!First(S) \in S
BY Least DEF M!First

\* The best printing of some by priority and ID.
LEMMA TopFacts ==
    ASSUME NEW S \in SUBSET Nat, S # {}, NEW s, NEW n
    PROVE  /\ M!Top(S, s, n) \in S
           /\ \A q \in S : M!Priority(M!Top(S, s, n), s, n) <= M!Priority(q, s, n)
<1> DEFINE of(k) == {p \in S : M!Priority(p, s, n) = k}
<1>1. \A p : M!Priority(p, s, n) \in {1, 2, 3}
  BY DEF M!Priority
<1>2. PICK k \in {1, 2, 3} : of(k) # {} /\ \A j \in {1, 2, 3} : of(j) # {} => k <= j
  <2>1. of(1) # {} \/ of(2) # {} \/ of(3) # {}
    BY <1>1
  <2> HIDE DEF of
  <2> QED BY <2>1
<1>3. PICK p \in of(k) : \A q \in of(k) : p <= q
  <2>1. of(k) \in SUBSET Nat
    OBVIOUS
  <2> HIDE DEF of
  <2> QED BY <1>2, <2>1, Least
<1>4. \A q \in S : M!Before(p, q, s, n)
  <2> TAKE q \in S
  <2>1. CASE M!Priority(q, s, n) = k
    BY <1>3, <2>1 DEF M!Before
  <2>2. CASE M!Priority(q, s, n) # k
    <3>1. k <= M!Priority(q, s, n) /\ M!Priority(p, s, n) = k
      BY <1>1, <1>2, <1>3
    <3> QED BY <1>1, <2>2, <3>1 DEF M!Before
  <2> QED BY <2>1, <2>2
<1>5. /\ M!Top(S, s, n) \in S
      /\ \A q \in S : M!Before(M!Top(S, s, n), q, s, n)
  BY <1>3, <1>4 DEF M!Top
<1> QED BY <1>1, <1>5 DEF M!Before

\* A name, a set and a number are found in the caches or asked for, with the same result.
LEMMA CachesTell ==
    ASSUME MatchInv, NEW x \in Offered
    PROVE  /\ M!Through(cardCaches.names[x.title], M!CardName(x.title)) = M!CardName(x.title)
           /\ M!SetOf(cardCaches, x).code = SetFor(x)
           /\ x.code = None /\ x.setName # None => M!SetOf(cardCaches, x) = M!SetCalled(x.setName)
           /\ SetFor(x) \in M!Sets \cup {None}
<1>1. x.title \in Title /\ x.setName \in SetName \cup {None}
  BY TitlesAssumption DEF M!MatchAssumption
<1>2. M!Through(cardCaches.names[x.title], M!CardName(x.title)) = M!CardName(x.title)
  BY <1>1 DEF MatchInv, CardCached, M!Through
<1>3. ASSUME x.code = None, x.setName # None
      PROVE  M!SetOf(cardCaches, x) = M!SetCalled(x.setName)
  <2>1. M!Through(cardCaches.sets[x.setName], M!SetCalled(x.setName)) = M!SetCalled(x.setName)
    BY <1>1, <1>3 DEF MatchInv, CardCached, M!Through
  <2> QED BY <1>3, <2>1 DEF M!SetOf
<1>4. M!SetOf(cardCaches, x).code = SetFor(x)
  <2>1. CASE x.code # None
    BY <2>1 DEF M!SetOf, SetFor
  <2>2. CASE x.code = None /\ x.setName = None
    BY <2>2 DEF M!SetOf, SetFor
  <2> QED BY <1>3, <2>1, <2>2 DEF SetFor
<1>5. SetFor(x) \in M!Sets \cup {None}
  <2>1. \A n \in SetName : M!SetCalled(n).code \in {Named[n], Containing[n], None}
    BY DEF M!SetCalled
  <2>2. \A n \in SetName : {Named[n], Containing[n]} \subseteq M!Sets
    BY DEF M!Sets
  <2>3. x.code \in M!Sets
    BY DEF M!Sets
  <2> QED BY <1>1, <2>1, <2>2, <2>3 DEF SetFor
<1> QED BY <1>2, <1>3, <1>4, <1>5

\* The number is looked up in the set; a hit is a printing of both.
LEMMA HitFacts ==
    ASSUME MatchInv, NEW x \in Offered, NEW hit, hit # None, hit = M!Hit(cardCaches, M!AnyCard, x)
    PROVE  /\ SetFor(x) \in M!Sets /\ M!Stripped(x.number) \in M!Numbers /\ x.number # None
           /\ hit = M!RowAt(M!AnyCard, SetFor(x), M!Stripped(x.number))
           /\ hit \in tables /\ Printing[hit].set = SetFor(x)
           /\ Printing[hit].number = M!Stripped(x.number)
<1> DEFINE s == SetFor(x)
           n == M!Stripped(x.number)
           there == {p \in tables : Printing[p].set = s /\ Printing[p].number = n /\ Printing[p].of \in M!AnyCard}
<1>1. n # None /\ s # None /\ hit = M!Found(cardCaches, M!AnyCard, s, n)
  BY CachesTell DEF M!Hit
<1>2. s \in M!Sets /\ n \in M!Numbers
  BY <1>1, CachesTell DEF M!Numbers
<1>3. x.number # None
  BY <1>1 DEF M!Stripped
<1>4. hit = M!RowAt(M!AnyCard, s, n)
  <2>1. cardCaches.numbers[<<s, n>>] \in {None, M!RowAt(M!AnyCard, s, n)}
    BY <1>2 DEF MatchInv, CardCached
  <2> HIDE DEF s, n
  <2> QED BY <1>1, <2>1 DEF M!Found, M!Key, M!Through
<1>5. hit = M!First(there)
  BY <1>4 DEF M!RowAt
<1>6. there \in SUBSET Nat
  BY TitlesAssumption DEF MatchInv, M!MatchAssumption
<1>7. hit \in there
  <2> HIDE DEF there
  <2>1. there # {}
    BY <1>5 DEF M!First
  <2> QED BY <1>5, <1>6, <2>1, FirstFacts
<1> QED BY <1>2, <1>3, <1>4, <1>7

\* What the card matcher makes of a product is right.
LEMMA CardRight ==
    ASSUME MatchInv, NEW x \in Offered, NEW name, NEW hit,
           hit = None \/ (hit \in tables /\ Printing[hit].set = SetFor(x) /\ x.number # None
                          /\ Printing[hit].number = M!Stripped(x.number)),
           M!CardMatch(x, name, hit).as = "card"
    PROVE  Right(name, x, M!CardMatch(x, name, hit))
<1> DEFINE f == M!CardMatch(x, name, hit)
           s == SetFor(x)
           n == M!Stripped(x.number)
           named == M!RowsOf(name)
<1>1. /\ \A p \in named : p \in tables /\ Printing[p].of = name
      /\ \A p \in tables : Printing[p].of = name => p \in named
      /\ named \in SUBSET Nat /\ None \notin Nat
      /\ \A p \in tables : Printing[p].set # None /\ Printing[p].number # None
  BY TitlesAssumption DEF MatchInv, M!MatchAssumption, M!RowsOf
<1>2. x.number = None => n = None
  BY DEF M!Stripped
<1>3. name # None
  BY DEF M!CardMatch, M!Unmatched
<1>4. CASE M!Agrees(hit, name)
  <2>1. f.printing = hit /\ f.name = Printing[hit].of
    BY <1>3, <1>4 DEF M!CardMatch
  <2>2. hit # None /\ Printing[hit].of = name
    BY <1>4 DEF M!Agrees
  <2>3. hit \in named /\ hit \in Numbered(x, name)
    BY <1>1, <2>2 DEF Numbered, InItsSet
  <2> QED BY <2>1, <2>2, <2>3 DEF Right
<1>5. CASE ~M!Agrees(hit, name)
  <2> DEFINE top == M!Top(named, s, n)
             next == M!Top(named \ {top}, s, n)
  <2>1. f.name = name /\ f.printing = top /\ ~M!Ambiguous(name, s, n)
    BY <1>3, <1>5, CachesTell DEF M!CardMatch, M!Unmatched
  <2>2. named # {} => top \in named /\ \A q \in named : M!Priority(top, s, n) <= M!Priority(q, s, n)
    <3> HIDE DEF named, s, n
    <3> QED BY <1>1, TopFacts
  <2>3. named = {} => top = None
    BY DEF M!Top
  <2>4. \A p \in named : /\ M!Priority(p, s, n) \in {1, 2, 3}
                         /\ M!Priority(p, s, n) = 1 <=> p \in Numbered(x, name)
                         /\ p \in InItsSet(x, name) => M!Priority(p, s, n) # 3
                         /\ M!Priority(p, s, n) # 3 => p \in InItsSet(x, name)
    BY <1>1, <1>2 DEF M!Priority, Numbered, InItsSet
  <2>5. Numbered(x, name) \subseteq InItsSet(x, name) /\ InItsSet(x, name) \subseteq named
    BY DEF Numbered, InItsSet
  <2>6. ASSUME NEW p \in Numbered(x, name) PROVE top \in Numbered(x, name)
    <3>1. p \in named /\ M!Priority(p, s, n) = 1
      BY <2>4, <2>5, <2>6
    <3>2. top \in named /\ M!Priority(top, s, n) <= 1
      BY <2>2, <3>1
    <3>3. M!Priority(top, s, n) = 1
      BY <2>4, <3>2
    <3> QED BY <2>4, <3>2, <3>3
  <2>7. ASSUME Numbered(x, name) = {}, NEW p \in InItsSet(x, name)
        PROVE  InItsSet(x, name) = {top}
    <3>1. top \in named /\ M!Priority(top, s, n) = 2 /\ top \in InItsSet(x, name)
      BY <2>2, <2>4, <2>5, <2>7
    <3>2. ASSUME NEW q \in InItsSet(x, name), q # top
          PROVE  FALSE
      <4>1. q \in named \ {top} /\ named \ {top} \in SUBSET Nat /\ M!Priority(q, s, n) = 2
        BY <1>1, <2>4, <2>5, <2>7, <3>2
      <4>2. next \in named \ {top} /\ M!Priority(next, s, n) <= 2
        <5> HIDE DEF named, s, n, top
        <5> QED BY <4>1, TopFacts
      <4>3. M!Priority(next, s, n) = 2 /\ next # None
        BY <1>1, <2>4, <2>7, <4>2
      <4>4. M!Ambiguous(name, s, n)
        BY <3>1, <4>3 DEF M!Ambiguous
      <4> QED BY <2>1, <4>4
    <3> QED BY <3>1, <3>2
  <2> HIDE DEF f, named, s, n, top, next
  <2>8. f.printing # None => f.printing \in named
    BY <2>1, <2>2, <2>3
  <2>9. named # {} => f.printing # None
    BY <1>1, <2>1, <2>2
  <2> QED BY <2>1, <2>6, <2>7, <2>8, <2>9 DEF Right, named, f
<1> QED BY <1>4, <1>5

LEMMA MatchBegins == M!Init => MatchInv /\ FindsThePrinting
<1> SUFFICES ASSUME M!Init PROVE MatchInv /\ FindsThePrinting
  OBVIOUS
<1>1. tables \in Catalogue /\ cardCaches = M!Warm /\ filed = M!Unmatched
  BY DEF M!Init
<1>2. /\ cardCaches.names = [t \in Title |-> IF Exact[t] # None THEN M!CardName(t) ELSE None]
      /\ cardCaches.sets = [n \in SetName |-> IF Named[n] # None THEN M!SetCalled(n) ELSE None]
      /\ cardCaches.numbers = [key \in M!Sets \X M!Numbers |-> None]
  BY <1>1 DEF M!Warm, M!Cold
<1>3. CardCached
  BY <1>2 DEF CardCached
<1>4. FindsThePrinting
  BY <1>1 DEF FindsThePrinting, M!FindsThePrinting, M!Unmatched
<1> QED BY <1>1, <1>3, <1>4 DEF MatchInv

LEMMA MatchDoes ==
    ASSUME MatchInv, NEW x \in Offered, M!Match(x)
    PROVE  MatchInv' /\ FindsThePrinting'
<1> DEFINE name == M!CardName(x.title)
           hit == IF name.name = None THEN None ELSE M!Hit(cardCaches, M!AnyCard, x)
           card == M!CardMatch(x, name.name, hit)
           new == M!Learned(cardCaches, x, name, hit)
<1>1. /\ product' = x /\ tables' = tables /\ cardCaches' = new
      /\ card # M!Unmatched => filed' = card
      /\ card = M!Unmatched => filed'.as # "card"
  <2>1. M!Through(cardCaches.names[x.title], M!CardName(x.title)) = name
    BY CachesTell
  <2>2. \A n, h : M!TokenMatch(x, n, h).as # "card"
    BY DEF M!TokenMatch, M!Unmatched
  <2> QED BY <2>1, <2>2 DEF M!Match
<1>2. hit # None =>
        /\ SetFor(x) \in M!Sets /\ M!Stripped(x.number) \in M!Numbers /\ x.number # None
        /\ hit = M!RowAt(M!AnyCard, SetFor(x), M!Stripped(x.number))
        /\ hit \in tables /\ Printing[hit].set = SetFor(x)
        /\ Printing[hit].number = M!Stripped(x.number)
  BY HitFacts
<1>3. x.title \in Title /\ x.setName \in SetName \cup {None}
  BY TitlesAssumption DEF M!MatchAssumption
<1>4. MatchInv'
  <2>1. /\ new.names = [cardCaches.names EXCEPT ![x.title] = name]
        /\ new.numbers = IF hit = None THEN cardCaches.numbers
                         ELSE [cardCaches.numbers EXCEPT ![<<SetFor(x), M!Stripped(x.number)>>] = hit]
        /\ new.sets = IF x.code # None \/ x.setName = None THEN cardCaches.sets
                      ELSE [cardCaches.sets EXCEPT ![x.setName] = M!SetCalled(x.setName)]
    <3> HIDE DEF name, hit
    <3> QED BY CachesTell DEF M!Learned, M!Key
  <2>2. \A kind, s, n : M!RowAt(kind, s, n)' = M!RowAt(kind, s, n)
    BY <1>1 DEF M!RowAt
  <2> HIDE DEF hit, card, new
  <2>3. /\ new.names \in [Title -> {None} \cup {M!CardName(t) : t \in Title}]
        /\ \A t \in Title : new.names[t] \in {None, M!CardName(t)}
    BY <1>3, <2>1 DEF MatchInv, CardCached
  <2>4. /\ new.sets \in [SetName -> {None} \cup {M!SetCalled(n) : n \in SetName}]
        /\ \A n \in SetName : new.sets[n] \in {None, M!SetCalled(n)}
    BY <1>3, <2>1 DEF MatchInv, CardCached
  <2>5. /\ new.numbers \in [M!Sets \X M!Numbers -> {None} \cup tables]
        /\ \A s \in M!Sets, n \in M!Numbers :
             new.numbers[<<s, n>>] \in {None, M!RowAt(M!AnyCard, s, n)}
    BY <1>2, <2>1 DEF MatchInv, CardCached
  <2> QED BY <1>1, <2>2, <2>3, <2>4, <2>5 DEF MatchInv, CardCached
<1>5. FindsThePrinting'
  <2>1. ASSUME card # M!Unmatched, card.as = "card" PROVE Right(name.name, x, card)
    <3> HIDE DEF hit, name
    <3> QED BY <1>2, <2>1, CardRight
  <2>2. \A n : M!RowsOf(n)' = M!RowsOf(n)
    BY <1>1 DEF M!RowsOf
  <2>3. \A n : M!InSet(n)' = InItsSet(x, n) /\ M!WithNumber(n)' = Numbered(x, n)
    BY <1>1, <2>2 DEF M!InSet, M!WithNumber, M!Told, InItsSet, Numbered, SetFor
  <2> HIDE DEF card
  <2>4. filed'.as = "card" => Right(name.name, x, filed')
    BY <1>1, <2>1
  <2> QED BY <1>1, <2>2, <2>3, <2>4 DEF FindsThePrinting, M!FindsThePrinting, Right
<1> QED BY <1>4, <1>5

\* Whatever was matched and cached before, a product filed under a card is the card of
\* its title, and its printing the one its set and number name, if the card has it
\* (PrintingMatcherService.match, processExtractedVariants).
THEOREM PrintingsFound == M!Spec => []FindsThePrinting
<1>1. MatchInv /\ FindsThePrinting /\ [M!Next]_(M!vars) => (MatchInv /\ FindsThePrinting)'
  <2> SUFFICES ASSUME MatchInv, FindsThePrinting, [M!Next]_(M!vars)
               PROVE  (MatchInv /\ FindsThePrinting)'
    OBVIOUS
  <2>1. CASE M!Next
    BY <2>1, MatchDoes DEF M!Next
  <2>2. CASE UNCHANGED M!vars
    <3>1. UNCHANGED <<tables, cardCaches, product, filed>>
      BY <2>2 DEF M!vars
    <3>2. MatchInv'
      BY <3>1 DEF MatchInv, CardCached, M!RowAt
    <3>3. FindsThePrinting'
      BY <3>1 DEF FindsThePrinting, M!FindsThePrinting, M!RowsOf, M!InSet, M!WithNumber, M!Told
    <3> QED BY <3>2, <3>3
  <2> QED BY <2>1, <2>2
<1> QED BY <1>1, MatchBegins, PTL DEF M!Spec

-----------------------------------------------------------------------------
(* PrintingMatch: TypeOK.  The token matcher's caches hold what the tables  *)
(* say as well.                                                            *)

TokenCached ==
    /\ tokenCaches.names \in [Title -> {None} \cup {M!TokenName(t) : t \in Title}]
    /\ tokenCaches.sets \in [SetName -> {None} \cup {M!SetCalled(n) : n \in SetName}]
    /\ tokenCaches.numbers \in [M!Sets \X M!Numbers -> {None} \cup tables]
    /\ \A t \in Title : tokenCaches.names[t] \in {None, M!TokenName(t)}
    /\ \A n \in SetName : tokenCaches.sets[n] \in {None, M!SetCalled(n)}
    /\ \A s \in M!Sets, n \in M!Numbers :
         tokenCaches.numbers[<<s, n>>] \in {None, M!RowAt(Token, s, n)}

Filed ==
    /\ product \in Offered \cup {None} /\ matches \in 0 .. MaxMatches
    /\ filed.as \in {"card", "token", "unmatched"}

\* The set of a product is the same through either matcher's cache.
LEMMA TokensTell ==
    ASSUME MatchInv, TokenCached, NEW x \in Offered
    PROVE  /\ M!SetOf(tokenCaches, x).code = SetFor(x)
           /\ x.code = None /\ x.setName # None => M!SetOf(tokenCaches, x) = M!SetCalled(x.setName)
<1>1. x.setName \in SetName \cup {None}
  BY TitlesAssumption DEF M!MatchAssumption
<1>2. ASSUME x.code = None, x.setName # None
      PROVE  M!SetOf(tokenCaches, x) = M!SetCalled(x.setName)
  <2>1. M!Through(tokenCaches.sets[x.setName], M!SetCalled(x.setName)) = M!SetCalled(x.setName)
    BY <1>1, <1>2 DEF TokenCached, M!Through
  <2> QED BY <1>2, <2>1 DEF M!SetOf
<1>3. CASE x.code # None
  BY <1>3 DEF M!SetOf, SetFor
<1>4. CASE x.code = None /\ x.setName = None
  BY <1>4 DEF M!SetOf, SetFor
<1> QED BY <1>2, <1>3, <1>4 DEF SetFor

\* A number that is found there is a token's.
LEMMA TokenHitFacts ==
    ASSUME MatchInv, TokenCached, NEW x \in Offered, NEW hit, hit # None,
           hit = M!Hit(tokenCaches, Token, x)
    PROVE  /\ SetFor(x) \in M!Sets /\ M!Stripped(x.number) \in M!Numbers
           /\ hit = M!RowAt(Token, SetFor(x), M!Stripped(x.number)) /\ hit \in tables
<1> DEFINE s == SetFor(x)
           n == M!Stripped(x.number)
           there == {p \in tables : Printing[p].set = s /\ Printing[p].number = n /\ Printing[p].of \in Token}
<1>1. n # None /\ s # None /\ hit = M!Found(tokenCaches, Token, s, n)
  BY TokensTell DEF M!Hit
<1>2. s \in M!Sets /\ n \in M!Numbers
  BY <1>1, CachesTell DEF M!Numbers
<1>3. hit = M!RowAt(Token, s, n)
  <2>1. tokenCaches.numbers[<<s, n>>] \in {None, M!RowAt(Token, s, n)}
    BY <1>2 DEF TokenCached
  <2> HIDE DEF s, n
  <2> QED BY <1>1, <2>1 DEF M!Found, M!Key, M!Through
<1>4. hit = M!First(there)
  BY <1>3 DEF M!RowAt
<1>5. there \in SUBSET Nat
  BY TitlesAssumption DEF MatchInv, M!MatchAssumption
<1>6. hit \in there
  <2> HIDE DEF there
  <2>1. there # {}
    BY <1>4 DEF M!First
  <2> QED BY <1>4, <1>5, <2>1, FirstFacts
<1> QED BY <1>2, <1>3, <1>6

LEMMA TokensKept ==
    ASSUME MatchInv, TokenCached, NEW x \in Offered, M!Match(x)
    PROVE  TokenCached'
<1> DEFINE hit == M!Hit(tokenCaches, Token, x)
           cached == tokenCaches.names[x.title]
           name == IF hit = None THEN M!Through(cached, M!TokenName(x.title)) ELSE cached
           new == M!Learned(tokenCaches, x, name, hit)
<1>1. tables' = tables /\ (tokenCaches' = tokenCaches \/ tokenCaches' = new)
  BY DEF M!Match
<1>2. \A kind, s, n : M!RowAt(kind, s, n)' = M!RowAt(kind, s, n)
  BY <1>1 DEF M!RowAt
<1>3. x.title \in Title /\ x.setName \in SetName \cup {None}
  BY TitlesAssumption DEF M!MatchAssumption
<1>4. name \in {None, M!TokenName(x.title)}
  BY <1>3 DEF TokenCached, M!Through
<1>5. hit # None => /\ SetFor(x) \in M!Sets /\ M!Stripped(x.number) \in M!Numbers
                    /\ hit = M!RowAt(Token, SetFor(x), M!Stripped(x.number)) /\ hit \in tables
  BY TokenHitFacts
<1>6. /\ new.names = [tokenCaches.names EXCEPT ![x.title] = name]
      /\ new.numbers = IF hit = None THEN tokenCaches.numbers
                       ELSE [tokenCaches.numbers EXCEPT ![<<SetFor(x), M!Stripped(x.number)>>] = hit]
      /\ new.sets = IF x.code # None \/ x.setName = None THEN tokenCaches.sets
                    ELSE [tokenCaches.sets EXCEPT ![x.setName] = M!SetCalled(x.setName)]
  <2> HIDE DEF name, hit
  <2> QED BY TokensTell DEF M!Learned, M!Key
<1> HIDE DEF hit, name, new
<1>7. /\ new.names \in [Title -> {None} \cup {M!TokenName(t) : t \in Title}]
      /\ \A t \in Title : new.names[t] \in {None, M!TokenName(t)}
  BY <1>3, <1>4, <1>6 DEF TokenCached
<1>8. /\ new.sets \in [SetName -> {None} \cup {M!SetCalled(n) : n \in SetName}]
      /\ \A n \in SetName : new.sets[n] \in {None, M!SetCalled(n)}
  BY <1>3, <1>6 DEF TokenCached
<1>9. /\ new.numbers \in [M!Sets \X M!Numbers -> {None} \cup tables]
      /\ \A s \in M!Sets, n \in M!Numbers : new.numbers[<<s, n>>] \in {None, M!RowAt(Token, s, n)}
  BY <1>5, <1>6 DEF TokenCached
<1>10. CASE tokenCaches' = tokenCaches
  BY <1>1, <1>2, <1>10 DEF TokenCached
<1>11. CASE tokenCaches' = new
  BY <1>1, <1>2, <1>7, <1>8, <1>9, <1>11 DEF TokenCached
<1> QED BY <1>1, <1>10, <1>11

LEMMA FiledKept ==
    ASSUME Filed, NEW x \in Offered, M!Match(x)
    PROVE  Filed'
<1>1. \A n, h : M!CardMatch(x, n, h).as \in {"card", "unmatched"}
  BY DEF M!CardMatch, M!Unmatched
<1>2. \A n, h : M!TokenMatch(x, n, h).as \in {"token", "unmatched"}
  BY DEF M!TokenMatch, M!Unmatched
<1>3. \E n, h : filed' = M!CardMatch(x, n, h) \/ filed' = M!TokenMatch(x, n, h)
  BY DEF M!Match
<1>4. product' = x /\ matches < MaxMatches /\ matches' = matches + 1 /\ MaxMatches \in Nat
  BY TitlesAssumption DEF M!Match, M!MatchAssumption
<1> QED BY <1>1, <1>2, <1>3, <1>4 DEF Filed

LEMMA TokensBegin == M!Init => TokenCached /\ Filed
<1> SUFFICES ASSUME M!Init PROVE TokenCached /\ Filed
  OBVIOUS
<1>1. /\ tokenCaches.names = [t \in Title |-> None]
      /\ tokenCaches.sets = [n \in SetName |-> None]
      /\ tokenCaches.numbers = [key \in M!Sets \X M!Numbers |-> None]
  BY DEF M!Init, M!Cold
<1>2. TokenCached
  BY <1>1 DEF TokenCached
<1>3. Filed
  BY TitlesAssumption DEF M!Init, M!Unmatched, M!MatchAssumption, Filed
<1> QED BY <1>2, <1>3

\* What either matcher has cached of names, numbers and sets is what the tables say,
\* however many products were matched (PrintingMatcherService, TokenMatcherService).
THEOREM CachesAgree == M!Spec => []M!TypeOK
<1> DEFINE Inv == MatchInv /\ TokenCached /\ Filed
<1>1. M!Init => Inv
  BY MatchBegins, TokensBegin
<1>2. Inv /\ [M!Next]_(M!vars) => Inv'
  <2> SUFFICES ASSUME Inv, [M!Next]_(M!vars) PROVE Inv'
    OBVIOUS
  <2>1. CASE M!Next
    BY <2>1, MatchDoes, TokensKept, FiledKept DEF M!Next
  <2>2. CASE UNCHANGED M!vars
    <3>1. UNCHANGED <<tables, cardCaches, tokenCaches, product, filed, matches>>
      BY <2>2 DEF M!vars
    <3> QED BY <3>1 DEF MatchInv, CardCached, TokenCached, Filed, M!RowAt
  <2> QED BY <2>1, <2>2
<1>3. Inv => M!TypeOK
  BY DEF MatchInv, CardCached, TokenCached, Filed, M!TypeOK
<1> QED BY <1>1, <1>2, <1>3, PTL DEF M!Spec
=============================================================================
