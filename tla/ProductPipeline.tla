--------------------------- MODULE ProductPipeline ---------------------------
(***************************************************************************)
(* What happens to one shop's products in the tables: StorefrontProcessor's*)
(* processPage, reached by four handlers at once (discovery pages, the re- *)
(* extraction of unmatched products, the recovery of known offers and the  *)
(* refresh of cart products), and ExtractionService, which sends a product *)
(* to the listings (through the accumulator) or to unmatched_cards.  None  *)
(* of it is a transaction: every statement is a step of its own, and the   *)
(* answer of the shop is older than the rows it is written next to.        *)
(*                                                                         *)
(* Abstractions: a product has one variant, of which the stock is kept; a  *)
(* product that matches a token is left out, with the token tables; a job  *)
(* is followed for one product of its batch; titles, the extraction status *)
(* of a URL and the direct listing mapping, a second way from a product to *)
(* its listing, are left out.  A listing is written some time after it was handed *)
(* to the accumulator, in any order, or is lost with its process (see      *)
(* BatchAccumulator).                                                      *)
(***************************************************************************)
EXTENDS Integers, FiniteSets, FiniteSetsExt

CONSTANTS
    Product,     \* Shopify product IDs
    Handle,      \* handles; a handle stands for the product URL it has
    FirstHandle, \* the handle each product has at first
    Answer,      \* what the shop may say of a product: [match, stock]
    Slot,        \* jobs that run at a time
    Runs,        \* the handlers each slot runs: @Process has its own concurrency
    MaxLoad,     \* bound: jobs and buffered listings at a time
    MaxEdits,    \* bound: changes of the shop
    MaxFaults    \* bound: failed statements and crashes

Stock == {"in", "out"}

\* How the matchers judge what the shop says: a printing, only a name, nothing;
\* no variants; an art series; the product is gone from the shop.
Matches == {"printing", "name", "none", "empty", "art", "gone"}

Kinds == {"page", "reextract", "reextractSet", "recover", "refresh"}

ASSUME ShopAssumption ==
    /\ FirstHandle \in [Product -> Handle]
    /\ \A p, q \in Product : FirstHandle[p] = FirstHandle[q] => p = q
    /\ Answer \subseteq [match : Matches, stock : Stock]
    /\ Runs \in [Slot -> SUBSET Kinds]

ASSUME BoundAssumption ==
    /\ IsFiniteSet(Handle) /\ IsFiniteSet(Slot)
    /\ MaxLoad \in Nat \ {0} /\ MaxEdits \in Nat /\ MaxFaults \in Nat

VARIABLES
    shop,      \* what the shop would say of each product, and its handle
    row,       \* shopify_products: the product's URL and match status
    listing,   \* the listing of each URL: its stock, or "none"
    unmatched, \* URLs with rows in unmatched_cards
    pending,   \* how often each listing is buffered by the accumulators
    job,       \* what is in each slot
    given,     \* stock the shop has answered for each product so far
    edits, faults

vars == <<shop, row, listing, unmatched, pending, job, given, edits, faults>>

tables == <<row, listing, unmatched, pending>>

-----------------------------------------------------------------------------

NoRow == [status |-> "none", url |-> "none"]

\* The statuses the code writes: no result of an extraction is ever "token".
Statuses == {"matched", "unmatched", "excluded"}

Rows == {NoRow} \cup [status : Statuses, url : Handle]

\* What the accumulators hold: a listing for a URL.
Item == [url : Handle, stock : Stock]

Unanswered == [match |-> "gone", stock |-> "out"]

Idle == [step |-> "idle"]

Steps == {"fetch", "missing", "drop", "classify", "clear", "lookup", "extract", "save"}

\* A job: answer and handle are the shop's, as fetched; url is the product URL
\* chosen for it, known that its row was matched, left the deletes under way.
Job == [step : Steps, kind : Kinds, product : Product, answer : Answer \cup {Unanswered},
        handle : Handle \cup {"none"}, url : Handle \cup {"none"},
        known : BOOLEAN, left : SUBSET {"listing", "unmatched"},
        status : Statuses]

NewJob(kind, p) ==
    [step |-> "fetch", kind |-> kind, product |-> p, answer |-> Unanswered,
     handle |-> "none", url |-> row[p].url, known |-> FALSE, left |-> {},
     status |-> "unmatched"]

Busy == {s \in Slot : job[s] # Idle}

Load == Cardinality(Busy) + MapThenSumSet(LAMBDA i : pending[i], Item)

Init ==
    /\ \E a \in [Product -> Answer] :
        shop = [p \in Product |-> [answer |-> a[p], handle |-> FirstHandle[p]]]
    /\ row = [p \in Product |-> NoRow]
    /\ listing = [u \in Handle |-> "none"]
    /\ unmatched = {}
    /\ pending = [i \in Item |-> 0]
    /\ job = [s \in Slot |-> Idle]
    /\ given = [p \in Product |-> {}]
    /\ edits = 0 /\ faults = 0

\* The shop changes a product; it may rename it to a handle that is free.
Edit(p) ==
    /\ edits < MaxEdits
    /\ \E a \in Answer, h \in Handle :
        /\ \A q \in Product \ {p} : shop[q].handle # h
        /\ shop[p] # [answer |-> a, handle |-> h]
        /\ shop' = [shop EXCEPT ![p] = [answer |-> a, handle |-> h]]
    /\ edits' = edits + 1
    /\ UNCHANGED <<tables, job, given, faults>>

-----------------------------------------------------------------------------
(* The handlers up to processPage. *)

At(s, step) == job[s].step = step

End(s) == job' = [job EXCEPT ![s] = Idle]

\* The products a handler works on.
Chosen(kind, p) ==
    \/ kind = "page" /\ shop[p].answer.match # "gone"
    \/ kind = "reextract" /\ row[p].status = "unmatched"
    \/ kind = "reextractSet" /\ row[p].status = "unmatched" /\ row[p].url \in unmatched
    \/ kind = "recover" /\ row[p].status = "matched" /\ listing[row[p].url] # "none"
    \/ kind = "refresh" /\ row[p] # NoRow /\ listing[row[p].url] # "none"

Start(s, kind, p) ==
    /\ job[s] = Idle /\ kind \in Runs[s] /\ Chosen(kind, p)
    /\ Load < MaxLoad
    /\ job' = [job EXCEPT ![s] = NewJob(kind, p)]
    /\ UNCHANGED <<shop, tables, given, edits, faults>>

ByExactID(kind) == kind \in {"recover", "refresh"}

Reextracts(kind) == kind \in {"reextract", "reextractSet"}

\* Where a handler goes with the shop's answer.  A re-extraction goes on to its
\* delete also for a product that is gone, if others of its batch are not.
AfterFetch(kind, match) ==
    IF Reextracts(kind)
    THEN IF match = "gone" THEN {"idle", "drop"} ELSE {"drop"}
    ELSE IF match # "gone" THEN {"classify"}
    ELSE IF ByExactID(kind) THEN {"missing"} ELSE {"idle"}

\* Mutant: a known product that the shop does not serve, for any reason, is
\* taken to be gone.
FetchGuessing(s) ==
    /\ At(s, "fetch")
    /\ LET j == job[s]
           a == shop[j.product].answer
       IN  \E step \in AfterFetch(j.kind, a.match) \cup
                        (IF ByExactID(j.kind) THEN {"missing"} ELSE {}) :
            /\ job' = [job EXCEPT ![s] = IF step = "idle" THEN Idle
                        ELSE [j EXCEPT !.step = step, !.answer = a,
                                       !.handle = shop[j.product].handle]]
            /\ given' = [given EXCEPT ![j.product] =
                            IF step = "missing" THEN @ ELSE @ \cup {a.stock}]
    /\ UNCHANGED <<shop, tables, edits, faults>>

Fetch(s) ==
    /\ At(s, "fetch")
    /\ LET j == job[s]
           a == shop[j.product].answer
       IN  /\ \E step \in AfterFetch(j.kind, a.match) :
                job' = [job EXCEPT ![s] = IF step = "idle" THEN Idle
                        ELSE [j EXCEPT !.step = step, !.answer = a,
                                       !.handle = shop[j.product].handle]]
           /\ given' = [given EXCEPT ![j.product] =
                            @ \cup {IF a.match = "gone" THEN "out" ELSE a.stock}]
    /\ UNCHANGED <<shop, tables, edits, faults>>

\* "Only a successful exact-ID response is evidence of absence."
MarkMissing(s) ==
    /\ At(s, "missing")
    /\ LET u == job[s].url
       IN  listing' = [listing EXCEPT ![u] = IF @ = "none" THEN @ ELSE "out"]
    /\ End(s)
    /\ UNCHANGED <<shop, row, unmatched, pending, given, edits, faults>>

\* Mutant: the batch is given up after its delete.
DropOnly(s) ==
    /\ At(s, "drop")
    /\ unmatched' = unmatched \ {job[s].url}
    /\ End(s)
    /\ UNCHANGED <<shop, row, listing, pending, given, edits, faults>>

\* reextractUnmatched drops the stale rows of its batch.
Drop(s) ==
    /\ At(s, "drop")
    /\ unmatched' = unmatched \ {job[s].url}
    /\ IF job[s].answer.match = "gone" THEN End(s)
       ELSE job' = [job EXCEPT ![s].step = "classify"]
    /\ UNCHANGED <<shop, row, listing, pending, given, edits, faults>>

-----------------------------------------------------------------------------
(* processPage and processExtractedVariants. *)

\* An art series product goes to excludeArtSeriesProducts, which upserts the
\* URL of its present handle; every other product is looked up.
Classify(s) ==
    /\ At(s, "classify")
    /\ LET j == job[s]
       IN  job' = [job EXCEPT ![s] = IF j.answer.match = "art"
                THEN [j EXCEPT !.step = "clear", !.url = j.handle,
                               !.left = {"listing", "unmatched"}, !.status = "excluded"]
                ELSE [j EXCEPT !.step = "lookup"]]
    /\ UNCHANGED <<shop, tables, given, edits, faults>>

\* The deletes of a Promise.all, and the upsert of the row once both are done.
Cleared(s, what) ==
    /\ At(s, "clear") /\ what \in job[s].left
    /\ job' = [job EXCEPT ![s].left = @ \ {what},
                          ![s].step = IF job[s].left = {what} THEN "save" ELSE "clear"]
    /\ UNCHANGED <<shop, row, pending, given, edits, faults>>

ClearListing(s) ==
    /\ Cleared(s, "listing")
    /\ listing' = [listing EXCEPT ![job[s].url] = "none"]
    /\ UNCHANGED unmatched

ClearUnmatched(s) ==
    /\ Cleared(s, "unmatched")
    /\ unmatched' = unmatched \ {job[s].url}
    /\ UNCHANGED listing

\* Mutant: any product with a row is taken to be known.
IsKnownByRow(p) == row[p] # NoRow

IsKnown(p) == row[p].status = "matched"

\* Known products keep the URL of their row, whatever their handle is now.
Lookup(s) ==
    /\ At(s, "lookup")
    /\ LET p == job[s].product
       IN  job' = [job EXCEPT ![s].step = "extract", ![s].known = IsKnown(p),
                ![s].url = IF IsKnown(p) THEN row[p].url ELSE job[s].handle]
    /\ UNCHANGED <<shop, tables, given, edits, faults>>

\* The match status of a product that went through the full pipeline.
StatusOf(match) == IF match = "printing" THEN "matched" ELSE "unmatched"

\* What an extraction hands on: a listing to the accumulator, rows to
\* unmatched_cards, or, without variants, nothing.
HandOver(url, a) ==
    /\ pending' = IF a.match \in {"printing", "name"}
                  THEN [pending EXCEPT ![[url |-> url, stock |-> a.stock]] = @ + 1]
                  ELSE pending
    /\ unmatched' = IF a.match = "none" THEN unmatched \cup {url} ELSE unmatched

\* A known product is finished; the row of another is upserted.
AfterExtract(s, status) ==
    IF job[s].known THEN End(s)
    ELSE job' = [job EXCEPT ![s].step = "save", ![s].status = status]

Extract(s) ==
    /\ At(s, "extract")
    /\ HandOver(job[s].url, job[s].answer)
    /\ AfterExtract(s, StatusOf(job[s].answer.match))
    /\ UNCHANGED <<shop, row, listing, given, edits, faults>>

\* A statement of the extraction fails, before or after the hand-over, and
\* processExtractedVariants catches it: the product is stored as unmatched.
ExtractFails(s) ==
    /\ At(s, "extract") /\ faults < MaxFaults
    /\ \/ job[s].answer.match # "none" /\ HandOver(job[s].url, job[s].answer)
       \/ UNCHANGED <<pending, unmatched>>
    /\ AfterExtract(s, "unmatched")
    /\ faults' = faults + 1
    /\ UNCHANGED <<shop, row, listing, given, edits>>

\* What fails after the hand-over to unmatched_cards is not caught there, since
\* handleTokenProduct is returned without an await: no row is stored.
TokenStepFails(s) ==
    /\ At(s, "extract") /\ job[s].answer.match = "none" /\ faults < MaxFaults
    /\ HandOver(job[s].url, job[s].answer)
    /\ End(s)
    /\ faults' = faults + 1
    /\ UNCHANGED <<shop, row, listing, given, edits>>

\* bulkUpsertShopifyProducts: on a conflict the row keeps its product URL.
Save(s) ==
    /\ At(s, "save")
    /\ LET j == job[s]
       IN  row' = [row EXCEPT ![j.product] =
                    [status |-> j.status, url |-> IF @ = NoRow THEN j.url ELSE @.url]]
    /\ End(s)
    /\ UNCHANGED <<shop, listing, unmatched, pending, given, edits, faults>>

-----------------------------------------------------------------------------
(* The accumulators, and what goes wrong. *)

Flush(i) ==
    /\ pending[i] > 0
    /\ pending' = [pending EXCEPT ![i] = @ - 1]
    /\ listing' = [listing EXCEPT ![i.url] = i.stock]
    /\ UNCHANGED <<shop, row, unmatched, job, given, edits, faults>>

\* A statement of a job, or the request to the shop, fails: the handler gives
\* up this batch.
Abort(s) ==
    /\ job[s] # Idle /\ faults < MaxFaults
    /\ End(s)
    /\ faults' = faults + 1
    /\ UNCHANGED <<shop, tables, given, edits>>

\* The worker goes down with its jobs and what its accumulators hold; some of
\* the buffered listings may be another worker's.
Crash ==
    /\ faults < MaxFaults
    /\ pending' \in {k \in [Item -> 0 .. MaxLoad] : \A i \in Item : k[i] <= pending[i]}
    /\ job' = [s \in Slot |-> Idle]
    /\ faults' = faults + 1
    /\ UNCHANGED <<shop, row, listing, unmatched, given, edits>>

Work(s) ==
    \/ Fetch(s) \/ MarkMissing(s) \/ Drop(s)
    \/ Classify(s) \/ ClearListing(s) \/ ClearUnmatched(s)
    \/ Lookup(s) \/ Extract(s) \/ Save(s)

Next ==
    \/ \E p \in Product : Edit(p)
    \/ \E s \in Slot, kind \in Kinds, p \in Product : Start(s, kind, p)
    \/ \E s \in Slot : Work(s) \/ ExtractFails(s) \/ TokenStepFails(s) \/ Abort(s)
    \/ \E i \in Item : Flush(i)
    \/ Crash

Spec == Init /\ [][Next]_vars

\* Jobs that have begun go on, the accumulators flush, and the discovery of
\* the catalogue, which the scheduler starts every day, comes by every product
\* again and again.  No other handler is promised to run.
FairSpec ==
    /\ Spec
    /\ \A s \in Slot : WF_vars(Work(s))
    /\ \A i \in Item : WF_vars(Flush(i))
    /\ \A p \in Product : SF_vars(\E s \in Slot : Start(s, "page", p))

-----------------------------------------------------------------------------

\* Rows, listings, buffers and jobs are well formed: in particular the match
\* status that bulkUpsertShopifyProducts writes is one of the entity's.
TypeOK ==
    /\ \A p \in Product : shop[p].answer \in Answer /\ shop[p].handle \in Handle
    /\ row \in [Product -> Rows]
    /\ listing \in [Handle -> Stock \cup {"none"}]
    /\ unmatched \subseteq Handle
    /\ pending \in [Item -> Nat]
    /\ \A s \in Slot : job[s] = Idle \/ job[s] \in Job
    /\ given \in [Product -> SUBSET Stock]
    /\ edits \in 0 .. MaxEdits /\ faults \in 0 .. MaxFaults

\* An offer shows only what the shop has said: neither an outage of the shop
\* nor a crash between two statements marks a product out of stock or in stock
\* (the rule stated in recoverKnownOffers and refreshCartProducts).
OffersFromAnswers ==
    \A u \in Handle : listing[u] # "none" =>
        listing[u] \in UNION {given[p] : p \in Product}

Matched(p) == row[p].status = "matched"

\* The URL where an offer of a product belongs.
Target(p) == IF Matched(p) THEN row[p].url ELSE shop[p].handle

\* Once the shop and the faults have settled, a product that has a card is
\* offered with the shop's stock, and one that has a printing is stored as
\* matched: whatever races, lost buffers and half-done jobs left behind
\* (processPage, processExtractedVariants).
OffersRepaired ==
    \A p \in Product : <>[](shop[p].answer.match \in {"printing", "name"} =>
        /\ listing[Target(p)] = shop[p].answer.stock
        /\ shop[p].answer.match = "printing" => Matched(p))

\* A product found to be an art series ends up excluded, with no listing and
\* no unmatched card at its URL, even if an older extraction of it was still
\* buffered when it was excluded (excludeArtSeriesProducts).
ExclusionRepaired ==
    \A p \in Product : <>[](shop[p].answer.match = "art" =>
        /\ row[p].status = "excluded"
        /\ listing[shop[p].handle] = "none"
        /\ shop[p].handle \notin unmatched)

\* A job that has dropped unmatched rows of p and has yet to write new ones.
Rewriting(s, p) ==
    /\ job[s] # Idle /\ job[s].product = p /\ Reextracts(job[s].kind)
    /\ job[s].step \in {"classify", "lookup", "extract"}

\* A product that matches nothing can, in the end, always be found among the
\* unmatched cards, but for the moment between a re-extraction's delete and its
\* insert (reextractUnmatched, handleTokenProduct).
UnmatchedRepaired ==
    \A p \in Product : <>[](shop[p].answer.match = "none" =>
        Target(p) \in unmatched \/ \E s \in Slot : Rewriting(s, p))

\* What is not offered is marked as what it is, in the end: both of the above
\* (processPage, reextractUnmatched).
MarksRepaired == ExclusionRepaired /\ UnmatchedRepaired

\* What ShopifyProduct's comment says: "Subsequent extractions: PK lookup ->
\* skip matcher -> just update variants."  Then the offer of a matched product
\* would in the end show the shop's stock, whatever became of its title.
KnownUpdated ==
    \A p \in Product : <>[](
        (Matched(p) /\ shop[p].answer.match \in {"printing", "name", "none"})
            => listing[row[p].url] = shop[p].answer.stock)
=============================================================================
