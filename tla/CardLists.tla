------------------------------- MODULE CardLists -------------------------------
(***************************************************************************)
(* The card lists of one owner: the rows behind api ListsService, the      *)
(* refresh cooldown of ListRefreshService, and the lists a browser tab     *)
(* shows (ui-v2 ListsContext), which changes them before the server does   *)
(* and rolls back when a request fails.                                    *)
(*                                                                         *)
(* calls holds the requests in the order they were sent, by the tab or by  *)
(* another client of the owner; each is served one statement at a time,    *)
(* outside any transaction.                                                *)
(*                                                                         *)
(* Left out: prices and filters of the lists, visibility, other owners     *)
(* (refused by findOwnedList), and the undo history of useListEditor,      *)
(* which repeats additions and removals.                                   *)
(***************************************************************************)
EXTENDS Naturals, FiniteSets, SequencesExt

CONSTANTS
    List,        \* rows of card_lists that can be created
    Card,        \* names of cards
    Known,       \* names the catalogue resolves
    Name,        \* names of lists
    Stored,      \* the lists at the start: row -> name and cards, or None
    MaxLists,    \* lists an owner may have
    MaxLength,   \* bound: cards of a list
    Contents,    \* bound: cards of a new list, and of another client's replacement
    InOrder,     \* the tab's requests are served and answered in order
    MaxCalls,    \* bound: requests under way
    MaxSent,     \* bound: requests of the tab and of the other client
    MaxEvents,   \* bound: failures, expiries, ends of the cooldown
    None

VARIABLES
    row,         \* row[l]: name, entries by position, whether it has expired
    shown,       \* shown[l]: the name and the cards the tab shows, or None
    calls,       \* requests under way
    cooldown,    \* the owner's refresh key is set
    refreshes,   \* history: refresh jobs queued under the present key
    filled,      \* history: rows that have had entries
    overlapped,  \* history: a request was sent while another was under way
    broken,      \* history: a request was cut short
    disturbed,   \* history: a request of the tab failed, or another client wrote
    sent, events

vars == <<row, shown, calls, cooldown, refreshes, filled, overlapped, broken,
          disturbed, sent, events>>

Cards == UNION {[1 .. n -> Card] : n \in 0 .. MaxLength}
Entries == UNION {[positions -> Card] : positions \in SUBSET (1 .. MaxLength)}
Rows == [name : Name, entries : Entries, expired : BOOLEAN]
Views == [name : Name, cards : Cards]
Ops == {"create", "replace", "add", "rename", "filters", "delete", "get", "getNew", "refresh"}
Places == {"sent", "found", "counted", "saved", "deleted", "placed", "inserted",
           "claimed", "queued", "answered", "failed"}

\* What is assumed of the constants: the lists of the start have cards, and are not
\* too many; a bound on the length leaves room for one card.
ListsAssumption ==
    /\ IsFiniteSet(List) /\ MaxLists \in Nat
    /\ MaxLength \in Nat \ {0} /\ Known \subseteq Card /\ Contents \subseteq Cards
    /\ Stored \in [List -> {v \in Views : v.cards # <<>>} \cup {None}]
    /\ Cardinality({l \in List : Stored[l] # None}) <= MaxLists
    /\ None \notin List \cup Rows \cup Views \cup [List -> Views \cup {None}]
    /\ MaxSent \in Nat /\ MaxEvents \in Nat

Live(l) == row[l] # None /\ ~row[l].expired
\* How many positions up to p are taken.
Rank(p, taken) == Cardinality({q \in taken : q <= p})
\* The entries of a list by position.
InPositions(entries) ==
    LET taken == DOMAIN entries
    IN [i \in 1 .. Cardinality(taken) |-> entries[CHOOSE p \in taken : Rank(p, taken) = i]]
\* The cards the catalogue knows, in their order.
Resolved(cards) == InPositions(Restrict(cards, {i \in DOMAIN cards : cards[i] \in Known}))

Init ==
    /\ row = [l \in List |->
                IF Stored[l] = None THEN None
                ELSE [name |-> Stored[l].name, entries |-> Stored[l].cards, expired |-> FALSE]]
    /\ shown = Stored /\ calls = <<>>
    /\ cooldown = FALSE /\ refreshes = 0
    /\ filled = {l \in List : Stored[l] # None}
    /\ overlapped = FALSE /\ broken = FALSE /\ disturbed = FALSE
    /\ sent = 0 /\ events = 0

Indices == DOMAIN calls
Call(op, tab, l, name, cards) ==
    [op |-> op, tab |-> tab, list |-> l, name |-> name, cards |-> cards,
     before |-> None, position |-> 0, at |-> "sent"]

Send(call) ==
    /\ sent < MaxSent /\ sent' = sent + 1
    /\ Len(calls) < MaxCalls
    /\ calls' = Append(calls, call)
    /\ overlapped' = (overlapped \/ calls # <<>>)
    /\ UNCHANGED <<row, cooldown, refreshes, filled, broken, events>>

-----------------------------------------------------------------------------
(* The tab: ListsContext. *)

Shown == {l \in List : shown[l] # None}

Save(name, cards) ==
    /\ cards # <<>> /\ Cardinality(Shown) < MaxLists
    /\ Send(Call("create", TRUE, None, name, cards))
    /\ UNCHANGED <<shown, disturbed>>

\* What the tab shows at once, and what it goes back to when the request fails.
Optimistic(l, op, name, cards, view) ==
    /\ Send([Call(op, TRUE, l, name, cards) EXCEPT !.before = shown])
    /\ shown' = [shown EXCEPT ![l] = view]
    /\ UNCHANGED disturbed

Rename(l, name) ==
    /\ l \in Shown /\ shown[l].name # name
    /\ Optimistic(l, "rename", name, <<>>, [shown[l] EXCEPT !.name = name])

RemoveList(l) ==
    /\ l \in Shown
    /\ Optimistic(l, "delete", None, <<>>, None)

AddCardToList(l, c) ==
    /\ l \in Shown /\ Len(shown[l].cards) < MaxLength
    /\ LET cards == Append(shown[l].cards, c)
       IN Optimistic(l, "replace", None, cards, [shown[l] EXCEPT !.cards = cards])

\* The last card of a list is not removed.
RemoveCardFromList(l, i) ==
    /\ l \in Shown /\ i \in DOMAIN shown[l].cards /\ Len(shown[l].cards) > 1
    /\ LET cards == RemoveAt(shown[l].cards, i)
       IN Optimistic(l, "replace", None, cards, [shown[l] EXCEPT !.cards = cards])

AddCardToListById(l, c) ==
    /\ l \in Shown
    /\ Send(Call("add", TRUE, l, None, <<c>>))
    /\ UNCHANGED <<shown, disturbed>>

\* Another client of the same owner.
Foreign(op, l, name, cards) ==
    /\ Send(Call(op, FALSE, l, name, cards))
    /\ disturbed' = TRUE
    /\ UNCHANGED shown

-----------------------------------------------------------------------------
(* The API, one statement at a time. *)

At(i, ops, place) ==
    /\ calls[i].op \in ops /\ calls[i].at = place
    /\ InOrder /\ calls[i].tab =>
          \A j \in 1 .. (i - 1) : calls[j].tab => calls[j].at \in {"answered", "failed"}
Move(i, place) == calls' = [calls EXCEPT ![i].at = place]
Served == UNCHANGED <<shown, overlapped, broken, disturbed, sent, events>>
Written == Served /\ UNCHANGED <<cooldown, refreshes>>
ReadOnly == Written /\ UNCHANGED <<row, filled>>

\* Mutant: a replacement by nothing is let through.
AcceptedAlways(call) == TRUE

\* replaceCards refuses cards of which none is known.
Accepted(call) ==
    /\ call.op = "replace" => Resolved(call.cards) # <<>>
    /\ call.op = "refresh" => DOMAIN row[call.list].entries # {}

\* findOwnedList, with what the handler checks before it writes; a rename keeps
\* its name, a change of the filters the name it has read.
FindOwnedList(i) ==
    /\ At(i, Ops \ {"create", "get", "getNew"}, "sent")
    /\ LET l == calls[i].list IN
       IF Live(l) /\ Accepted(calls[i])
       THEN calls' = [calls EXCEPT ![i].at = "found",
                                   ![i].name = IF calls[i].op = "filters"
                                               THEN row[l].name ELSE @]
       ELSE Move(i, "failed")
    /\ ReadOnly

\* Mutant: one list too many is let in.
AtLimitLate == Cardinality({l \in List : Live(l)}) > MaxLists

\* createList counts the owner's lists that have not expired.
AtLimit == Cardinality({l \in List : Live(l)}) >= MaxLists

CountLists(i) ==
    /\ At(i, {"create"}, "sent")
    /\ Move(i, IF AtLimit THEN "failed" ELSE "counted")
    /\ ReadOnly

SaveNewList(i) ==
    /\ At(i, {"create"}, "counted")
    /\ \E l \in List :
         /\ row[l] = None /\ shown[l] = None /\ \A j \in Indices : calls[j].list # l
         /\ row' = [row EXCEPT ![l] = [name |-> calls[i].name, entries |-> <<>>,
                                       expired |-> FALSE]]
         /\ calls' = [calls EXCEPT ![i].list = l, ![i].at = "saved"]
    /\ UNCHANGED filled /\ Written

\* The entries with more of them.
With(entries, more) ==
    [p \in DOMAIN entries \cup DOMAIN more |-> IF p \in DOMAIN more THEN more[p] ELSE entries[p]]

\* All entries are inserted in one statement, at the first positions; a list
\* that is gone or a position that is taken fails it.
InsertEntries(i) ==
    LET l == calls[i].list
        entries == Resolved(calls[i].cards)
        clash == row[l] = None \/ DOMAIN entries \cap DOMAIN row[l].entries # {}
    IN
    /\ \/ At(i, {"create"}, "saved")
       \/ At(i, {"replace"}, "deleted")
    /\ IF entries # <<>> /\ clash
       THEN Move(i, "failed") /\ UNCHANGED <<row, filled>>
       ELSE /\ row' = IF entries = <<>> THEN row
                      ELSE [row EXCEPT ![l].entries = With(@, entries)]
            /\ filled' = IF entries = <<>> THEN filled ELSE filled \cup {l}
            /\ Move(i, IF calls[i].op = "create" THEN "answered" ELSE "inserted")
    /\ Written

\* replaceCards first deletes the entries.
DeleteEntries(i) ==
    LET l == calls[i].list IN
    /\ At(i, {"replace"}, "found")
    /\ row' = IF row[l] = None THEN row ELSE [row EXCEPT ![l].entries = <<>>]
    /\ Move(i, "deleted")
    /\ UNCHANGED filled /\ Written

\* The position behind the last one.
Behind(taken) == 1 + Max(taken \cup {0})

\* addCardById: the position behind the last one, then the entry.
NextPosition(i) ==
    LET l == calls[i].list
        taken == IF row[l] = None THEN {} ELSE DOMAIN row[l].entries
        next == Behind(taken)
    IN
    /\ At(i, {"add"}, "found") /\ next <= MaxLength
    /\ calls' = [calls EXCEPT ![i].position = next, ![i].at = "placed"]
    /\ ReadOnly

InsertEntry(i) ==
    LET l == calls[i].list
        at == calls[i].position
    IN
    /\ At(i, {"add"}, "placed")
    /\ IF row[l] = None \/ at \in DOMAIN row[l].entries
       THEN Move(i, "failed") /\ UNCHANGED <<row, filled>>
       ELSE /\ row' = [row EXCEPT ![l].entries = With(@, [p \in {at} |-> calls[i].cards[1]])]
            /\ filled' = filled \cup {l}
            /\ Move(i, "inserted")
    /\ Written

\* Every change of a list gives it another thirty days.
TouchExpiry(i) ==
    LET l == calls[i].list IN
    /\ At(i, {"replace", "add"}, "inserted")
    /\ row' = IF row[l] = None THEN row ELSE [row EXCEPT ![l].expired = FALSE]
    /\ Move(i, "answered")
    /\ UNCHANGED filled /\ Written

\* updateName and updateFilters save the entity they have loaded: the name they
\* hold is written, and a row deleted meanwhile is inserted again, without its
\* entries.
SaveList(i) ==
    LET l == calls[i].list IN
    /\ At(i, {"rename", "filters"}, "found")
    /\ row' = [row EXCEPT ![l] =
                  [name |-> calls[i].name, expired |-> FALSE,
                   entries |-> IF @ = None THEN <<>> ELSE @.entries]]
    /\ filled' = IF row[l] = None THEN filled \ {l} ELSE filled
    /\ Move(i, "answered")
    /\ Written

DeleteList(i) ==
    /\ At(i, {"delete"}, "found")
    /\ row' = [row EXCEPT ![calls[i].list] = None]
    /\ filled' = filled \ {calls[i].list}
    /\ Move(i, "answered")
    /\ Written

\* getListWithPrices.
GetList(i) ==
    LET l == calls[i].list IN
    /\ At(i, {"get", "getNew"}, "sent")
    /\ IF Live(l)
       THEN calls' = [calls EXCEPT ![i].at = "answered", ![i].name = row[l].name,
                                   ![i].cards = InPositions(row[l].entries)]
       ELSE Move(i, "failed")
    /\ ReadOnly

\* Mutant: a key that is set already is overwritten.
ClaimableAlways == TRUE

\* ListRefreshService.request: SET NX, the job, and the key again.
Claimable == ~cooldown

Claim(i) ==
    /\ At(i, {"refresh"}, "found")
    /\ cooldown' = TRUE
    /\ Move(i, IF Claimable THEN "claimed" ELSE "failed")
    /\ UNCHANGED <<row, filled, refreshes>> /\ Served

EnqueueRefresh(i) ==
    /\ At(i, {"refresh"}, "claimed")
    /\ refreshes' = refreshes + 1
    /\ Move(i, "queued")
    /\ UNCHANGED <<row, filled, cooldown>> /\ Served

MarkRefresh(i) ==
    /\ At(i, {"refresh"}, "queued")
    /\ cooldown' = TRUE
    /\ Move(i, "answered")
    /\ UNCHANGED <<row, filled, refreshes>> /\ Served

-----------------------------------------------------------------------------
(* Answers. *)

Done(i) ==
    /\ calls[i].at \in {"answered", "failed"}
    /\ InOrder /\ calls[i].tab => \A j \in 1 .. (i - 1) : ~calls[j].tab
Received == UNCHANGED <<row, cooldown, refreshes, filled, overlapped, broken, sent, events>>
Without(i) == RemoveAt(calls, i)

Ignored(i) ==
    /\ Done(i)
    /\ \/ ~calls[i].tab
       \/ calls[i].at = "answered" /\ calls[i].op \in {"rename", "delete"}
    /\ calls' = Without(i)
    /\ Received /\ UNCHANGED <<shown, disturbed>>

\* After a write of cards, and after a creation, the tab fetches the list.
FetchList(i) ==
    /\ Done(i) /\ calls[i].tab /\ calls[i].at = "answered"
    /\ calls[i].op \in {"create", "replace", "add"}
    /\ calls' = Append(Without(i), [calls[i] EXCEPT !.op = IF @ = "create" THEN "getNew" ELSE "get",
                                                    !.at = "sent"])
    /\ Received /\ UNCHANGED <<shown, disturbed>>

\* Mutant: the name is taken over too.
FetchedWhole(call) ==
    IF call.op = "get" /\ shown[call.list] = None THEN shown
    ELSE [shown EXCEPT ![call.list] = [name |-> call.name, cards |-> call.cards]]

\* A new list is appended; of one that is still shown the cards are replaced.
Fetched(call) ==
    CASE call.op = "getNew" ->
           [shown EXCEPT ![call.list] = [name |-> call.name, cards |-> call.cards]]
      [] call.op = "get" /\ shown[call.list] # None ->
           [shown EXCEPT ![call.list].cards = call.cards]
      [] OTHER -> shown

ShowList(i) ==
    /\ Done(i) /\ calls[i].tab /\ calls[i].at = "answered"
    /\ calls[i].op \in {"get", "getNew"}
    /\ shown' = Fetched(calls[i])
    /\ calls' = Without(i)
    /\ Received /\ UNCHANGED disturbed

\* A failed deletion puts all lists back as they were, a failed rename the name,
\* a failed write of cards the cards.
RolledBack(call) ==
    LET l == call.list IN
    CASE call.op = "delete" -> call.before
      [] call.op = "rename" /\ shown[l] # None ->
           [shown EXCEPT ![l].name = call.before[l].name]
      [] call.op \in {"replace", "get"} /\ call.before # None /\ shown[l] # None ->
           [shown EXCEPT ![l].cards = call.before[l].cards]
      [] OTHER -> shown

RollBack(i) ==
    /\ Done(i) /\ calls[i].tab /\ calls[i].at = "failed"
    /\ shown' = RolledBack(calls[i])
    /\ disturbed' = TRUE
    /\ calls' = Without(i)
    /\ Received

-----------------------------------------------------------------------------
(* Faults and time. *)

Event == events < MaxEvents /\ events' = events + 1

\* A request is cut short; a refresh that reports an error gives its key back,
\* one whose process dies does not.
Break(i) ==
    /\ Event
    /\ calls[i].at \notin {"answered", "failed"}
    /\ Move(i, "failed") /\ broken' = TRUE
    /\ cooldown' \in {cooldown} \cup
          (IF calls[i].at \in {"claimed", "queued"} THEN {FALSE} ELSE {})
    /\ UNCHANGED <<row, shown, refreshes, filled, overlapped, disturbed, sent>>

Expire(l) ==
    /\ Event
    /\ Live(l)
    /\ row' = [row EXCEPT ![l].expired = TRUE]
    /\ disturbed' = TRUE
    /\ UNCHANGED <<shown, calls, cooldown, refreshes, filled, overlapped, broken, sent>>

\* Five minutes: longer than a request takes.
CooldownEnds ==
    /\ Event
    /\ cooldown /\ \A i \in Indices : calls[i].at \notin {"claimed", "queued"}
    /\ cooldown' = FALSE /\ refreshes' = 0
    /\ UNCHANGED <<row, shown, calls, filled, overlapped, broken, disturbed, sent>>

-----------------------------------------------------------------------------

Tab ==
    \/ \E name \in Name, cards \in Contents : Save(name, cards)
    \/ \E l \in List :
         \/ RemoveList(l)
         \/ \E name \in Name : Rename(l, name)
         \/ \E c \in Card : AddCardToList(l, c)
         \/ \E c \in Known : AddCardToListById(l, c)
         \/ \E i \in 1 .. MaxLength : RemoveCardFromList(l, i)
Other ==
    \/ \E name \in Name, cards \in Contents : Foreign("create", None, name, cards)
    \/ \E l \in List :
         \/ \E cards \in Contents : Foreign("replace", l, None, cards)
         \/ \E c \in Known : Foreign("add", l, None, <<c>>)
         \/ \E name \in Name : Foreign("rename", l, name, <<>>)
         \/ \E op \in {"filters", "delete", "refresh"} : Foreign(op, l, None, <<>>)
Serve(i) ==
    \/ FindOwnedList(i) \/ CountLists(i) \/ SaveNewList(i) \/ InsertEntries(i)
    \/ DeleteEntries(i) \/ NextPosition(i) \/ InsertEntry(i) \/ TouchExpiry(i)
    \/ SaveList(i) \/ DeleteList(i) \/ GetList(i)
    \/ Claim(i) \/ EnqueueRefresh(i) \/ MarkRefresh(i)
Answer(i) == Ignored(i) \/ FetchList(i) \/ ShowList(i) \/ RollBack(i)

Next ==
    \/ Tab \/ Other
    \/ \E i \in Indices : Serve(i) \/ Answer(i) \/ Break(i)
    \/ \E l \in List : Expire(l)
    \/ CooldownEnds

Spec == Init /\ [][Next]_vars

-----------------------------------------------------------------------------
(* Properties. *)

Quiet == calls = <<>>

TypeOK ==
    /\ row \in [List -> Rows \cup {None}]
    /\ shown \in [List -> Views \cup {None}]
    /\ \A i \in Indices : calls[i].op \in Ops /\ calls[i].at \in Places
    /\ cooldown \in BOOLEAN /\ refreshes \in Nat
    /\ filled \subseteq List
    /\ {overlapped, broken, disturbed} \subseteq BOOLEAN

\* No edit empties a list: replacements, additions and failed inserts of several
\* clients in any order leave a card in every list that had one, unless a request
\* is cut short between replaceCards' delete and its insert.
NeverEmptied ==
    Quiet /\ ~broken =>
        \A l \in filled : row[l] # None => DOMAIN row[l].entries # {}

\* The limit of lists is exceeded only by requests that overlap (createList counts
\* before it inserts).
LimitHeldAlone == Cardinality({l \in List : Live(l)}) > MaxLists => overlapped

\* A tab that is alone, whose requests are served in order and did not fail, shows
\* the stored lists once it is quiet, whatever it changed meanwhile.
ShownIsStored ==
    Quiet /\ ~broken /\ ~disturbed =>
        \A l \in List :
            IF row[l] = None THEN shown[l] = None
            ELSE shown[l] = [name |-> row[l].name, cards |-> InPositions(row[l].entries)]

\* A refresh is queued at most once while its key lives, unless a request was cut
\* short (list-refresh gives the key back on any error).
RefreshedOnce == ~broken => refreshes <= 1
=============================================================================
