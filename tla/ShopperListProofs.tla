--------------------------- MODULE ShopperListProofs ---------------------------
(***************************************************************************)
(* Proofs about the card lists of Shopper, for any rows, names, cards,     *)
(* lengths and limits, any number of requests of the tab and of other      *)
(* clients, failures and expiries; the tab's requests are served in order. *)
(* The last part puts the proofs of all of Shopper's parts together.       *)
(***************************************************************************)
EXTENDS ShopperCartProofs, SequenceTheorems, WellFoundedInduction, TLAPS

-----------------------------------------------------------------------------
(* Rows of requests, and positions.                                         *)

LEMMA ListRemoval ==
    ASSUME NEW S, NEW cs \in Seq(S), NEW i \in 1 .. Len(cs)
    PROVE  /\ L!RemoveAt(cs, i) \in Seq(S) /\ Len(L!RemoveAt(cs, i)) = Len(cs) - 1
           /\ \A j \in 1 .. Len(L!RemoveAt(cs, i)) : L!RemoveAt(cs, i)[j] = cs[Moved(i, j)]
BY RestFacts DEF L!RemoveAt, Rest

\* Sets are as finite and as large in CardLists as here.
LEMMA ListSets == \A S : (L!IsFiniteSet(S) <=> IsFiniteSet(S)) /\ L!Cardinality(S) = Cardinality(S)
BY DEF L!IsFiniteSet, IsFiniteSet, L!Cardinality, Cardinality

-----------------------------------------------------------------------------
(* CardLists: what is stored and sent.  The cards of a list by position are *)
(* those of the positions taken, each found by how many lie before it.      *)

LEMMA MaxFacts ==
    ASSUME NEW S \in SUBSET Nat, NEW b \in Nat, \A x \in S : x <= b, S # {}
    PROVE  L!Max(S) \in S /\ \A y \in S : y <= L!Max(S)
<1> DEFINE R == {ss \in Nat \X Nat : ss[1] < ss[2]}
           T == {c \in Nat : \A x \in S : x <= c}
<1>1. IsWellFoundedOn(R, Nat)
  BY NatLessThanWellFounded DEF OpToRel
<1>2. T \subseteq Nat /\ T # {}
  OBVIOUS
<1>3. \E c \in T : \A y \in T : ~(<<y, c>> \in R)
  <2> HIDE DEF R, T
  <2> QED BY <1>1, <1>2, WFMin
<1>4. PICK c \in T : \A y \in T : ~(<<y, c>> \in R)
  BY <1>3
<1>5. c \in S
  <2> SUFFICES ASSUME c \notin S PROVE FALSE
    OBVIOUS
  <2>1. PICK x \in S : x <= c
    BY <1>4
  <2>2. c # 0 /\ c \in Nat
    BY <2>1
  <2>3. \A z \in S : z <= c /\ z # c /\ z \in Nat
    OBVIOUS
  <2>4. c - 1 \in Nat /\ \A z \in S : z <= c - 1
    BY <2>2, <2>3
  <2>5. c - 1 \in T /\ c - 1 < c
    BY <2>2, <2>4
  <2>6. <<c - 1, c>> \in R
    BY <2>2, <2>5
  <2> HIDE DEF R, T
  <2> QED BY <1>4, <2>5, <2>6
<1>6. \E x \in S : \A y \in S : x >= y
  BY <1>4, <1>5
<1>7. L!Max(S) \in S /\ \A y \in S : L!Max(S) >= y
  BY <1>6 DEF L!Max
<1> QED BY <1>7

Positions == 1 .. MaxLength

LEMMA EntriesFacts ==
    /\ MaxLength \in Nat /\ IsFiniteSet(Positions)
    /\ \A e \in L!Entries : /\ DOMAIN e \subseteq Positions /\ IsFiniteSet(DOMAIN e)
                            /\ e \in [DOMAIN e -> Card]
    /\ \A P \in SUBSET Positions : [P -> Card] \subseteq L!Entries
<1>1. MaxLength \in Nat /\ IsFiniteSet(Positions)
  <2>1. MaxLength \in Nat
    BY ShopperAssumption, SMTT(60) DEF L!ListsAssumption
  <2> QED BY <2>1, FS_Interval DEF Positions
<1>2. ASSUME NEW e \in L!Entries
      PROVE  DOMAIN e \subseteq Positions /\ IsFiniteSet(DOMAIN e) /\ e \in [DOMAIN e -> Card]
  <2>1. PICK P \in SUBSET Positions : e \in [P -> Card]
    BY <1>2 DEF L!Entries, Positions
  <2>2. DOMAIN e = P
    BY <2>1
  <2> QED BY <1>1, <2>1, <2>2, FS_Subset
<1> QED BY <1>1, <1>2 DEF L!Entries, Positions

\* The ranks of n positions are 1 to n.
LEMMA RankFacts ==
    ASSUME NEW D \in SUBSET Nat, IsFiniteSet(D)
    PROVE  \A i \in 1 .. Cardinality(D) : \E p \in D : L!Rank(p, D) = i
<1> DEFINE upTo(p) == {q \in D : q <= p}
           n == Cardinality(D)
           r == [p \in D |-> L!Rank(p, D)]
<1>1. n \in Nat
  BY FS_CardinalityType
<1>2. \A p \in D : p \in upTo(p) /\ upTo(p) \in SUBSET D /\ L!Rank(p, D) = Cardinality(upTo(p))
  BY ListSets DEF L!Rank
<1>3. ASSUME NEW p \in D, NEW q \in D, p < q
      PROVE  upTo(p) \in SUBSET upTo(q) /\ q \notin upTo(p) /\ q \in upTo(q)
  <2>1. p \in Nat /\ q \in Nat /\ \A z \in D : z \in Nat
    OBVIOUS
  <2>2. \A z \in D : z <= p => z <= q
    BY <1>3, <2>1
  <2>3. ~(q <= p) /\ q <= q
    BY <1>3, <2>1
  <2> QED BY <2>2, <2>3
<1> HIDE DEF upTo
<1>4. \A p \in D : IsFiniteSet(upTo(p)) /\ Cardinality(upTo(p)) <= n
  BY <1>2, FS_Subset
<1>5. \A p \in D : L!Rank(p, D) \in 1 .. n
  <2> TAKE p \in D
  <2>1. Cardinality(upTo(p)) \in Nat /\ Cardinality(upTo(p)) # 0
    BY <1>2, <1>4, FS_EmptySet, FS_CardinalityType
  <2> QED BY <1>1, <1>2, <1>4, <2>1
<1>6. ASSUME NEW p \in D, NEW q \in D, p < q
      PROVE  L!Rank(p, D) # L!Rank(q, D)
  <2>1. upTo(p) \in SUBSET upTo(q) /\ upTo(p) # upTo(q)
    BY <1>3, <1>6
  <2>2. Cardinality(upTo(q)) # Cardinality(upTo(p))
    BY <1>4, <2>1, FS_Subset
  <2> QED BY <1>2, <2>2
<1>7. r \in Injection(D, 1 .. n)
  <2>1. \A p, q \in D : r[p] = r[q] => p = q
    <3> TAKE p, q \in D
    <3>1. p < q \/ q < p \/ p = q
      OBVIOUS
    <3> QED BY <1>6, <3>1
  <2>2. r \in [D -> 1 .. n]
    BY <1>5
  <2> QED BY <2>1, <2>2 DEF Injection, IsInjective
<1>8. IsFiniteSet(1 .. n) /\ Cardinality(1 .. n) = n
  BY <1>1, FS_Interval
<1>9. r \in Surjection(D, 1 .. n)
  <2> HIDE DEF r
  <2> QED BY <1>7, <1>8, FS_Injection
<1> QED BY <1>9 DEF Surjection

LEMMA InPositionsType ==
    ASSUME NEW e \in L!Entries
    PROVE  L!InPositions(e) \in L!Cards /\ (DOMAIN e # {} => L!InPositions(e) # <<>>)
<1> DEFINE D == DOMAIN e
           n == Cardinality(D)
           f == [i \in 1 .. n |-> e[CHOOSE p \in D : L!Rank(p, D) = i]]
<1>1. D \in SUBSET Nat /\ IsFiniteSet(D) /\ e \in [D -> Card] /\ D \in SUBSET Positions
  BY EntriesFacts DEF Positions
<1>2. n \in Nat /\ n <= MaxLength
  <2>1. Cardinality(Positions) = MaxLength
    BY EntriesFacts, FS_Interval DEF Positions
  <2> QED BY <1>1, <2>1, EntriesFacts, FS_Subset, FS_CardinalityType
<1>3. \A i \in 1 .. n : (CHOOSE p \in D : L!Rank(p, D) = i) \in D
  <2> TAKE i \in 1 .. n
  <2>1. \E p \in D : L!Rank(p, D) = i
    BY <1>1, RankFacts
  <2> QED BY <2>1
<1>4. L!InPositions(e) = f
  BY ListSets DEF L!InPositions
<1>5. f \in [1 .. n -> Card] /\ DOMAIN f = 1 .. n
  <2> HIDE DEF D, n
  <2> QED BY <1>1, <1>3
<1>6. D # {} => n # 0
  BY <1>1, FS_EmptySet
<1> HIDE DEF f, n, D
<1>7. f \in L!Cards
  BY <1>2, <1>5, EntriesFacts DEF L!Cards
<1>8. D # {} => f # <<>>
  <2> SUFFICES ASSUME D # {} PROVE 1 \in DOMAIN f
    OBVIOUS
  <2> QED BY <1>2, <1>5, <1>6
<1> QED BY <1>4, <1>7, <1>8 DEF D

LEMMA CardsFacts ==
    /\ L!Cards \subseteq L!Entries /\ <<>> \in L!Cards
    /\ \A s \in L!Cards : /\ s \in Seq(Card) /\ Len(s) \in 0 .. MaxLength /\ DOMAIN s = 1 .. Len(s)
    /\ \A s \in Seq(Card) : Len(s) <= MaxLength => s \in L!Cards
    /\ \A s \in L!Cards : s # <<>> => DOMAIN s # {}
<1>1. MaxLength \in Nat
  BY EntriesFacts
<1>2. \A s \in L!Cards : \E n \in 0 .. MaxLength : s \in [1 .. n -> Card]
  BY DEF L!Cards
<1>3. \A s \in L!Cards : s \in Seq(Card) /\ Len(s) \in 0 .. MaxLength /\ DOMAIN s = 1 .. Len(s)
  <2> TAKE s \in L!Cards
  <2>1. PICK n \in 0 .. MaxLength : s \in [1 .. n -> Card]
    BY <1>2
  <2>2. s \in Seq(Card) /\ Len(s) = n
    BY <1>1, <2>1
  <2> QED BY <2>1, <2>2
<1>4. \A n \in 0 .. MaxLength : 1 .. n \in SUBSET Positions
  BY <1>1 DEF Positions
<1>5. L!Cards \subseteq L!Entries
  BY <1>2, <1>4, EntriesFacts
<1>6. \A s \in Seq(Card) : Len(s) <= MaxLength => s \in L!Cards
  <2> TAKE s \in Seq(Card)
  <2> HAVE Len(s) <= MaxLength
  <2>1. Len(s) \in 0 .. MaxLength /\ s \in [1 .. Len(s) -> Card]
    BY <1>1
  <2> QED BY <2>1 DEF L!Cards
<1>7. <<>> \in L!Cards
  <2>1. <<>> \in Seq(Card) /\ Len(<<>>) = 0
    OBVIOUS
  <2>2. Len(<<>>) <= MaxLength
    BY <1>1, <2>1
  <2> QED BY <1>6, <2>1, <2>2
<1>8. \A s \in L!Cards : s # <<>> => DOMAIN s # {}
  <2> SUFFICES ASSUME NEW s \in L!Cards, s # <<>>
               PROVE  1 \in DOMAIN s
    OBVIOUS
  <2> QED BY <1>3
<1> QED BY <1>3, <1>5, <1>6, <1>7, <1>8

LEMMA ResolvedType ==
    ASSUME NEW s \in L!Cards
    PROVE  L!Resolved(s) \in L!Cards
<1> DEFINE P == {i \in DOMAIN s : s[i] \in Known}
           e == L!Restrict(s, P)
<1>1. /\ s \in L!Entries
  BY CardsFacts
<1>2. s \in [DOMAIN s -> Card] /\ DOMAIN s \subseteq Positions
  BY <1>1, EntriesFacts
<1>3. e = [p \in P |-> s[p]] /\ P \in SUBSET Positions
  BY <1>2 DEF L!Restrict
<1>4. e \in [P -> Card]
  BY <1>2, <1>3
<1> HIDE DEF e
<1>5. e \in L!Entries
  BY <1>3, <1>4, EntriesFacts
<1> QED BY <1>5, InPositionsType DEF L!Resolved, e

LEMMA WithType ==
    ASSUME NEW e \in L!Entries, NEW m \in L!Entries
    PROVE  /\ L!With(e, m) \in L!Entries /\ DOMAIN L!With(e, m) = DOMAIN e \cup DOMAIN m
<1> DEFINE P == DOMAIN e \cup DOMAIN m
           w == [p \in P |-> IF p \in DOMAIN m THEN m[p] ELSE e[p]]
<1>1. /\ e \in [DOMAIN e -> Card] /\ m \in [DOMAIN m -> Card] /\ P \in SUBSET Positions
  BY EntriesFacts
<1>2. L!With(e, m) = w
  BY DEF L!With
<1>3. w \in [P -> Card] /\ DOMAIN w = P
  BY <1>1
<1> HIDE DEF w
<1> QED BY <1>1, <1>2, <1>3, EntriesFacts

CallType == [op : L!Ops, tab : BOOLEAN, list : List \cup {None}, name : Name \cup {None}, cards : L!Cards,
             before : [List -> L!Views \cup {None}] \cup {None}, position : Nat, at : L!Places]
Fit(c) ==
    /\ c.op # "create" \/ c.at \in {"saved", "answered"} => c.list \in List
    /\ c.op = "create" => c.before = None
    /\ c.op \in {"create", "rename"} => c.name \in Name
    /\ c.op = "filters" /\ c.at = "found" => c.name \in Name
    /\ c.op \in {"get", "getNew"} /\ c.at = "answered" => c.name \in Name
    /\ c.op = "add" => c.cards # <<>>
    /\ c.at = "placed" => c.position \in Positions
    /\ c.tab /\ c.op \in {"rename", "delete", "replace"} => c.before # None
    /\ c.before # None => c.list \in List /\ c.before[c.list] # None
GoodCalls == {c \in CallType : Fit(c)}

ListTypes ==
    /\ row \in [List -> L!Rows \cup {None}] /\ shown \in [List -> L!Views \cup {None}]
    /\ listCalls \in Seq(GoodCalls)
    /\ cooldown \in BOOLEAN /\ refreshes \in Nat /\ filled \subseteq List
    /\ overlapped \in BOOLEAN /\ listsBroken \in BOOLEAN /\ disturbed \in BOOLEAN

SameBut(c, d, place) ==
    /\ d.op = c.op /\ d.tab = c.tab /\ d.list = c.list /\ d.name = c.name /\ d.cards = c.cards
    /\ d.before = c.before /\ d.position = c.position /\ d.at = place
MovedTo(c, place) == [c EXCEPT !.at = place]

LEMMA MoveFit ==
    ASSUME NEW c \in GoodCalls, NEW place \in L!Places, place # "placed",
           c.op = "create" /\ place \in {"saved", "answered"} => c.list \in List,
           c.op = "filters" => place # "found", c.op \in {"get", "getNew"} => place # "answered"
    PROVE  MovedTo(c, place) \in GoodCalls /\ SameBut(c, MovedTo(c, place), place)
<1> DEFINE d == MovedTo(c, place)
<1>1. c \in CallType /\ Fit(c)
  BY DEF GoodCalls
<1>2. d \in CallType /\ SameBut(c, d, place)
  BY <1>1 DEF CallType, MovedTo, SameBut
<1> HIDE DEF d
<1>3. Fit(d)
  BY <1>1, <1>2 DEF Fit, SameBut
<1> QED BY <1>2, <1>3 DEF GoodCalls, d

\* Request i becomes d.
Becomes(i, d) ==
    /\ listCalls' \in Seq(GoodCalls) /\ Len(listCalls') = Len(listCalls) /\ listCalls'[i] = d
    /\ \A j \in 1 .. Len(listCalls) : j # i => listCalls'[j] = listCalls[j]

LEMMA CallBecomes ==
    ASSUME listCalls \in Seq(GoodCalls), NEW i \in 1 .. Len(listCalls), NEW d \in GoodCalls,
           listCalls' = [listCalls EXCEPT ![i] = d]
    PROVE  Becomes(i, d)
<1> DEFINE e == [listCalls EXCEPT ![i] = d]
<1>1. e \in Seq(GoodCalls) /\ Len(e) = Len(listCalls) /\ \A j \in 1 .. Len(listCalls) : e[j] = IF j = i THEN d ELSE listCalls[j]
  BY ExceptSeq
<1>2. listCalls' = e
  OBVIOUS
<1> HIDE DEF e
<1> QED BY <1>1, <1>2 DEF Becomes

LEMMA CallMoves ==
    ASSUME listCalls \in Seq(GoodCalls), NEW i \in 1 .. Len(listCalls), NEW place \in L!Places, place # "placed",
           listCalls[i].op = "create" /\ place \in {"saved", "answered"} => listCalls[i].list \in List,
           listCalls[i].op = "filters" => place # "found",
           listCalls[i].op \in {"get", "getNew"} => place # "answered",
           L!Move(i, place)
    PROVE  Becomes(i, listCalls'[i]) /\ SameBut(listCalls[i], listCalls'[i], place)
<1> DEFINE d == MovedTo(listCalls[i], place)
<1>1. listCalls[i] \in GoodCalls
  OBVIOUS
<1>2. d \in GoodCalls /\ SameBut(listCalls[i], d, place)
  BY <1>1, MoveFit
<1>3. listCalls' = [listCalls EXCEPT ![i] = d]
  BY DEF L!Move, MovedTo
<1> HIDE DEF d
<1>4. Becomes(i, d)
  BY <1>2, <1>3, CallBecomes
<1> QED BY <1>2, <1>4 DEF Becomes

CallOver(c) == c.at \in {"answered", "failed"}
\* Requests of the tab are served in order.
InTurn(i) ==
    listCalls[i].tab => \A j \in 1 .. Len(listCalls) : j < i /\ listCalls[j].tab => CallOver(listCalls[j])

LEMMA ListFacts ==
    ASSUME ListTypes
    PROVE  /\ L!Indices = 1 .. Len(listCalls) /\ Len(listCalls) \in Nat /\ listCalls \in Seq(GoodCalls)
           /\ \A i \in 1 .. Len(listCalls) : listCalls[i] \in GoodCalls /\ listCalls[i] \in CallType /\ Fit(listCalls[i])
           /\ \A i, ops, place : L!At(i, ops, place) /\ i \in 1 .. Len(listCalls) =>
                 listCalls[i].op \in ops /\ listCalls[i].at = place /\ InTurn(i)
<1>1. L!Indices = 1 .. Len(listCalls) /\ Len(listCalls) \in Nat /\ listCalls \in Seq(GoodCalls)
  BY DEF ListTypes, L!Indices
<1>2. \A i \in 1 .. Len(listCalls) : listCalls[i] \in GoodCalls
  BY <1>1
<1>3. ASSUME NEW i \in 1 .. Len(listCalls), NEW ops, NEW place, L!At(i, ops, place)
      PROVE  listCalls[i].op \in ops /\ listCalls[i].at = place /\ InTurn(i)
  <2>1. ASSUME NEW j \in 1 .. Len(listCalls), j < i PROVE j \in 1 .. (i - 1)
    BY <1>1, <2>1
  <2> QED BY <1>3, <2>1 DEF L!At, InTurn, CallOver
<1> QED BY <1>1, <1>2, <1>3 DEF GoodCalls

\* The statements that change a list are of a list that was let in or created.
LEMMA WritersHaveList ==
    ASSUME ListTypes, NEW i \in 1 .. Len(listCalls),
           L!InsertEntries(i) \/ L!DeleteEntries(i) \/ L!InsertEntry(i) \/ L!TouchExpiry(i) \/ L!SaveList(i) \/ L!DeleteList(i)
    PROVE  listCalls[i].list \in List
<1>1. ASSUME NEW ops, NEW place, L!At(i, ops, place)
      PROVE  listCalls[i].op \in ops /\ listCalls[i].at = place
  BY <1>1, ListFacts
<1>2. Fit(listCalls[i])
  BY ListFacts
<1>3. CASE L!InsertEntries(i)
  <2>1. L!At(i, {"create"}, "saved") \/ L!At(i, {"replace"}, "deleted")
    BY <1>3 DEF L!InsertEntries
  <2> QED BY <1>1, <1>2, <2>1 DEF Fit
<1>4. CASE L!DeleteEntries(i)
  <2>1. L!At(i, {"replace"}, "found")
    BY <1>4 DEF L!DeleteEntries
  <2> QED BY <1>1, <1>2, <2>1 DEF Fit
<1>5. CASE L!InsertEntry(i)
  <2>1. L!At(i, {"add"}, "placed")
    BY <1>5 DEF L!InsertEntry
  <2> QED BY <1>1, <1>2, <2>1 DEF Fit
<1>6. CASE L!TouchExpiry(i)
  <2>1. L!At(i, {"replace", "add"}, "inserted")
    BY <1>6 DEF L!TouchExpiry
  <2> QED BY <1>1, <1>2, <2>1 DEF Fit
<1>7. CASE L!SaveList(i)
  <2>1. L!At(i, {"rename", "filters"}, "found")
    BY <1>7 DEF L!SaveList
  <2> QED BY <1>1, <1>2, <2>1 DEF Fit
<1>8. CASE L!DeleteList(i)
  <2>1. L!At(i, {"delete"}, "found")
    BY <1>8 DEF L!DeleteList
  <2> QED BY <1>1, <1>2, <2>1 DEF Fit
<1> QED BY <1>3, <1>4, <1>5, <1>6, <1>7, <1>8

-----------------------------------------------------------------------------
(* CardLists: what the statements of a request do to it.                    *)

\* What a served request keeps.
Same(c, d) == d.op = c.op /\ d.tab = c.tab /\ d.cards = c.cards /\ d.before = c.before

LEMMA FindDoes ==
    ASSUME ListTypes, NEW i \in 1 .. Len(listCalls), L!FindOwnedList(i)
    PROVE  /\ Becomes(i, listCalls'[i]) /\ Same(listCalls[i], listCalls'[i])
           /\ listCalls[i].op \notin {"create", "get", "getNew"} /\ listCalls[i].list \in List
           /\ listCalls'[i].list = listCalls[i].list /\ listCalls[i].at = "sent"
           /\ listCalls[i].op # "filters" => listCalls'[i].name = listCalls[i].name
           /\ \/ listCalls'[i].at = "failed"
              \/ listCalls'[i].at = "found" /\ L!Live(listCalls[i].list) /\ L!Accepted(listCalls[i])
<1> DEFINE c == listCalls[i]
           l == c.list
           e == [c EXCEPT !.at = "found", !.name = IF c.op = "filters" THEN row[l].name ELSE @]
<1>1. c \in GoodCalls /\ c \in CallType /\ Fit(c) /\ listCalls \in Seq(GoodCalls)
  BY ListFacts
<1>2. c.op \in L!Ops \ {"create", "get", "getNew"} /\ c.at = "sent"
  BY ListFacts DEF L!FindOwnedList
<1>3. l \in List
  BY <1>1, <1>2 DEF Fit
<1>4. CASE L!Live(l) /\ L!Accepted(c)
  <2>1. listCalls' = [listCalls EXCEPT ![i] = e]
    BY <1>4 DEF L!FindOwnedList
  <2>2. row[l] \in L!Rows
    BY <1>3, <1>4 DEF L!Live, ListTypes
  <2>3. row[l].name \in Name
    BY <2>2 DEF L!Rows
  <2>4. /\ e \in CallType /\ Same(c, e) /\ e.list = l /\ e.at = "found" /\ e.position = c.position
        /\ c.op # "filters" => e.name = c.name
        /\ c.op = "filters" => e.name \in Name
    BY <1>1, <2>3 DEF CallType, Same, L!Places
  <2> HIDE DEF e
  <2>5. Fit(e)
    BY <1>1, <1>2, <1>3, <2>4 DEF Fit, Same
  <2>6. Becomes(i, e)
    BY <1>1, <2>1, <2>4, <2>5, CallBecomes DEF GoodCalls
  <2>7. listCalls'[i] = e
    BY <2>6 DEF Becomes
  <2> QED BY <1>2, <1>3, <1>4, <2>4, <2>6, <2>7
<1>5. CASE ~(L!Live(l) /\ L!Accepted(c))
  <2>1. L!Move(i, "failed")
    BY <1>5 DEF L!FindOwnedList
  <2>2. Becomes(i, listCalls'[i]) /\ SameBut(c, listCalls'[i], "failed")
    <3>1. "failed" \in L!Places
      BY DEF L!Places
    <3> QED BY <1>1, <1>2, <2>1, <3>1, CallMoves
  <2> QED BY <1>2, <1>3, <2>2 DEF SameBut, Same
<1> QED BY <1>4, <1>5

LEMMA SaveNewDoes ==
    ASSUME ListTypes, NEW i \in 1 .. Len(listCalls), L!SaveNewList(i)
    PROVE  /\ Becomes(i, listCalls'[i]) /\ Same(listCalls[i], listCalls'[i])
           /\ listCalls[i].op = "create" /\ listCalls[i].at = "counted"
           /\ listCalls'[i].name = listCalls[i].name /\ listCalls'[i].at = "saved"
           /\ listCalls'[i].list \in List /\ row[listCalls'[i].list] = None /\ shown[listCalls'[i].list] = None
           /\ \A j \in 1 .. Len(listCalls) : listCalls[j].list # listCalls'[i].list
           /\ row' = [row EXCEPT ![listCalls'[i].list] =
                        [name |-> listCalls[i].name, entries |-> <<>>, expired |-> FALSE]]
<1> DEFINE c == listCalls[i]
<1>1. c \in GoodCalls /\ c \in CallType /\ Fit(c) /\ listCalls \in Seq(GoodCalls) /\ L!Indices = 1 .. Len(listCalls)
  BY ListFacts
<1>2. c.op = "create" /\ c.at = "counted"
  BY ListFacts DEF L!SaveNewList
<1>3. PICK l \in List :
         /\ row[l] = None /\ shown[l] = None /\ \A j \in L!Indices : listCalls[j].list # l
         /\ row' = [row EXCEPT ![l] = [name |-> c.name, entries |-> <<>>, expired |-> FALSE]]
         /\ listCalls' = [listCalls EXCEPT ![i].list = l, ![i].at = "saved"]
  BY DEF L!SaveNewList
<1> DEFINE e == [c EXCEPT !.list = l, !.at = "saved"]
<1>4. listCalls' = [listCalls EXCEPT ![i] = e]
  BY <1>3
<1>5. /\ e \in CallType /\ Same(c, e) /\ e.list = l /\ e.at = "saved" /\ e.name = c.name
  BY <1>1 DEF CallType, Same, L!Places
<1> HIDE DEF e
<1>6. Fit(e)
  BY <1>1, <1>2, <1>5 DEF Fit, Same
<1>7. Becomes(i, e)
  BY <1>1, <1>4, <1>5, <1>6, CallBecomes DEF GoodCalls
<1>8. listCalls'[i] = e
  BY <1>7 DEF Becomes
<1> QED BY <1>1, <1>2, <1>3, <1>5, <1>7, <1>8

LEMMA PlaceDoes ==
    ASSUME ListTypes, NEW i \in 1 .. Len(listCalls), L!NextPosition(i)
    PROVE  /\ Becomes(i, listCalls'[i]) /\ Same(listCalls[i], listCalls'[i])
           /\ listCalls[i].op = "add" /\ listCalls[i].at = "found" /\ listCalls[i].list \in List
           /\ listCalls'[i].list = listCalls[i].list /\ listCalls'[i].name = listCalls[i].name /\ listCalls'[i].at = "placed"
<1> DEFINE c == listCalls[i]
           l == c.list
           taken == IF row[l] = None THEN {} ELSE DOMAIN row[l].entries
           next == L!Behind(taken)
           e == [c EXCEPT !.position = next, !.at = "placed"]
<1>1. c \in GoodCalls /\ c \in CallType /\ Fit(c) /\ listCalls \in Seq(GoodCalls)
  BY ListFacts
<1>2. c.op = "add" /\ c.at = "found"
  BY ListFacts DEF L!NextPosition
<1>3. l \in List
  BY <1>1, <1>2 DEF Fit
<1>4. next <= MaxLength /\ listCalls' = [listCalls EXCEPT ![i] = e]
  BY DEF L!NextPosition
<1>5. next \in Positions
  <2>1. taken \subseteq Positions
    <3>1. row[l] = None \/ row[l].entries \in L!Entries
      BY <1>3 DEF ListTypes, L!Rows
    <3> QED BY <3>1, EntriesFacts
  <2>2. MaxLength \in Nat
    BY EntriesFacts
  <2> HIDE DEF taken
  <2>3. taken \cup {0} \in SUBSET Nat /\ taken \cup {0} # {} /\ \A x \in taken \cup {0} : x <= MaxLength
    BY <2>1, <2>2 DEF Positions
  <2>4. L!Max(taken \cup {0}) \in taken \cup {0}
    BY <2>2, <2>3, MaxFacts
  <2>5. L!Max(taken \cup {0}) \in Nat
    BY <2>3, <2>4
  <2> QED BY <1>4, <2>2, <2>5 DEF L!Behind, Positions
<1> HIDE DEF next
<1>6. next \in Nat
  BY <1>5 DEF Positions
<1>7. /\ e \in CallType /\ Same(c, e) /\ e.list = l /\ e.at = "placed" /\ e.name = c.name /\ e.position = next
  BY <1>1, <1>6 DEF CallType, Same, L!Places
<1> HIDE DEF e
<1>8. Fit(e)
  BY <1>1, <1>2, <1>3, <1>5, <1>7 DEF Fit, Same
<1>9. Becomes(i, e)
  BY <1>1, <1>4, <1>7, <1>8, CallBecomes DEF GoodCalls
<1>10. listCalls'[i] = e
  BY <1>9 DEF Becomes
<1> QED BY <1>2, <1>3, <1>7, <1>9, <1>10

LEMMA GetDoes ==
    ASSUME ListTypes, NEW i \in 1 .. Len(listCalls), L!GetList(i)
    PROVE  /\ Becomes(i, listCalls'[i]) /\ listCalls[i].op \in {"get", "getNew"} /\ listCalls[i].at = "sent"
           /\ listCalls[i].list \in List /\ listCalls'[i].list = listCalls[i].list /\ listCalls'[i].op = listCalls[i].op
           /\ listCalls'[i].tab = listCalls[i].tab /\ listCalls'[i].before = listCalls[i].before
           /\ \/ /\ listCalls'[i].at = "answered" /\ L!Live(listCalls[i].list)
                 /\ listCalls'[i].name = row[listCalls[i].list].name
                 /\ listCalls'[i].cards = L!InPositions(row[listCalls[i].list].entries)
              \/ listCalls'[i].at = "failed"
<1> DEFINE c == listCalls[i]
           l == c.list
           e == [c EXCEPT !.at = "answered", !.name = row[l].name, !.cards = L!InPositions(row[l].entries)]
<1>1. c \in GoodCalls /\ c \in CallType /\ Fit(c) /\ listCalls \in Seq(GoodCalls)
  BY ListFacts
<1>2. c.op \in {"get", "getNew"} /\ c.at = "sent"
  BY ListFacts DEF L!GetList
<1>3. l \in List
  BY <1>1, <1>2 DEF Fit
<1>4. CASE L!Live(l)
  <2>1. listCalls' = [listCalls EXCEPT ![i] = e]
    BY <1>4 DEF L!GetList
  <2>2. row[l] \in L!Rows
    BY <1>3, <1>4 DEF L!Live, ListTypes
  <2>3. row[l].name \in Name /\ row[l].entries \in L!Entries
    BY <2>2 DEF L!Rows
  <2>4. L!InPositions(row[l].entries) \in L!Cards
    BY <2>3, InPositionsType
  <2>5. /\ e \in CallType /\ e.op = c.op /\ e.tab = c.tab /\ e.before = c.before /\ e.list = l
        /\ e.at = "answered" /\ e.name = row[l].name /\ e.cards = L!InPositions(row[l].entries)
    BY <1>1, <2>3, <2>4 DEF CallType, L!Places
  <2> HIDE DEF e
  <2>6. Fit(e)
    BY <1>1, <1>2, <1>3, <2>3, <2>5 DEF Fit
  <2>7. Becomes(i, e)
    BY <1>1, <2>1, <2>5, <2>6, CallBecomes DEF GoodCalls
  <2>8. listCalls'[i] = e
    BY <2>7 DEF Becomes
  <2> QED BY <1>2, <1>3, <1>4, <2>5, <2>7, <2>8
<1>5. CASE ~L!Live(l)
  <2>1. L!Move(i, "failed")
    BY <1>5 DEF L!GetList
  <2>2. Becomes(i, listCalls'[i]) /\ SameBut(c, listCalls'[i], "failed")
    <3>1. "failed" \in L!Places
      BY DEF L!Places
    <3> QED BY <1>1, <1>2, <2>1, <3>1, CallMoves
  <2> QED BY <1>2, <1>3, <2>2 DEF SameBut
<1> QED BY <1>4, <1>5

\* What each of the other statements makes of its request.
MoveFact(i) ==
    LET c == listCalls[i]
        d == listCalls'[i]
    IN
    /\ Becomes(i, d) /\ SameBut(c, d, d.at)
    /\ \/ L!CountLists(i) /\ c.op = "create" /\ c.at = "sent" /\ d.at = IF L!AtLimit THEN "failed" ELSE "counted"
       \/ L!InsertEntries(i) /\ c.list \in List /\
             \/ c.op = "create" /\ c.at = "saved" /\ d.at \in {"failed", "answered"}
             \/ c.op = "replace" /\ c.at = "deleted" /\ d.at \in {"failed", "inserted"}
       \/ L!DeleteEntries(i) /\ c.list \in List /\ c.op = "replace" /\ c.at = "found" /\ d.at = "deleted"
       \/ L!InsertEntry(i) /\ c.list \in List /\ c.op = "add" /\ c.at = "placed" /\ d.at \in {"failed", "inserted"}
       \/ L!TouchExpiry(i) /\ c.list \in List /\ c.op \in {"replace", "add"} /\ c.at = "inserted" /\ d.at = "answered"
       \/ L!SaveList(i) /\ c.list \in List /\ c.op \in {"rename", "filters"} /\ c.at = "found" /\ d.at = "answered"
       \/ L!DeleteList(i) /\ c.list \in List /\ c.op = "delete" /\ c.at = "found" /\ d.at = "answered"
       \/ L!Claim(i) /\ c.op = "refresh" /\ c.at = "found" /\ d.at = IF L!Claimable THEN "claimed" ELSE "failed"
       \/ L!EnqueueRefresh(i) /\ c.op = "refresh" /\ c.at = "claimed" /\ d.at = "queued"
       \/ L!MarkRefresh(i) /\ c.op = "refresh" /\ c.at = "queued" /\ d.at = "answered"

LEMMA MovesDo ==
    ASSUME ListTypes, NEW i \in 1 .. Len(listCalls),
           \/ L!CountLists(i) \/ L!InsertEntries(i) \/ L!DeleteEntries(i) \/ L!InsertEntry(i) \/ L!TouchExpiry(i)
           \/ L!SaveList(i) \/ L!DeleteList(i) \/ L!Claim(i) \/ L!EnqueueRefresh(i) \/ L!MarkRefresh(i)
    PROVE  MoveFact(i)
<1> DEFINE c == listCalls[i]
           d == listCalls'[i]
           Ends == {"failed", "answered", "deleted", "inserted", "counted", "claimed", "queued"}
<1>1. c \in GoodCalls /\ c \in CallType /\ Fit(c) /\ listCalls \in Seq(GoodCalls)
  BY ListFacts
<1>2. ASSUME NEW place \in Ends, L!Move(i, place), c.op \notin {"get", "getNew"},
             c.op = "create" /\ place = "answered" => c.list \in List
      PROVE  Becomes(i, d) /\ SameBut(c, d, place) /\ SameBut(c, d, d.at) /\ d.at = place
  <2>1. place \in L!Places /\ place # "placed" /\ place # "found" /\ place # "saved"
    BY DEF L!Places
  <2>2. Becomes(i, d) /\ SameBut(c, d, place)
    BY <1>1, <1>2, <2>1, CallMoves
  <2> QED BY <2>2 DEF SameBut
<1>3. CASE L!CountLists(i)
  <2>1. c.op = "create" /\ c.at = "sent"
    BY <1>3, ListFacts DEF L!CountLists
  <2>2. L!Move(i, IF L!AtLimit THEN "failed" ELSE "counted")
    BY <1>3 DEF L!CountLists
  <2>3. Becomes(i, d) /\ SameBut(c, d, d.at) /\ d.at = IF L!AtLimit THEN "failed" ELSE "counted"
    BY <1>2, <2>1, <2>2
  <2> QED BY <1>3, <2>1, <2>3 DEF MoveFact
<1>4. CASE L!InsertEntries(i)
  <2>1. (c.op = "create" /\ c.at = "saved") \/ (c.op = "replace" /\ c.at = "deleted")
    BY <1>4, ListFacts DEF L!InsertEntries
  <2>2. c.list \in List
    BY <1>1, <2>1 DEF Fit
  <2>3. L!Move(i, "failed") \/ L!Move(i, IF c.op = "create" THEN "answered" ELSE "inserted")
    BY <1>4 DEF L!InsertEntries
  <2>4. /\ Becomes(i, d) /\ SameBut(c, d, d.at)
        /\ d.at \in {"failed", IF c.op = "create" THEN "answered" ELSE "inserted"}
    <3>1. CASE L!Move(i, "failed")
      BY <1>2, <2>1, <3>1
    <3>2. CASE L!Move(i, IF c.op = "create" THEN "answered" ELSE "inserted")
      BY <1>2, <2>1, <2>2, <3>2
    <3> QED BY <2>3, <3>1, <3>2
  <2> QED BY <1>4, <2>1, <2>2, <2>4 DEF MoveFact
<1>5. CASE L!DeleteEntries(i)
  <2>1. c.op = "replace" /\ c.at = "found"
    BY <1>5, ListFacts DEF L!DeleteEntries
  <2>2. c.list \in List
    BY <1>1, <2>1 DEF Fit
  <2>3. L!Move(i, "deleted")
    BY <1>5 DEF L!DeleteEntries
  <2> QED BY <1>2, <1>5, <2>1, <2>2, <2>3 DEF MoveFact
<1>6. CASE L!InsertEntry(i)
  <2>1. c.op = "add" /\ c.at = "placed"
    BY <1>6, ListFacts DEF L!InsertEntry
  <2>2. c.list \in List
    BY <1>1, <2>1 DEF Fit
  <2>3. L!Move(i, "failed") \/ L!Move(i, "inserted")
    BY <1>6 DEF L!InsertEntry
  <2>4. Becomes(i, d) /\ SameBut(c, d, d.at) /\ d.at \in {"failed", "inserted"}
    BY <1>2, <2>1, <2>3
  <2> QED BY <1>6, <2>1, <2>2, <2>4 DEF MoveFact
<1>7. CASE L!TouchExpiry(i)
  <2>1. c.op \in {"replace", "add"} /\ c.at = "inserted"
    BY <1>7, ListFacts DEF L!TouchExpiry
  <2>2. c.list \in List
    BY <1>1, <2>1 DEF Fit
  <2>3. L!Move(i, "answered")
    BY <1>7 DEF L!TouchExpiry
  <2> QED BY <1>2, <1>7, <2>1, <2>2, <2>3 DEF MoveFact
<1>8. CASE L!SaveList(i)
  <2>1. c.op \in {"rename", "filters"} /\ c.at = "found"
    BY <1>8, ListFacts DEF L!SaveList
  <2>2. c.list \in List
    BY <1>1, <2>1 DEF Fit
  <2>3. L!Move(i, "answered")
    BY <1>8 DEF L!SaveList
  <2> QED BY <1>2, <1>8, <2>1, <2>2, <2>3 DEF MoveFact
<1>9. CASE L!DeleteList(i)
  <2>1. c.op = "delete" /\ c.at = "found"
    BY <1>9, ListFacts DEF L!DeleteList
  <2>2. c.list \in List
    BY <1>1, <2>1 DEF Fit
  <2>3. L!Move(i, "answered")
    BY <1>9 DEF L!DeleteList
  <2> QED BY <1>2, <1>9, <2>1, <2>2, <2>3 DEF MoveFact
<1>10. CASE L!Claim(i)
  <2>1. c.op = "refresh" /\ c.at = "found"
    BY <1>10, ListFacts DEF L!Claim
  <2>2. L!Move(i, IF L!Claimable THEN "claimed" ELSE "failed")
    BY <1>10 DEF L!Claim
  <2>3. Becomes(i, d) /\ SameBut(c, d, d.at) /\ d.at = IF L!Claimable THEN "claimed" ELSE "failed"
    BY <1>2, <2>1, <2>2
  <2> QED BY <1>10, <2>1, <2>3 DEF MoveFact
<1>11. CASE L!EnqueueRefresh(i)
  <2>1. c.op = "refresh" /\ c.at = "claimed"
    BY <1>11, ListFacts DEF L!EnqueueRefresh
  <2>2. L!Move(i, "queued")
    BY <1>11 DEF L!EnqueueRefresh
  <2> QED BY <1>2, <1>11, <2>1, <2>2 DEF MoveFact
<1>12. CASE L!MarkRefresh(i)
  <2>1. c.op = "refresh" /\ c.at = "queued"
    BY <1>12, ListFacts DEF L!MarkRefresh
  <2>2. L!Move(i, "answered")
    BY <1>12 DEF L!MarkRefresh
  <2> QED BY <1>2, <1>12, <2>1, <2>2 DEF MoveFact
<1> QED BY <1>3, <1>4, <1>5, <1>6, <1>7, <1>8, <1>9, <1>10, <1>11, <1>12

ReadOne(i) == L!FindOwnedList(i) \/ L!NextPosition(i) \/ L!GetList(i)
MoveOne(i) ==
    \/ L!CountLists(i) \/ L!InsertEntries(i) \/ L!DeleteEntries(i) \/ L!InsertEntry(i) \/ L!TouchExpiry(i)
    \/ L!SaveList(i) \/ L!DeleteList(i) \/ L!Claim(i) \/ L!EnqueueRefresh(i) \/ L!MarkRefresh(i)

LEMMA ServedOne ==
    ASSUME ListTypes, NEW i \in 1 .. Len(listCalls), L!Serve(i)
    PROVE  /\ Becomes(i, listCalls'[i]) /\ InTurn(i) /\ ~CallOver(listCalls[i])
           /\ listCalls'[i].op = listCalls[i].op /\ listCalls'[i].tab = listCalls[i].tab
           /\ listCalls'[i].before = listCalls[i].before /\ listCalls'[i].at # "sent"
           /\ UNCHANGED <<shown, overlapped, listsBroken, disturbed, sent, listEvents>>
<1>1. CASE ReadOne(i)
  <2>1. InTurn(i)
    BY <1>1, ListFacts DEF ReadOne, L!FindOwnedList, L!NextPosition, L!GetList
  <2>2. UNCHANGED <<shown, overlapped, listsBroken, disturbed, sent, listEvents>>
    BY <1>1 DEF ReadOne, L!FindOwnedList, L!NextPosition, L!GetList, L!ReadOnly, L!Written, L!Served
  <2>3. CASE L!FindOwnedList(i)
    BY <2>1, <2>2, <2>3, FindDoes DEF CallOver, Same
  <2>4. CASE L!NextPosition(i)
    BY <2>1, <2>2, <2>4, PlaceDoes DEF CallOver, Same
  <2>5. CASE L!GetList(i)
    BY <2>1, <2>2, <2>5, GetDoes DEF CallOver
  <2> QED BY <1>1, <2>3, <2>4, <2>5 DEF ReadOne
<1>2. CASE L!SaveNewList(i)
  <2>1. InTurn(i)
    BY <1>2, ListFacts DEF L!SaveNewList
  <2>2. UNCHANGED <<shown, overlapped, listsBroken, disturbed, sent, listEvents>>
    BY <1>2 DEF L!SaveNewList, L!Written, L!Served
  <2> QED BY <1>2, <2>1, <2>2, SaveNewDoes DEF CallOver, Same
<1>3. CASE MoveOne(i)
  <2>1. MoveFact(i)
    BY <1>3, MovesDo DEF MoveOne
  <2>2. InTurn(i)
    BY <1>3, ListFacts DEF MoveOne, L!CountLists, L!InsertEntries, L!DeleteEntries, L!InsertEntry, L!TouchExpiry,
       L!SaveList, L!DeleteList, L!Claim, L!EnqueueRefresh, L!MarkRefresh
  <2>3. UNCHANGED <<shown, overlapped, listsBroken, disturbed, sent, listEvents>>
    BY <1>3 DEF MoveOne, L!CountLists, L!InsertEntries, L!DeleteEntries, L!InsertEntry, L!TouchExpiry,
       L!SaveList, L!DeleteList, L!Claim, L!EnqueueRefresh, L!MarkRefresh, L!ReadOnly, L!Written, L!Served
  <2>4. ~CallOver(listCalls[i]) /\ listCalls'[i].at # "sent"
    BY <2>1 DEF MoveFact, CallOver
  <2> QED BY <2>1, <2>2, <2>3, <2>4 DEF MoveFact, SameBut
<1> QED BY <1>1, <1>2, <1>3 DEF L!Serve, ReadOne, MoveOne

LEMMA RowsKept ==
    ASSUME ListTypes, NEW i \in 1 .. Len(listCalls), L!Serve(i)
    PROVE  /\ row' \in [List -> L!Rows \cup {None}] /\ filled' \subseteq List
           /\ cooldown' \in BOOLEAN /\ refreshes' \in Nat
<1> DEFINE c == listCalls[i]
           l == c.list
<1>1. /\ row \in [List -> L!Rows \cup {None}] /\ filled \subseteq List
      /\ cooldown \in BOOLEAN /\ refreshes \in Nat
  BY DEF ListTypes
<1>2. c \in GoodCalls /\ c \in CallType /\ Fit(c)
  BY ListFacts
<1>3. /\ None \notin L!Rows
  BY ShopperAssumption DEF L!ListsAssumption
<1>4. \A k \in List, r \in L!Rows \cup {None} : [row EXCEPT ![k] = r] \in [List -> L!Rows \cup {None}]
  BY <1>1
<1>5. /\ <<>> \in L!Entries /\ \A r \in L!Rows : r.entries \in L!Entries /\ r.name \in Name
  BY CardsFacts DEF L!Rows
<1>6. \A n \in Name, e \in L!Entries, x \in BOOLEAN : [name |-> n, entries |-> e, expired |-> x] \in L!Rows
  BY DEF L!Rows
<1>7. /\ \A r \in L!Rows, e \in L!Entries : [r EXCEPT !.entries = e] \in L!Rows
      /\ \A r \in L!Rows : [r EXCEPT !.expired = FALSE] \in L!Rows
  BY DEF L!Rows
<1>8. CASE ReadOne(i)
  <2>1. UNCHANGED <<row, filled, cooldown, refreshes>>
    BY <1>8 DEF ReadOne, L!FindOwnedList, L!NextPosition, L!GetList, L!ReadOnly, L!Written
  <2> QED BY <1>1, <2>1
<1>9. CASE L!SaveNewList(i)
  <2>1. UNCHANGED <<filled, cooldown, refreshes>>
    BY <1>9 DEF L!SaveNewList, L!Written
  <2>2. PICK k \in List : row' = [row EXCEPT ![k] = [name |-> c.name, entries |-> <<>>, expired |-> FALSE]]
    BY <1>9, SaveNewDoes
  <2>3. c.name \in Name
    BY <1>2, <1>9, SaveNewDoes DEF Fit
  <2>4. [name |-> c.name, entries |-> <<>>, expired |-> FALSE] \in L!Rows
    BY <1>5, <1>6, <2>3
  <2> QED BY <1>1, <1>4, <2>1, <2>2, <2>4
<1>10. CASE L!CountLists(i) \/ L!Claim(i) \/ L!EnqueueRefresh(i) \/ L!MarkRefresh(i)
  <2>1. UNCHANGED <<row, filled>> /\ refreshes' \in {refreshes, refreshes + 1} /\ cooldown' \in {cooldown, TRUE}
    BY <1>10 DEF L!CountLists, L!Claim, L!EnqueueRefresh, L!MarkRefresh, L!ReadOnly, L!Written
  <2>2. refreshes' \in Nat
    BY <1>1, <2>1
  <2>3. cooldown' \in BOOLEAN
    BY <1>1, <2>1, Zenon
  <2> QED BY <1>1, <2>1, <2>2, <2>3
<1>11. ASSUME L!InsertEntries(i) \/ L!DeleteEntries(i) \/ L!InsertEntry(i) \/ L!TouchExpiry(i) \/ L!SaveList(i) \/ L!DeleteList(i)
       PROVE  MoveFact(i) /\ l \in List /\ UNCHANGED <<cooldown, refreshes>>
  <2>1. MoveFact(i)
    BY <1>11, MovesDo
  <2>2. l \in List
    BY <1>11, WritersHaveList
  <2>3. UNCHANGED <<cooldown, refreshes>>
    BY <1>11 DEF L!InsertEntries, L!DeleteEntries, L!InsertEntry, L!TouchExpiry, L!SaveList, L!DeleteList, L!Written
  <2> QED BY <2>1, <2>2, <2>3
<1>12. CASE L!InsertEntries(i)
  <2> DEFINE entries == L!Resolved(c.cards)
  <2>1. l \in List /\ UNCHANGED <<cooldown, refreshes>>
    BY <1>11, <1>12
  <2>2. filled' \in {filled, filled \cup {l}}
    BY <1>12 DEF L!InsertEntries
  <2>3. row' = row \/ (row[l] # None /\ row' = [row EXCEPT ![l].entries = L!With(@, entries)])
    BY <1>12 DEF L!InsertEntries
  <2>4. CASE row[l] # None /\ row' = [row EXCEPT ![l].entries = L!With(@, entries)]
    <3> DEFINE r == [row[l] EXCEPT !.entries = L!With(@, entries)]
    <3>1. row[l] \in L!Rows /\ c.cards \in L!Cards
      BY <1>1, <1>2, <2>1, <2>4 DEF CallType
    <3>2. entries \in L!Entries
      BY <3>1, ResolvedType, CardsFacts
    <3>3. L!With(row[l].entries, entries) \in L!Entries
      BY <1>5, <3>1, <3>2, WithType
    <3>4. r \in L!Rows
      BY <1>7, <3>1, <3>3
    <3>5. row' = [row EXCEPT ![l] = r]
      BY <2>4
    <3> HIDE DEF r
    <3> QED BY <1>1, <1>4, <2>1, <2>2, <3>4, <3>5
  <2> QED BY <1>1, <2>1, <2>2, <2>3, <2>4
<1>13. CASE L!DeleteEntries(i)
  <2>1. l \in List /\ UNCHANGED <<cooldown, refreshes>>
    BY <1>11, <1>13
  <2>2. filled' = filled /\ row' = IF row[l] = None THEN row ELSE [row EXCEPT ![l].entries = <<>>]
    BY <1>13 DEF L!DeleteEntries
  <2>3. CASE row[l] # None
    <3>1. row[l] \in L!Rows
      BY <1>1, <2>1, <2>3
    <3>2. [row[l] EXCEPT !.entries = <<>>] \in L!Rows
      BY <1>5, <1>7, <3>1
    <3> QED BY <1>1, <1>4, <2>1, <2>2, <2>3, <3>2
  <2> QED BY <1>1, <2>1, <2>2, <2>3
<1>14. CASE L!InsertEntry(i)
  <2> DEFINE m == [p \in {c.position} |-> c.cards[1]]
  <2>1. l \in List /\ UNCHANGED <<cooldown, refreshes>>
    BY <1>11, <1>14
  <2>2. filled' \in {filled, filled \cup {l}}
    BY <1>14 DEF L!InsertEntry
  <2>3. row' = row \/ (row[l] # None /\ row' = [row EXCEPT ![l].entries = L!With(@, m)])
    BY <1>14 DEF L!InsertEntry
  <2>4. CASE row[l] # None /\ row' = [row EXCEPT ![l].entries = L!With(@, m)]
    <3> DEFINE r == [row[l] EXCEPT !.entries = L!With(@, m)]
    <3>1. row[l] \in L!Rows
      BY <1>1, <2>1, <2>4
    <3>2. m \in L!Entries
      <4>1. c.op = "add" /\ c.at = "placed"
        BY <1>14, ListFacts DEF L!InsertEntry
      <4>2. c.position \in Positions /\ c.cards # <<>> /\ c.cards \in L!Cards
        BY <1>2, <4>1 DEF Fit, CallType
      <4>3. c.cards \in Seq(Card) /\ 1 \in DOMAIN c.cards
        BY <4>2, CardsFacts
      <4>4. c.cards[1] \in Card
        BY <4>3
      <4>5. m \in [{c.position} -> Card] /\ {c.position} \in SUBSET Positions
        BY <4>2, <4>4
      <4> QED BY <4>5, EntriesFacts
    <3> HIDE DEF m
    <3>3. L!With(row[l].entries, m) \in L!Entries
      BY <1>5, <3>1, <3>2, WithType
    <3>4. r \in L!Rows
      BY <1>7, <3>1, <3>3
    <3>5. row' = [row EXCEPT ![l] = r]
      BY <2>4
    <3> HIDE DEF r
    <3> QED BY <1>1, <1>4, <2>1, <2>2, <3>4, <3>5
  <2> QED BY <1>1, <2>1, <2>2, <2>3, <2>4
<1>15. CASE L!TouchExpiry(i)
  <2>1. l \in List /\ UNCHANGED <<cooldown, refreshes>>
    BY <1>11, <1>15
  <2>2. filled' = filled /\ row' = IF row[l] = None THEN row ELSE [row EXCEPT ![l].expired = FALSE]
    BY <1>15 DEF L!TouchExpiry
  <2>3. CASE row[l] # None
    <3>1. row[l] \in L!Rows
      BY <1>1, <2>1, <2>3
    <3>2. [row[l] EXCEPT !.expired = FALSE] \in L!Rows
      BY <1>7, <3>1
    <3> QED BY <1>1, <1>4, <2>1, <2>2, <2>3, <3>2
  <2> QED BY <1>1, <2>1, <2>2, <2>3
<1>16. CASE L!SaveList(i)
  <2> DEFINE r == [name |-> c.name, expired |-> FALSE,
                   entries |-> IF row[l] = None THEN <<>> ELSE row[l].entries]
  <2>1. l \in List /\ UNCHANGED <<cooldown, refreshes>>
    BY <1>11, <1>16
  <2>2. filled' \in {filled, filled \ {l}} /\ row' = [row EXCEPT ![l] = r]
    BY <1>16, <1>1, <2>1 DEF L!SaveList
  <2>3. c.name \in Name
    <3>1. c.op = "rename" \/ (c.op = "filters" /\ c.at = "found")
      BY <1>16, ListFacts DEF L!SaveList
    <3> QED BY <1>2, <3>1 DEF Fit
  <2>4. r.entries \in L!Entries
    BY <1>1, <1>5, <2>1
  <2>5. r \in L!Rows
    BY <2>3, <2>4 DEF L!Rows
  <2> HIDE DEF r
  <2> QED BY <1>1, <1>4, <2>1, <2>2, <2>5
<1>17. CASE L!DeleteList(i)
  <2>1. l \in List /\ UNCHANGED <<cooldown, refreshes>>
    BY <1>11, <1>17
  <2>2. filled' = filled \ {l} /\ row' = [row EXCEPT ![l] = None]
    BY <1>17 DEF L!DeleteList
  <2> QED BY <1>1, <1>4, <2>1, <2>2
<1> QED BY <1>8, <1>9, <1>10, <1>12, <1>13, <1>14, <1>15, <1>16, <1>17 DEF L!Serve, ReadOne

-----------------------------------------------------------------------------
(* CardLists: sending, answers, faults.                                     *)

\* The request c is sent; of the tab's requests some show their change at once.
SendFact(c) ==
    /\ c \in GoodCalls /\ c.at = "sent" /\ listCalls' = Append(listCalls, c)
    /\ overlapped' = (overlapped \/ listCalls # <<>>)
    /\ UNCHANGED <<row, cooldown, refreshes, filled, listsBroken>>
    /\ ~c.tab => disturbed' = TRUE /\ shown' = shown
    /\ c.tab => disturbed' = disturbed /\ c.op \in {"create", "rename", "delete", "replace", "add"}
    /\ c.tab /\ c.op = "create" => c.list = None /\ shown' = shown
    /\ c.tab /\ c.op = "add" => c.list \in L!Shown /\ shown' = shown
    /\ c.tab /\ c.op \in {"rename", "delete", "replace"} =>
          /\ c.list \in L!Shown
          /\ \E v \in L!Views \cup {None} :
               /\ shown' = [shown EXCEPT ![c.list] = v]
               /\ v = None <=> c.op = "delete"
               /\ c.op = "rename" => v.name = c.name /\ v.cards = shown[c.list].cards
               /\ c.op = "replace" => v.cards = c.cards /\ v.name = shown[c.list].name

LEMMA CallFit ==
    ASSUME NEW op \in L!Ops, NEW tab \in BOOLEAN, NEW l \in List \cup {None},
           NEW name \in Name \cup {None}, NEW cards \in L!Cards, NEW b \in [List -> L!Views \cup {None}] \cup {None},
           op # "create" => l \in List, op = "create" => b = None,
           op \in {"create", "rename"} => name \in Name,
           op = "add" => cards # <<>>,
           tab /\ op \in {"rename", "delete", "replace"} => b # None,
           b # None => l \in List /\ b[l] # None
    PROVE  /\ [L!Call(op, tab, l, name, cards) EXCEPT !.before = b] \in GoodCalls
           /\ b = None => L!Call(op, tab, l, name, cards) \in GoodCalls
<1> DEFINE c == [op |-> op, tab |-> tab, list |-> l, name |-> name, cards |-> cards,
                 before |-> b, position |-> 0, at |-> "sent"]
<1>1. c \in CallType
  BY DEF CallType, L!Places
<1>2. Fit(c)
  BY DEF Fit
<1>3. c \in GoodCalls
  BY <1>1, <1>2 DEF GoodCalls
<1>4. [L!Call(op, tab, l, name, cards) EXCEPT !.before = b] = c
  BY DEF L!Call
<1>5. b = None => L!Call(op, tab, l, name, cards) = c
  BY DEF L!Call
<1> HIDE DEF c
<1> QED BY <1>3, <1>4, <1>5

LEMMA SendDoes ==
    ASSUME ListTypes, L!Tab \/ L!Other
    PROVE  \E c \in GoodCalls : SendFact(c)
<1>1. /\ shown \in [List -> L!Views \cup {None}] /\ listCalls \in Seq(GoodCalls)
  BY DEF ListTypes
<1>2. /\ None \notin L!Views /\ None \notin List /\ None \notin [List -> L!Views \cup {None}]
      /\ Known \subseteq Card /\ Contents \subseteq L!Cards /\ MaxLength \in Nat \ {0}
  BY ShopperAssumption DEF L!ListsAssumption
<1>3. \A l \in L!Shown : l \in List /\ shown[l] # None /\ shown[l] \in L!Views /\ shown[l].cards \in L!Cards
                           /\ shown[l].name \in Name
  BY <1>1 DEF L!Shown, L!Views
<1>4. \A k \in Known : <<k>> \in L!Cards /\ <<k>> # <<>>
  <2> TAKE k \in Known
  <2>1. <<k>> \in Seq(Card) /\ Len(<<k>>) = 1 /\ 1 <= MaxLength
    BY <1>2
  <2>2. <<k>> \in L!Cards
    BY <2>1, CardsFacts
  <2> QED BY <2>2
<1>5. ASSUME NEW l \in L!Shown, NEW op \in {"rename", "delete", "replace"}, NEW name \in Name \cup {None},
             NEW cards \in L!Cards, NEW v \in L!Views \cup {None}, L!Optimistic(l, op, name, cards, v),
             op = "rename" => name \in Name /\ v = [shown[l] EXCEPT !.name = name],
             op = "delete" => v = None,
             op = "replace" => v = [shown[l] EXCEPT !.cards = cards]
      PROVE  \E c \in GoodCalls : SendFact(c)
  <2> DEFINE c == [L!Call(op, TRUE, l, name, cards) EXCEPT !.before = shown]
  <2>1. c \in GoodCalls
    <3>1. op \in L!Ops /\ shown \in [List -> L!Views \cup {None}] \cup {None} /\ shown # None /\ op # "create" /\ op # "add"
      BY <1>1, <1>2 DEF L!Ops
    <3> QED BY <1>3, <1>5, <3>1, CallFit
  <2>2. /\ c.at = "sent" /\ c.tab = TRUE /\ c.op = op /\ c.list = l /\ c.name = name /\ c.cards = cards
    BY DEF L!Call
  <2>3. /\ listCalls' = Append(listCalls, c) /\ overlapped' = (overlapped \/ listCalls # <<>>)
        /\ UNCHANGED <<row, cooldown, refreshes, filled, listsBroken>> /\ disturbed' = disturbed
        /\ shown' = [shown EXCEPT ![l] = v]
    BY <1>5 DEF L!Optimistic, L!Send
  <2>4. v = None <=> op = "delete"
    <3>1. op # "delete" => v.name = IF op = "rename" THEN name ELSE shown[l].name
      BY <1>3, <1>5 DEF L!Views
    <3>2. op # "delete" => v \in L!Views
      <4>1. shown[l] \in L!Views
        BY <1>3
      <4> QED BY <1>5, <4>1 DEF L!Views
    <3> QED BY <1>2, <1>5, <3>2
  <2>5. op = "rename" => v.name = name /\ v.cards = shown[l].cards
    BY <1>3, <1>5 DEF L!Views
  <2>6. op = "replace" => v.cards = cards /\ v.name = shown[l].name
    BY <1>3, <1>5 DEF L!Views
  <2> HIDE DEF c
  <2>7. \E w \in L!Views \cup {None} :
               /\ shown' = [shown EXCEPT ![c.list] = w]
               /\ w = None <=> c.op = "delete"
               /\ c.op = "rename" => w.name = c.name /\ w.cards = shown[c.list].cards
               /\ c.op = "replace" => w.cards = c.cards /\ w.name = shown[c.list].name
    <3> WITNESS v \in L!Views \cup {None}
    <3> QED BY <2>2, <2>3, <2>4, <2>5, <2>6
  <2> QED BY <2>1, <2>2, <2>3, <2>7 DEF SendFact
<1>6. ASSUME NEW op \in L!Ops, NEW tab \in BOOLEAN, NEW l \in List \cup {None},
             NEW name \in Name \cup {None}, NEW cards \in L!Cards,
             op # "create" => l \in List, op \in {"create", "rename"} => name \in Name,
             op = "add" => cards # <<>>, L!Send(L!Call(op, tab, l, name, cards)),
             ~tab => disturbed' = TRUE, shown' = shown,
             tab => disturbed' = disturbed /\ ((op = "create" /\ l = None) \/ (op = "add" /\ l \in L!Shown))
      PROVE  \E c \in GoodCalls : SendFact(c)
  <2> DEFINE c == L!Call(op, tab, l, name, cards)
             b == None
  <2>1. c \in GoodCalls
    <3>1. None \in [List -> L!Views \cup {None}] \cup {None}
      OBVIOUS
    <3>2. ~(tab /\ op \in {"rename", "delete", "replace"})
      BY <1>6
    <3> QED BY <1>6, <3>1, <3>2, CallFit
  <2>2. /\ c.at = "sent" /\ c.tab = tab /\ c.op = op /\ c.list = l
    BY DEF L!Call
  <2>3. /\ listCalls' = Append(listCalls, c) /\ overlapped' = (overlapped \/ listCalls # <<>>)
        /\ UNCHANGED <<row, cooldown, refreshes, filled, listsBroken>>
    BY <1>6 DEF L!Send
  <2> HIDE DEF c
  <2> QED BY <1>6, <2>1, <2>2, <2>3 DEF SendFact
<1>7. ASSUME NEW op \in L!Ops, NEW l \in List \cup {None}, NEW name \in Name \cup {None}, NEW cards \in L!Cards,
             op # "create" => l \in List, op \in {"create", "rename"} => name \in Name,
             op = "add" => cards # <<>>, L!Foreign(op, l, name, cards)
      PROVE  \E c \in GoodCalls : SendFact(c)
  <2>1. L!Send(L!Call(op, FALSE, l, name, cards)) /\ disturbed' = TRUE /\ shown' = shown
    BY <1>7 DEF L!Foreign
  <2> QED BY <1>6, <1>7, <2>1
<1>8. CASE L!Tab
  <2>1. ASSUME NEW name \in Name, NEW cards \in Contents, L!Save(name, cards)
        PROVE  \E c \in GoodCalls : SendFact(c)
    <3>1. L!Send(L!Call("create", TRUE, None, name, cards)) /\ shown' = shown /\ disturbed' = disturbed
      BY <2>1 DEF L!Save
    <3>2. "create" \in L!Ops /\ cards \in L!Cards /\ TRUE \in BOOLEAN /\ name \in Name \cup {None}
      BY <1>2 DEF L!Ops
    <3> QED BY <1>6, <3>1, <3>2
  <2>2. ASSUME NEW l \in List, L!RemoveList(l)
        PROVE  \E c \in GoodCalls : SendFact(c)
    BY <1>5, <2>2, CardsFacts DEF L!RemoveList
  <2>3. ASSUME NEW l \in List, NEW name \in Name, L!Rename(l, name)
        PROVE  \E c \in GoodCalls : SendFact(c)
    <3>1. l \in L!Shown /\ L!Optimistic(l, "rename", name, <<>>, [shown[l] EXCEPT !.name = name])
      BY <2>3 DEF L!Rename
    <3>2. [shown[l] EXCEPT !.name = name] \in L!Views
      BY <1>3, <3>1 DEF L!Views
    <3> QED BY <1>5, <3>1, <3>2, CardsFacts
  <2>4. ASSUME NEW l \in L!Shown, NEW cards \in L!Cards,
               L!Optimistic(l, "replace", None, cards, [shown[l] EXCEPT !.cards = cards])
        PROVE  \E c \in GoodCalls : SendFact(c)
    <3>1. [shown[l] EXCEPT !.cards = cards] \in L!Views
      BY <1>3, <2>4 DEF L!Views
    <3> QED BY <1>5, <2>4, <3>1
  <2>5. ASSUME NEW l \in List, NEW k \in Card, L!AddCardToList(l, k)
        PROVE  \E c \in GoodCalls : SendFact(c)
    <3>1. l \in L!Shown /\ Len(shown[l].cards) < MaxLength
      BY <2>5 DEF L!AddCardToList
    <3> DEFINE s == shown[l].cards
               t == Append(s, k)
    <3>2. s \in Seq(Card) /\ Len(s) \in Nat
      BY <1>3, <3>1, CardsFacts
    <3>3. t \in Seq(Card) /\ Len(t) <= MaxLength
      BY <1>2, <3>1, <3>2
    <3>4. t \in L!Cards
      BY <3>3, CardsFacts
    <3>5. L!Optimistic(l, "replace", None, t, [shown[l] EXCEPT !.cards = t])
      BY <2>5 DEF L!AddCardToList
    <3> QED BY <2>4, <3>1, <3>4, <3>5
  <2>6. ASSUME NEW l \in List, NEW k \in Known, L!AddCardToListById(l, k)
        PROVE  \E c \in GoodCalls : SendFact(c)
    <3>1. l \in L!Shown /\ L!Send(L!Call("add", TRUE, l, None, <<k>>)) /\ shown' = shown /\ disturbed' = disturbed
      BY <2>6 DEF L!AddCardToListById
    <3>2. "add" \in L!Ops /\ TRUE \in BOOLEAN
      BY DEF L!Ops
    <3> QED BY <1>4, <1>6, <3>1, <3>2
  <2>7. ASSUME NEW l \in List, NEW i \in 1 .. MaxLength, L!RemoveCardFromList(l, i)
        PROVE  \E c \in GoodCalls : SendFact(c)
    <3> DEFINE s == shown[l].cards
               t == L!RemoveAt(s, i)
    <3>1. l \in L!Shown /\ i \in DOMAIN s /\ Len(s) > 1
      BY <2>7 DEF L!RemoveCardFromList
    <3>2. s \in Seq(Card) /\ Len(s) \in 0 .. MaxLength /\ i \in 1 .. Len(s)
      BY <1>3, <3>1, CardsFacts
    <3>3. L!Optimistic(l, "replace", None, t, [shown[l] EXCEPT !.cards = t])
      BY <2>7 DEF L!RemoveCardFromList
    <3>4. t \in Seq(Card) /\ Len(t) <= MaxLength
      <4>1. t \in Seq(Card) /\ Len(t) = Len(s) - 1
        BY <3>2, ListRemoval
      <4> HIDE DEF t
      <4> QED BY <1>2, <3>2, <4>1
    <3> HIDE DEF t
    <3>5. t \in L!Cards
      BY <3>4, CardsFacts
    <3> QED BY <2>4, <3>1, <3>3, <3>5
  <2> QED BY <1>8, <2>1, <2>2, <2>3, <2>5, <2>6, <2>7 DEF L!Tab
<1>9. CASE L!Other
  <2>1. {"create", "replace", "add", "rename", "filters", "delete", "refresh"} \subseteq L!Ops /\ <<>> \in L!Cards
    BY CardsFacts DEF L!Ops
  <2>2. ASSUME NEW name \in Name, NEW cards \in Contents, L!Foreign("create", None, name, cards)
        PROVE  \E c \in GoodCalls : SendFact(c)
    BY <1>2, <1>7, <2>1, <2>2
  <2>3. ASSUME NEW l \in List, NEW cards \in Contents, L!Foreign("replace", l, None, cards)
        PROVE  \E c \in GoodCalls : SendFact(c)
    BY <1>2, <1>7, <2>1, <2>3
  <2>4. ASSUME NEW l \in List, NEW k \in Known, L!Foreign("add", l, None, <<k>>)
        PROVE  \E c \in GoodCalls : SendFact(c)
    BY <1>4, <1>7, <2>1, <2>4
  <2>5. ASSUME NEW l \in List, NEW name \in Name, L!Foreign("rename", l, name, <<>>)
        PROVE  \E c \in GoodCalls : SendFact(c)
    BY <1>7, <2>1, <2>5
  <2>6. ASSUME NEW l \in List, NEW op \in {"filters", "delete", "refresh"}, L!Foreign(op, l, None, <<>>)
        PROVE  \E c \in GoodCalls : SendFact(c)
    BY <1>7, <2>1, <2>6
  <2> QED BY <1>9, <2>2, <2>3, <2>4, <2>5, <2>6 DEF L!Other
<1> QED BY <1>8, <1>9

\* Request i is over and gone, or goes to the end of the row as a fetch.
GoneFact(i) ==
    /\ listCalls' \in Seq(GoodCalls) /\ Len(listCalls') = Len(listCalls) - 1
    /\ \A j \in 1 .. Len(listCalls) - 1 : listCalls'[j] = listCalls[Moved(i, j)]
AgainFact(i) ==
    LET g == listCalls'[Len(listCalls)] IN
    /\ listCalls' \in Seq(GoodCalls) /\ Len(listCalls') = Len(listCalls)
    /\ \A j \in 1 .. Len(listCalls) - 1 : listCalls'[j] = listCalls[Moved(i, j)]
    /\ g.at = "sent" /\ g.tab = listCalls[i].tab /\ g.list = listCalls[i].list
    /\ g.op = IF listCalls[i].op = "create" THEN "getNew" ELSE "get"
AnswerFact(i) ==
    /\ CallOver(listCalls[i]) /\ UNCHANGED <<row, cooldown, refreshes, filled, overlapped, listsBroken>>
    /\ listCalls[i].tab => \A j \in 1 .. Len(listCalls) : j < i => ~listCalls[j].tab
    /\ \/ GoneFact(i) /\ L!Ignored(i) /\ shown' = shown /\ disturbed' = disturbed
       \/ GoneFact(i) /\ L!ShowList(i) /\ shown' = L!Fetched(listCalls[i]) /\ disturbed' = disturbed
       \/ GoneFact(i) /\ L!RollBack(i) /\ shown' = L!RolledBack(listCalls[i]) /\ disturbed' = TRUE
       \/ AgainFact(i) /\ L!FetchList(i) /\ shown' = shown /\ disturbed' = disturbed

LEMMA AnswerDoes ==
    ASSUME ListTypes, NEW i \in 1 .. Len(listCalls), L!Answer(i)
    PROVE  AnswerFact(i)
<1> DEFINE c == listCalls[i]
           w == L!Without(i)
<1>1. c \in GoodCalls /\ c \in CallType /\ Fit(c) /\ listCalls \in Seq(GoodCalls) /\ Len(listCalls) \in Nat
  BY ListFacts
<1>2. w \in Seq(GoodCalls) /\ Len(w) = Len(listCalls) - 1 /\ \A j \in 1 .. Len(listCalls) - 1 : w[j] = listCalls[Moved(i, j)]
  BY <1>1, ListRemoval DEF L!Without
<1>3. L!Done(i) /\ L!Received
  BY DEF L!Answer, L!Ignored, L!FetchList, L!ShowList, L!RollBack
<1>4. CallOver(c) /\ UNCHANGED <<row, cooldown, refreshes, filled, overlapped, listsBroken>>
  BY <1>3 DEF L!Done, L!Received, CallOver
<1>5. ASSUME NEW j \in 1 .. Len(listCalls), j < i, c.tab PROVE ~listCalls[j].tab
  <2>1. j \in 1 .. (i - 1)
    BY <1>5, <1>1
  <2> QED BY <1>3, <1>5, <2>1 DEF L!Done
<1>6. listCalls' = w => GoneFact(i)
  BY <1>2 DEF GoneFact
<1>7. CASE L!FetchList(i)
  <2> DEFINE o == IF c.op = "create" THEN "getNew" ELSE "get"
             g == [c EXCEPT !.op = o, !.at = "sent"]
  <2>1. c.at = "answered" /\ c.op \in {"create", "replace", "add"} /\ listCalls' = Append(w, g)
    BY <1>7 DEF L!FetchList
  <2>2. /\ g \in CallType /\ g.at = "sent" /\ g.tab = c.tab /\ g.list = c.list /\ g.name = c.name
        /\ g.op = (IF c.op = "create" THEN "getNew" ELSE "get") /\ g.before = c.before /\ g.cards = c.cards
    <3>1. o \in L!Ops /\ "sent" \in L!Places
      BY DEF L!Ops, L!Places
    <3>2. c \in CallType
      BY <1>1
    <3> HIDE DEF o, c
    <3>3. /\ g \in CallType /\ g.at = "sent" /\ g.tab = c.tab /\ g.list = c.list /\ g.name = c.name
          /\ g.op = o /\ g.before = c.before /\ g.cards = c.cards
      BY <3>1, <3>2 DEF CallType
    <3> QED BY <3>3 DEF o
  <2> HIDE DEF g
  <2>3. Fit(g)
    BY <1>1, <2>1, <2>2 DEF Fit
  <2>4. g \in GoodCalls
    BY <2>2, <2>3 DEF GoodCalls
  <2>5. AgainFact(i)
    <3> HIDE DEF w
    <3>1. /\ Append(w, g) \in Seq(GoodCalls) /\ Len(Append(w, g)) = Len(w) + 1
          /\ \A j \in 1 .. Len(w) : Append(w, g)[j] = w[j]
          /\ Append(w, g)[Len(w) + 1] = g
      BY <1>2, <2>4, AppendFacts
    <3>2. Len(w) + 1 = Len(listCalls)
      BY <1>1, <1>2
    <3> DEFINE a == Append(w, g)
    <3>3. a \in Seq(GoodCalls) /\ Len(a) = Len(listCalls) /\ a[Len(listCalls)] = g
          /\ \A j \in 1 .. Len(listCalls) - 1 : a[j] = listCalls[Moved(i, j)]
      <4>1. \A j \in 1 .. Len(listCalls) - 1 : a[j] = w[j]
        BY <1>2, <3>1
      <4> HIDE DEF a
      <4> QED BY <1>2, <3>1, <3>2, <4>1 DEF a
    <3>4. listCalls' = a
      BY <2>1
    <3> HIDE DEF a
    <3> QED BY <2>2, <3>3, <3>4 DEF AgainFact
  <2>6. shown' = shown /\ disturbed' = disturbed
    BY <1>7 DEF L!FetchList
  <2> QED BY <1>4, <1>5, <1>7, <2>5, <2>6 DEF AnswerFact
<1>8. CASE L!Ignored(i)
  <2>1. listCalls' = w /\ shown' = shown /\ disturbed' = disturbed
    BY <1>8 DEF L!Ignored
  <2> QED BY <1>4, <1>5, <1>6, <1>8, <2>1 DEF AnswerFact
<1>9. CASE L!ShowList(i)
  <2>1. listCalls' = w /\ shown' = L!Fetched(c) /\ disturbed' = disturbed
    BY <1>9 DEF L!ShowList
  <2> QED BY <1>4, <1>5, <1>6, <1>9, <2>1 DEF AnswerFact
<1>10. CASE L!RollBack(i)
  <2>1. listCalls' = w /\ shown' = L!RolledBack(c) /\ disturbed' = TRUE
    BY <1>10 DEF L!RollBack
  <2> QED BY <1>4, <1>5, <1>6, <1>10, <2>1 DEF AnswerFact
<1> QED BY <1>7, <1>8, <1>9, <1>10 DEF L!Answer

LEMMA ShownKept ==
    ASSUME ListTypes, NEW i \in 1 .. Len(listCalls), L!ShowList(i) \/ L!RollBack(i)
    PROVE  shown' \in [List -> L!Views \cup {None}]
<1> DEFINE c == listCalls[i]
           l == c.list
<1>1. c \in GoodCalls /\ c \in CallType /\ Fit(c)
  BY ListFacts
<1>2. shown \in [List -> L!Views \cup {None}] /\ None \notin L!Views
  BY ShopperAssumption DEF ListTypes, L!ListsAssumption
<1>3. \A k \in List, v \in L!Views : [shown EXCEPT ![k] = v] \in [List -> L!Views \cup {None}]
  BY <1>2
<1>4. /\ \A v \in L!Views, s \in L!Cards : [v EXCEPT !.cards = s] \in L!Views
      /\ \A v \in L!Views, n \in Name : [v EXCEPT !.name = n] \in L!Views
      /\ \A v \in L!Views : v.cards \in L!Cards /\ v.name \in Name
      /\ \A s \in L!Cards, n \in Name : [name |-> n, cards |-> s] \in L!Views
  BY DEF L!Views
<1>5. CASE L!ShowList(i)
  <2>1. c.op \in {"get", "getNew"} /\ c.at = "answered" /\ shown' = L!Fetched(c)
    BY <1>5 DEF L!ShowList
  <2>2. l \in List /\ c.name \in Name /\ c.cards \in L!Cards
    BY <1>1, <2>1 DEF Fit, CallType
  <2>3. CASE c.op = "getNew"
    <3> DEFINE v == [name |-> c.name, cards |-> c.cards]
    <3>1. shown' = [shown EXCEPT ![l] = v]
      BY <2>1, <2>3 DEF L!Fetched
    <3>2. v \in L!Views
      BY <1>4, <2>2
    <3> HIDE DEF v
    <3> QED BY <1>3, <2>2, <3>1, <3>2
  <2>4. CASE c.op = "get" /\ shown[l] # None
    <3> DEFINE v == [shown[l] EXCEPT !.cards = c.cards]
    <3>1. shown' = [shown EXCEPT ![l] = v]
      BY <2>1, <2>4 DEF L!Fetched
    <3>2. v \in L!Views
      <4>1. shown[l] \in L!Views
        BY <1>2, <2>2, <2>4
      <4> QED BY <1>4, <2>2, <4>1
    <3> HIDE DEF v
    <3> QED BY <1>3, <2>2, <3>1, <3>2
  <2>5. CASE c.op = "get" /\ shown[l] = None
    <3>1. shown' = shown
      BY <2>1, <2>5 DEF L!Fetched
    <3> QED BY <1>2, <3>1
  <2> QED BY <2>1, <2>3, <2>4, <2>5
<1>6. CASE L!RollBack(i)
  <2>1. shown' = L!RolledBack(c) /\ c.tab
    BY <1>6 DEF L!RollBack
  <2>2. CASE c.op = "delete"
    <3>1. shown' = c.before
      BY <2>1, <2>2 DEF L!RolledBack
    <3>2. c.before \in [List -> L!Views \cup {None}]
      BY <1>1, <2>1, <2>2 DEF Fit, CallType
    <3> QED BY <3>1, <3>2
  <2>3. ASSUME c.before # None
        PROVE  l \in List /\ c.before[l] \in L!Views
    BY <1>1, <2>3 DEF Fit, CallType
  <2>4. CASE c.op = "rename" /\ shown[l] # None
    <3> DEFINE v == [shown[l] EXCEPT !.name = c.before[l].name]
    <3>1. shown' = [shown EXCEPT ![l] = v]
      BY <2>1, <2>4 DEF L!RolledBack
    <3>2. l \in List /\ v \in L!Views
      <4>1. c.before # None
        BY <1>1, <2>1, <2>4 DEF Fit
      <4>2. l \in List /\ c.before[l] \in L!Views /\ shown[l] \in L!Views
        BY <1>2, <2>3, <2>4, <4>1
      <4> QED BY <1>4, <4>2
    <3> HIDE DEF v
    <3> QED BY <1>3, <3>1, <3>2
  <2>5. CASE c.op \in {"replace", "get"} /\ c.before # None /\ shown[l] # None
    <3> DEFINE v == [shown[l] EXCEPT !.cards = c.before[l].cards]
    <3>1. shown' = [shown EXCEPT ![l] = v]
      BY <2>1, <2>5 DEF L!RolledBack
    <3>2. l \in List /\ v \in L!Views
      <4>1. l \in List /\ c.before[l] \in L!Views /\ shown[l] \in L!Views
        BY <1>2, <2>3, <2>5
      <4> QED BY <1>4, <4>1
    <3> HIDE DEF v
    <3> QED BY <1>3, <3>1, <3>2
  <2>6. CASE /\ c.op # "delete" /\ ~(c.op = "rename" /\ shown[l] # None)
             /\ ~(c.op \in {"replace", "get"} /\ c.before # None /\ shown[l] # None)
    <3>1. shown' = shown
      BY <2>1, <2>6 DEF L!RolledBack
    <3> QED BY <1>2, <3>1
  <2> QED BY <2>2, <2>4, <2>5, <2>6
<1> QED BY <1>5, <1>6

LEMMA BreakDoes ==
    ASSUME ListTypes, NEW i \in 1 .. Len(listCalls), L!Break(i)
    PROVE  /\ Becomes(i, listCalls'[i]) /\ SameBut(listCalls[i], listCalls'[i], "failed") /\ ~CallOver(listCalls[i])
           /\ listsBroken' = TRUE /\ cooldown' \in BOOLEAN
           /\ UNCHANGED <<row, shown, refreshes, filled, overlapped, disturbed>>
<1>1. /\ listCalls[i] \in CallType /\ listCalls \in Seq(GoodCalls) /\ cooldown \in BOOLEAN
  BY ListFacts DEF ListTypes
<1>2. /\ L!Move(i, "failed") /\ listsBroken' = TRUE /\ ~CallOver(listCalls[i])
      /\ UNCHANGED <<row, shown, refreshes, filled, overlapped, disturbed>>
      /\ cooldown' \in {cooldown} \cup (IF listCalls[i].at \in {"claimed", "queued"} THEN {FALSE} ELSE {})
  BY DEF L!Break, CallOver
<1>3. cooldown' = cooldown \/ cooldown' = FALSE
  BY <1>2
<1>4. cooldown' \in BOOLEAN
  BY <1>1, <1>3, Zenon
<1>5. "failed" \in L!Places /\ "failed" # "placed"
  BY DEF L!Places
<1>6. Becomes(i, listCalls'[i]) /\ SameBut(listCalls[i], listCalls'[i], "failed")
  BY <1>1, <1>2, <1>5, CallMoves
<1> QED BY <1>2, <1>4, <1>6

LEMMA ListsInit == L!Init => ListTypes
<1> SUFFICES ASSUME L!Init PROVE ListTypes
  OBVIOUS
<1>1. /\ StoredLists \in [List -> {v \in L!Views : v.cards # <<>>} \cup {None}] /\ None \notin L!Views
  BY ShopperAssumption DEF L!ListsAssumption
<1>2. shown \in [List -> L!Views \cup {None}]
  <2>1. shown = StoredLists
    BY DEF L!Init
  <2> QED BY <1>1, <2>1
<1>3. row \in [List -> L!Rows \cup {None}]
  <2> DEFINE r(l) == IF StoredLists[l] = None THEN None
                     ELSE [name |-> StoredLists[l].name, entries |-> StoredLists[l].cards, expired |-> FALSE]
  <2>1. row = [l \in List |-> r(l)]
    BY DEF L!Init
  <2>2. ASSUME NEW l \in List PROVE r(l) \in L!Rows \cup {None}
    <3>1. StoredLists[l] # None => StoredLists[l].name \in Name /\ StoredLists[l].cards \in L!Entries
      BY <1>1, CardsFacts DEF L!Views
    <3> QED BY <3>1 DEF L!Rows
  <2> HIDE DEF r
  <2> QED BY <2>1, <2>2
<1>4. listCalls \in Seq(GoodCalls)
  BY DEF L!Init
<1>5. filled \subseteq List
  BY DEF L!Init
<1>6. cooldown \in BOOLEAN /\ refreshes \in Nat /\ overlapped \in BOOLEAN /\ listsBroken \in BOOLEAN /\ disturbed \in BOOLEAN
  BY DEF L!Init
<1> QED BY <1>2, <1>3, <1>4, <1>5, <1>6 DEF ListTypes

LEMMA ListsNext == ListTypes /\ [L!Next]_(L!vars) => ListTypes'
<1> SUFFICES ASSUME ListTypes, [L!Next]_(L!vars) PROVE ListTypes'
  OBVIOUS
<1>1. /\ row \in [List -> L!Rows \cup {None}] /\ shown \in [List -> L!Views \cup {None}]
      /\ listCalls \in Seq(GoodCalls)
      /\ cooldown \in BOOLEAN /\ refreshes \in Nat /\ filled \subseteq List
      /\ overlapped \in BOOLEAN /\ listsBroken \in BOOLEAN /\ disturbed \in BOOLEAN
  BY DEF ListTypes
<1>2. L!Indices = 1 .. Len(listCalls)
  BY ListFacts
<1>3. CASE L!Tab \/ L!Other
  <2>1. PICK c \in GoodCalls : SendFact(c)
    BY <1>3, SendDoes
  <2>2. listCalls' \in Seq(GoodCalls)
    BY <1>1, <2>1, AppendFacts DEF SendFact
  <2>3. overlapped' \in BOOLEAN /\ disturbed' \in BOOLEAN
    <3>1. overlapped' = (overlapped \/ listCalls # <<>>) /\ (c.tab => disturbed' = disturbed) /\ (~c.tab => disturbed' = TRUE)
      BY <2>1 DEF SendFact
    <3> QED BY <1>1, <3>1, Zenon
  <2>4. shown' \in [List -> L!Views \cup {None}]
    <3>1. CASE ~c.tab \/ c.op \in {"create", "add"}
      BY <1>1, <2>1, <3>1 DEF SendFact
    <3>2. CASE c.tab /\ c.op \in {"rename", "delete", "replace"}
      <4>1. c.list \in List /\ \E v \in L!Views \cup {None} : shown' = [shown EXCEPT ![c.list] = v]
        BY <2>1, <3>2 DEF SendFact, L!Shown
      <4> QED BY <1>1, <4>1
    <3> QED BY <2>1, <3>1, <3>2 DEF SendFact
  <2>5. UNCHANGED <<row, cooldown, refreshes, filled, listsBroken>>
    BY <2>1 DEF SendFact
  <2> QED BY <1>1, <2>2, <2>3, <2>4, <2>5 DEF ListTypes
<1>4. ASSUME NEW i \in 1 .. Len(listCalls), L!Serve(i)
      PROVE  ListTypes'
  <2>1. /\ listCalls' \in Seq(GoodCalls) /\ UNCHANGED <<shown, overlapped, listsBroken, disturbed>>
    BY <1>4, ServedOne DEF Becomes
  <2>2. /\ row' \in [List -> L!Rows \cup {None}] /\ filled' \subseteq List
        /\ cooldown' \in BOOLEAN /\ refreshes' \in Nat
    BY <1>4, RowsKept
  <2> QED BY <1>1, <2>1, <2>2 DEF ListTypes
<1>5. ASSUME NEW i \in 1 .. Len(listCalls), L!Answer(i)
      PROVE  ListTypes'
  <2>1. AnswerFact(i)
    BY <1>5, AnswerDoes
  <2>2. listCalls' \in Seq(GoodCalls) /\ UNCHANGED <<row, cooldown, refreshes, filled, overlapped, listsBroken>>
    BY <2>1 DEF AnswerFact, GoneFact, AgainFact
  <2>3. disturbed' = disturbed \/ disturbed' = TRUE
    BY <2>1 DEF AnswerFact
  <2>4. disturbed' \in BOOLEAN
    BY <1>1, <2>3, Zenon
  <2>5. shown' \in [List -> L!Views \cup {None}]
    <3>1. shown' = shown \/ L!ShowList(i) \/ L!RollBack(i)
      BY <2>1 DEF AnswerFact
    <3> QED BY <1>1, <3>1, ShownKept
  <2> QED BY <1>1, <2>2, <2>4, <2>5 DEF ListTypes
<1>6. ASSUME NEW i \in 1 .. Len(listCalls), L!Break(i)
      PROVE  ListTypes'
  <2>1. /\ listCalls' \in Seq(GoodCalls) /\ listsBroken' = TRUE /\ cooldown' \in BOOLEAN
        /\ UNCHANGED <<row, shown, refreshes, filled, overlapped, disturbed>>
    BY <1>6, BreakDoes DEF Becomes
  <2>2. listsBroken' \in BOOLEAN
    BY <2>1
  <2> QED BY <1>1, <2>1, <2>2 DEF ListTypes
<1>7. ASSUME NEW l \in List, L!Expire(l)
      PROVE  ListTypes'
  <2>1. /\ row' = [row EXCEPT ![l].expired = TRUE] /\ disturbed' = TRUE /\ row[l] \in L!Rows
        /\ UNCHANGED <<shown, listCalls, cooldown, refreshes, filled, overlapped, listsBroken>>
    BY <1>1, <1>7 DEF L!Expire, L!Live
  <2>2. [row[l] EXCEPT !.expired = TRUE] \in L!Rows
    BY <2>1 DEF L!Rows
  <2>3. row' \in [List -> L!Rows \cup {None}]
    BY <1>1, <2>1, <2>2
  <2>4. disturbed' \in BOOLEAN
    BY <2>1
  <2> QED BY <1>1, <2>1, <2>3, <2>4 DEF ListTypes
<1>8. CASE L!CooldownEnds
  <2>1. /\ cooldown' = FALSE /\ refreshes' = 0
        /\ UNCHANGED <<row, shown, listCalls, filled, overlapped, listsBroken, disturbed>>
    BY <1>8 DEF L!CooldownEnds
  <2>2. cooldown' \in BOOLEAN /\ refreshes' \in Nat
    BY <2>1
  <2> QED BY <1>1, <2>1, <2>2 DEF ListTypes
<1>9. CASE UNCHANGED L!vars
  BY <1>1, <1>9 DEF L!vars, ListTypes
<1> QED BY <1>2, <1>3, <1>4, <1>5, <1>6, <1>7, <1>8, <1>9 DEF L!Next

LEMMA ListsTyped == ListTypes => L!TypeOK
<1> SUFFICES ASSUME ListTypes PROVE L!TypeOK
  OBVIOUS
<1>1. \A i \in L!Indices : listCalls[i].op \in L!Ops /\ listCalls[i].at \in L!Places
  BY ListFacts DEF CallType
<1>2. {overlapped, listsBroken, disturbed} \subseteq BOOLEAN
  BY DEF ListTypes
<1> QED BY <1>1, <1>2 DEF ListTypes, L!TypeOK

-----------------------------------------------------------------------------
(* CardLists: one refresh while the key lives.                              *)

\* Where request j of the next row of requests stood, when i has left it.
LEMMA CameFrom ==
    ASSUME ListTypes, NEW i \in 1 .. Len(listCalls), AnswerFact(i), NEW j \in 1 .. Len(listCalls')
    PROVE  \/ /\ j \in 1 .. Len(listCalls) - 1 /\ Moved(i, j) \in 1 .. Len(listCalls) /\ Moved(i, j) # i
              /\ listCalls'[j] = listCalls[Moved(i, j)]
           \/ /\ j = Len(listCalls) /\ AgainFact(i) /\ L!FetchList(i)
<1>1. Len(listCalls) \in Nat
  BY ListFacts
<1>2. CASE GoneFact(i)
  <2>1. j \in 1 .. Len(listCalls) - 1
    BY <1>2 DEF GoneFact
  <2> QED BY <1>1, <1>2, <2>1, MovedFacts DEF GoneFact
<1>3. CASE AgainFact(i) /\ L!FetchList(i)
  <2>1. j = Len(listCalls) \/ j \in 1 .. Len(listCalls) - 1
    BY <1>1, <1>3 DEF AgainFact
  <2> QED BY <1>1, <1>3, <2>1, MovedFacts DEF AgainFact
<1> QED BY <1>2, <1>3 DEF AnswerFact

\* Whoever has the key is the only one, and has not queued yet; a queued job leaves it.
RefreshOK ==
    ~listsBroken =>
    /\ refreshes \in {0, 1} /\ (refreshes = 1 => cooldown)
    /\ \A i \in 1 .. Len(listCalls) : listCalls[i].at = "claimed" => cooldown /\ refreshes = 0
    /\ \A i, j \in 1 .. Len(listCalls) : listCalls[i].at = "claimed" /\ listCalls[j].at = "claimed" => i = j

LEMMA RefreshServed ==
    ASSUME ListTypes, RefreshOK, NEW i \in 1 .. Len(listCalls), L!Serve(i)
    PROVE  RefreshOK'
<1>1. /\ Becomes(i, listCalls'[i]) /\ listsBroken' = listsBroken
  BY ServedOne
<1>2. /\ Len(listCalls') = Len(listCalls) /\ \A j \in 1 .. Len(listCalls) : j # i => listCalls'[j] = listCalls[j]
  BY <1>1 DEF Becomes
<1>3. CASE L!Claim(i)
  <2>1. /\ MoveFact(i)
    BY <1>3, MovesDo
  <2>2. /\ listCalls'[i].at = (IF L!Claimable THEN "claimed" ELSE "failed")
    BY <1>3, <2>1 DEF MoveFact, L!CountLists, L!InsertEntries, L!DeleteEntries, L!InsertEntry, L!TouchExpiry, L!SaveList, L!DeleteList,
       L!EnqueueRefresh, L!MarkRefresh, L!At, L!Claim
  <2>3. cooldown' = TRUE /\ refreshes' = refreshes
    BY <1>3 DEF L!Claim
  <2> QED BY <1>1, <1>2, <2>2, <2>3 DEF RefreshOK, L!Claimable
<1>4. CASE L!EnqueueRefresh(i)
  <2>1. listCalls[i].at = "claimed" /\ cooldown' = cooldown /\ refreshes' = refreshes + 1
    BY <1>4, ListFacts DEF L!EnqueueRefresh
  <2>2. listCalls'[i].at = "queued"
    <3>1. listCalls' = [listCalls EXCEPT ![i].at = "queued"]
      BY <1>4 DEF L!EnqueueRefresh, L!Move
    <3>2. listCalls[i] \in CallType /\ listCalls \in Seq(GoodCalls)
      BY ListFacts
    <3> QED BY <3>1, <3>2 DEF CallType
  <2> QED BY <1>1, <1>2, <2>1, <2>2 DEF RefreshOK
<1>5. CASE ~L!Claim(i) /\ ~L!EnqueueRefresh(i)
  <2>1. listCalls'[i].at # "claimed"
    <3>1. CASE ReadOne(i)
      BY <3>1, FindDoes, PlaceDoes, GetDoes DEF ReadOne
    <3>2. CASE L!SaveNewList(i)
      BY <3>2, SaveNewDoes
    <3>3. CASE MoveOne(i)
      <4>1. MoveFact(i)
        BY <3>3, MovesDo DEF MoveOne
      <4> QED BY <1>5, <4>1 DEF MoveFact
    <3> QED BY <3>1, <3>2, <3>3 DEF L!Serve, ReadOne, MoveOne
  <2>2. refreshes' = refreshes /\ (cooldown' = cooldown \/ cooldown' = TRUE)
    BY <1>5 DEF L!Serve, L!FindOwnedList, L!CountLists, L!SaveNewList, L!InsertEntries, L!DeleteEntries, L!NextPosition, L!InsertEntry,
       L!TouchExpiry, L!SaveList, L!DeleteList, L!GetList, L!MarkRefresh, L!ReadOnly, L!Written
  <2> QED BY <1>1, <1>2, <2>1, <2>2 DEF RefreshOK
<1> QED BY <1>3, <1>4, <1>5

LEMMA RefreshNext == ListTypes /\ RefreshOK /\ [L!Next]_(L!vars) => RefreshOK'
<1> SUFFICES ASSUME ListTypes, RefreshOK, [L!Next]_(L!vars) PROVE RefreshOK'
  OBVIOUS
<1>1. L!Indices = 1 .. Len(listCalls) /\ Len(listCalls) \in Nat /\ listCalls \in Seq(GoodCalls)
  BY ListFacts
<1>2. CASE L!Tab \/ L!Other
  <2>1. PICK c \in GoodCalls : SendFact(c)
    BY <1>2, SendDoes
  <2>2. /\ c.at = "sent" /\ listCalls' = Append(listCalls, c) /\ UNCHANGED <<cooldown, refreshes, listsBroken>>
    BY <2>1 DEF SendFact
  <2>3. /\ Len(listCalls') = Len(listCalls) + 1 /\ listCalls'[Len(listCalls) + 1] = c
        /\ \A j \in 1 .. Len(listCalls) : listCalls'[j] = listCalls[j]
        /\ \A j \in 1 .. Len(listCalls) + 1 : j \in 1 .. Len(listCalls) \/ j = Len(listCalls) + 1
    BY <1>1, <2>2, AppendFacts
  <2> QED BY <2>2, <2>3 DEF RefreshOK
<1>3. ASSUME NEW i \in 1 .. Len(listCalls), L!Answer(i)
      PROVE  RefreshOK'
  <2>1. AnswerFact(i)
    BY <1>3, AnswerDoes
  <2>2. UNCHANGED <<cooldown, refreshes, listsBroken>>
    BY <2>1 DEF AnswerFact
  <2>3. ASSUME NEW j \in 1 .. Len(listCalls'), listCalls'[j].at = "claimed"
        PROVE  j \in 1 .. Len(listCalls) - 1 /\ Moved(i, j) \in 1 .. Len(listCalls) /\ listCalls[Moved(i, j)].at = "claimed"
    <3>1. ~(j = Len(listCalls) /\ AgainFact(i))
      BY <2>3 DEF AgainFact
    <3> QED BY <2>1, <2>3, <3>1, CameFrom
  <2>4. \A j, k \in 1 .. Len(listCalls) - 1 : Moved(i, j) = Moved(i, k) => j = k
    BY <1>1 DEF Moved
  <2> QED BY <2>2, <2>3, <2>4 DEF RefreshOK
<1>4. ASSUME NEW i \in 1 .. Len(listCalls), L!Break(i)
      PROVE  RefreshOK'
  BY <1>4, BreakDoes DEF RefreshOK
<1>5. ASSUME NEW l \in List, L!Expire(l)
      PROVE  RefreshOK'
  BY <1>5 DEF L!Expire, RefreshOK
<1>6. CASE L!CooldownEnds
  BY <1>1, <1>6 DEF L!CooldownEnds, RefreshOK
<1>7. CASE UNCHANGED L!vars
  BY <1>7 DEF L!vars, RefreshOK
<1> QED BY <1>1, <1>2, <1>3, <1>4, <1>5, <1>6, <1>7, RefreshServed DEF L!Next

\* A refresh is queued at most once while its key lives, however many clients ask
\* at once: the key is set before the job is queued, and given back before another
\* job can be (list-refresh service, request).
THEOREM OneRefreshAtATime == L!Spec => []RefreshedOnce
<1>1. L!Init => RefreshOK
  BY DEF L!Init, RefreshOK
<1>2. RefreshOK => RefreshedOnce
  BY DEF RefreshOK, RefreshedOnce, L!RefreshedOnce
<1> QED BY <1>1, <1>2, ListsInit, ListsNext, RefreshNext, PTL DEF L!Spec

-----------------------------------------------------------------------------
(* CardLists: what the statements of a request do to the rows.              *)

Beside(l) == \A k \in List : k # l => row'[k] = row[k]
\* Row l is there before and after, with this name, this expiry and these entries.
RowIs(l, name, expired, entries) ==
    /\ row'[l] # None /\ row'[l].name = name /\ row'[l].expired = expired
    /\ row'[l].entries = entries

LEMMA RowSet ==
    ASSUME ListTypes, NEW l \in List, NEW name \in Name, NEW expired \in BOOLEAN, NEW entries \in L!Entries,
           \/ row' = [row EXCEPT ![l] = [name |-> name, entries |-> entries, expired |-> expired]]
           \/ row[l] # None /\ expired = row[l].expired /\ name = row[l].name /\ row' = [row EXCEPT ![l].entries = entries]
           \/ row[l] # None /\ entries = row[l].entries /\ name = row[l].name /\ row' = [row EXCEPT ![l].expired = expired]
    PROVE  Beside(l) /\ RowIs(l, name, expired, entries)
<1> DEFINE r == [name |-> name, entries |-> entries, expired |-> expired]
<1>1. row \in [List -> L!Rows \cup {None}] /\ None \notin L!Rows
  BY ShopperAssumption DEF ListTypes, L!ListsAssumption
<1>2. r \in L!Rows /\ r.name = name /\ r.entries = entries /\ r.expired = expired
  BY DEF L!Rows
<1>3. row' = [row EXCEPT ![l] = r]
  <2>1. row[l] # None => row[l] = [name |-> row[l].name, entries |-> row[l].entries, expired |-> row[l].expired]
    BY <1>1 DEF L!Rows
  <2>2. CASE row[l] # None /\ expired = row[l].expired /\ name = row[l].name /\ row' = [row EXCEPT ![l].entries = entries]
    <3>1. [row[l] EXCEPT !.entries = entries] = r
      BY <2>1, <2>2
    <3> QED BY <2>2, <3>1
  <2>3. CASE row[l] # None /\ entries = row[l].entries /\ name = row[l].name /\ row' = [row EXCEPT ![l].expired = expired]
    <3>1. [row[l] EXCEPT !.expired = expired] = r
      BY <2>1, <2>3
    <3> QED BY <2>3, <3>1
  <2> QED BY <2>2, <2>3
<1> HIDE DEF r
<1> QED BY <1>1, <1>2, <1>3 DEF Beside, RowIs

LEMMA RowsDo ==
    ASSUME ListTypes, NEW i \in 1 .. Len(listCalls), NEW l, l = listCalls[i].list
    PROVE  /\ L!InsertEntries(i) =>
                 LET entries == L!Resolved(listCalls[i].cards) IN
                 /\ \/ row' = row /\ filled' = filled /\ listCalls'[i].at # "failed" /\ entries = <<>>
                    \/ /\ row' = row /\ filled' = filled /\ listCalls'[i].at = "failed" /\ entries # <<>>
                       /\ row[l] = None \/ DOMAIN row[l].entries # {}
                    \/ /\ row[l] # None /\ Beside(l) /\ filled' = filled \cup {l} /\ listCalls'[i].at # "failed"
                       /\ RowIs(l, row[l].name, row[l].expired, L!With(row[l].entries, entries))
                       /\ entries \in L!Cards /\ entries # <<>> /\ row[l].entries \in L!Entries
           /\ L!DeleteEntries(i) =>
                 \/ row[l] = None /\ row' = row
                 \/ row[l] # None /\ Beside(l) /\ RowIs(l, row[l].name, row[l].expired, <<>>)
           /\ L!InsertEntry(i) =>
                 \/ row' = row /\ filled' = filled /\ listCalls'[i].at = "failed"
                 \/ /\ row[l] # None /\ Beside(l) /\ filled' = filled \cup {l} /\ listCalls'[i].at # "failed"
                    /\ \E entries \in L!Entries :
                         entries # <<>> /\ DOMAIN entries # {} /\ RowIs(l, row[l].name, row[l].expired, entries)
           /\ L!TouchExpiry(i) =>
                 \/ row[l] = None /\ row' = row
                 \/ row[l] # None /\ Beside(l) /\ RowIs(l, row[l].name, FALSE, row[l].entries)
           /\ L!SaveList(i) =>
                 /\ listCalls[i].name \in Name /\ Beside(l)
                 /\ RowIs(l, listCalls[i].name, FALSE, IF row[l] = None THEN <<>> ELSE row[l].entries)
           /\ L!DeleteList(i) => Beside(l) /\ row'[l] = None
<1> DEFINE c == listCalls[i]
<1>1. c \in GoodCalls /\ c \in CallType /\ Fit(c) /\ listCalls \in Seq(GoodCalls)
  BY ListFacts
<1>2. /\ row \in [List -> L!Rows \cup {None}] /\ None \notin L!Rows
  BY ShopperAssumption DEF ListTypes, L!ListsAssumption
<1>3. /\ <<>> \in L!Entries /\ DOMAIN <<>> = {}
      /\ \A r \in L!Rows : r.entries \in L!Entries /\ r.name \in Name /\ r.expired \in BOOLEAN
  BY CardsFacts DEF L!Rows
<1>4. ASSUME L!InsertEntries(i) \/ L!DeleteEntries(i) \/ L!InsertEntry(i) \/ L!TouchExpiry(i) \/ L!SaveList(i) \/ L!DeleteList(i)
      PROVE  l \in List
  BY <1>4, WritersHaveList
<1>5. ASSUME NEW place, L!Move(i, place)
      PROVE  listCalls'[i].at = place
  <2>1. listCalls' = [listCalls EXCEPT ![i].at = place]
    BY <1>5 DEF L!Move
  <2> QED BY <1>1, <2>1 DEF CallType
<1>6. l \in List /\ row[l] # None => row[l] \in L!Rows /\ row[l].name \in Name /\ row[l].expired \in BOOLEAN /\ row[l].entries \in L!Entries
  BY <1>2, <1>3
<1>7. ASSUME L!InsertEntries(i)
      PROVE  LET entries == L!Resolved(listCalls[i].cards) IN
                 /\ \/ row' = row /\ filled' = filled /\ listCalls'[i].at # "failed" /\ entries = <<>>
                    \/ /\ row' = row /\ filled' = filled /\ listCalls'[i].at = "failed" /\ entries # <<>>
                       /\ row[l] = None \/ DOMAIN row[l].entries # {}
                    \/ /\ row[l] # None /\ Beside(l) /\ filled' = filled \cup {l} /\ listCalls'[i].at # "failed"
                       /\ RowIs(l, row[l].name, row[l].expired, L!With(row[l].entries, entries))
                       /\ entries \in L!Cards /\ entries # <<>> /\ row[l].entries \in L!Entries
  <2> DEFINE entries == L!Resolved(c.cards)
             more == L!With(row[l].entries, entries)
  <2>1. l \in List /\ c.cards \in L!Cards
    BY <1>1, <1>4, <1>7 DEF CallType
  <2>2. entries \in L!Cards
    BY <2>1, ResolvedType
  <2>3. CASE entries # <<>> /\ (row[l] = None \/ DOMAIN entries \cap DOMAIN row[l].entries # {})
    <3>1. L!Move(i, "failed") /\ row' = row /\ filled' = filled
      BY <1>7, <2>3 DEF L!InsertEntries
    <3>2. listCalls'[i].at = "failed"
      BY <1>5, <3>1
    <3> QED BY <2>3, <3>1, <3>2
  <2>4. CASE ~(entries # <<>> /\ (row[l] = None \/ DOMAIN entries \cap DOMAIN row[l].entries # {}))
    <3>1. /\ row' = IF entries = <<>> THEN row ELSE [row EXCEPT ![l].entries = L!With(@, entries)]
          /\ filled' = IF entries = <<>> THEN filled ELSE filled \cup {l}
          /\ L!Move(i, IF c.op = "create" THEN "answered" ELSE "inserted")
      BY <1>7, <2>4 DEF L!InsertEntries
    <3>2. listCalls'[i].at # "failed"
      BY <1>5, <3>1
    <3>3. CASE entries # <<>>
      <4>1. row[l] # None
        BY <2>4, <3>3
      <4>2. more \in L!Entries
        BY <1>6, <2>1, <2>2, <4>1, CardsFacts, WithType
      <4>3. row' = [row EXCEPT ![l].entries = more]
        BY <1>2, <2>1, <3>1, <3>3, <4>1
      <4> HIDE DEF more
      <4>4. Beside(l) /\ RowIs(l, row[l].name, row[l].expired, more)
        BY <1>6, <2>1, <4>1, <4>2, <4>3, RowSet
      <4> QED BY <1>6, <2>1, <2>2, <3>1, <3>2, <3>3, <4>1, <4>4 DEF more
    <3> QED BY <3>1, <3>2, <3>3
  <2> QED BY <2>3, <2>4
<1>8. ASSUME L!DeleteEntries(i)
      PROVE  \/ row[l] = None /\ row' = row
             \/ row[l] # None /\ Beside(l) /\ RowIs(l, row[l].name, row[l].expired, <<>>)
  <2>1. l \in List /\ row' = IF row[l] = None THEN row ELSE [row EXCEPT ![l].entries = <<>>]
    BY <1>4, <1>8 DEF L!DeleteEntries
  <2>2. CASE row[l] # None
    <3>1. row' = [row EXCEPT ![l].entries = <<>>]
      BY <2>1, <2>2
    <3>2. <<>> \in L!Entries
      BY <1>3
    <3>3. row[l].name \in Name /\ row[l].expired \in BOOLEAN
      BY <1>2, <1>3, <2>1, <2>2
    <3> DEFINE none == <<>>
    <3>4. none \in L!Entries /\ row' = [row EXCEPT ![l].entries = none] /\ l \in List
      BY <2>1, <3>1, <3>2
    <3> HIDE DEF none, c
    <3>5. Beside(l) /\ RowIs(l, row[l].name, row[l].expired, none)
      BY <2>2, <3>3, <3>4, RowSet
    <3> QED BY <2>2, <3>5 DEF none
  <2> QED BY <2>1, <2>2
<1>9. ASSUME L!InsertEntry(i)
      PROVE  \/ row' = row /\ filled' = filled /\ listCalls'[i].at = "failed"
             \/ /\ row[l] # None /\ Beside(l) /\ filled' = filled \cup {l} /\ listCalls'[i].at # "failed"
                /\ \E entries \in L!Entries :
                     entries # <<>> /\ DOMAIN entries # {} /\ RowIs(l, row[l].name, row[l].expired, entries)
  <2> DEFINE m == [p \in {c.position} |-> c.cards[1]]
             more == L!With(row[l].entries, m)
  <2>1. l \in List
    BY <1>4, <1>9
  <2>2. CASE row[l] = None \/ c.position \in DOMAIN row[l].entries
    <3>1. L!Move(i, "failed") /\ row' = row /\ filled' = filled
      BY <1>9, <2>2 DEF L!InsertEntry
    <3> QED BY <1>5, <3>1
  <2>3. CASE ~(row[l] = None \/ c.position \in DOMAIN row[l].entries)
    <3>1. /\ row' = [row EXCEPT ![l].entries = L!With(@, m)] /\ filled' = filled \cup {l} /\ L!Move(i, "inserted")
      BY <1>9, <2>3 DEF L!InsertEntry
    <3>2. m \in L!Entries /\ c.position \in DOMAIN m
      <4>1. c.op = "add" /\ c.at = "placed"
        BY <1>9, ListFacts DEF L!InsertEntry
      <4>2. c.position \in Positions /\ c.cards # <<>> /\ c.cards \in L!Cards
        BY <1>1, <4>1 DEF Fit, CallType
      <4>3. c.cards \in Seq(Card) /\ 1 \in DOMAIN c.cards
        BY <4>2, CardsFacts
      <4>4. c.cards[1] \in Card
        BY <4>3
      <4>5. m \in [{c.position} -> Card] /\ {c.position} \in SUBSET Positions
        BY <4>2, <4>4
      <4> QED BY <4>5, EntriesFacts
    <3> HIDE DEF m
    <3>3. more \in L!Entries /\ DOMAIN more = DOMAIN row[l].entries \cup DOMAIN m
      BY <1>6, <2>1, <2>3, <3>2, WithType
    <3>4. DOMAIN more # {} /\ more # <<>>
      BY <1>3, <3>2, <3>3
    <3>5. row' = [row EXCEPT ![l].entries = more]
      BY <1>2, <2>1, <3>1
    <3> HIDE DEF more
    <3>6. Beside(l) /\ RowIs(l, row[l].name, row[l].expired, more)
      BY <1>6, <2>1, <2>3, <3>3, <3>5, RowSet
    <3>7. listCalls'[i].at # "failed"
      BY <1>5, <3>1
    <3> QED BY <2>3, <3>1, <3>3, <3>4, <3>6, <3>7
  <2> QED BY <2>2, <2>3
<1>10. ASSUME L!TouchExpiry(i)
       PROVE  \/ row[l] = None /\ row' = row
              \/ row[l] # None /\ Beside(l) /\ RowIs(l, row[l].name, FALSE, row[l].entries)
  <2>1. l \in List /\ row' = IF row[l] = None THEN row ELSE [row EXCEPT ![l].expired = FALSE]
    BY <1>4, <1>10 DEF L!TouchExpiry
  <2>2. CASE row[l] # None
    <3>1. row' = [row EXCEPT ![l].expired = FALSE] /\ FALSE \in BOOLEAN
      BY <2>1, <2>2
    <3> QED BY <1>6, <2>1, <2>2, <3>1, RowSet
  <2> QED BY <2>1, <2>2
<1>11. ASSUME L!SaveList(i)
       PROVE  /\ listCalls[i].name \in Name /\ Beside(l)
              /\ RowIs(l, listCalls[i].name, FALSE, IF row[l] = None THEN <<>> ELSE row[l].entries)
  <2> DEFINE e == IF row[l] = None THEN <<>> ELSE row[l].entries
  <2>1. l \in List
    BY <1>4, <1>11
  <2>2. e \in L!Entries
    BY <1>3, <1>6, <2>1
  <2>3. c.name \in Name
    <3>1. c.op = "rename" \/ (c.op = "filters" /\ c.at = "found")
      BY <1>11, ListFacts DEF L!SaveList
    <3> QED BY <1>1, <3>1 DEF Fit
  <2>4. row' = [row EXCEPT ![l] = [name |-> c.name, entries |-> e, expired |-> FALSE]]
    <3>1. row' = [row EXCEPT ![l] = [name |-> c.name, expired |-> FALSE,
                                     entries |-> IF @ = None THEN <<>> ELSE @.entries]]
      BY <1>11 DEF L!SaveList
    <3>2. [name |-> c.name, expired |-> FALSE, entries |-> e] = [name |-> c.name, entries |-> e, expired |-> FALSE]
      OBVIOUS
    <3> QED BY <1>2, <2>1, <3>1, <3>2
  <2> HIDE DEF e
  <2>5. FALSE \in BOOLEAN
    OBVIOUS
  <2>6. Beside(l) /\ RowIs(l, c.name, FALSE, e)
    BY <2>1, <2>2, <2>3, <2>4, <2>5, RowSet
  <2> QED BY <2>3, <2>6 DEF e
<1>12. ASSUME L!DeleteList(i)
       PROVE  Beside(l) /\ row'[l] = None
  <2>1. l \in List /\ row' = [row EXCEPT ![l] = None]
    BY <1>4, <1>12 DEF L!DeleteList
  <2> QED BY <1>2, <2>1 DEF Beside
<1> QED BY <1>7, <1>8, <1>9, <1>10, <1>11, <1>12

-----------------------------------------------------------------------------
(* CardLists: the limit of lists.                                           *)

LiveLists == {l \in List : L!Live(l)}
Writing == {"found", "deleted", "placed", "inserted"}

LEMMA LiveServed ==
    ASSUME ListTypes, NEW i \in 1 .. Len(listCalls), L!Serve(i)
    PROVE  \/ LiveLists' \subseteq LiveLists /\ listCalls'[i].at \notin Writing \cup {"counted"}
           \/ /\ LiveLists' \subseteq LiveLists /\ listCalls'[i].at # "counted" /\ listCalls'[i].list = listCalls[i].list
              /\ listCalls[i].list \in LiveLists \/ listCalls[i].at \in Writing
           \/ LiveLists' \subseteq LiveLists /\ listCalls'[i].at = "counted" /\ ~L!AtLimit
           \/ /\ listCalls[i].at = "counted" /\ listCalls'[i].at = "saved"
              /\ \E k \in List : LiveLists' \subseteq LiveLists \cup {k}
           \/ /\ listCalls[i].at \in Writing /\ listCalls'[i].at = "answered" /\ listCalls[i].list \in List
              /\ LiveLists' \subseteq LiveLists \cup {listCalls[i].list}
<1> DEFINE c == listCalls[i]
           d == listCalls'[i]
           l == c.list
<1>1. row' = row => LiveLists' = LiveLists
  BY DEF LiveLists, L!Live
<1>2. ASSUME NEW k \in List, Beside(k)
      PROVE  LiveLists' \subseteq LiveLists \cup {k} /\ (row'[k] = None => LiveLists' \subseteq LiveLists)
  BY <1>2 DEF LiveLists, L!Live, Beside
<1>3. ASSUME NEW k \in List, Beside(k), row[k] # None, NEW n, NEW e, RowIs(k, n, row[k].expired, e)
      PROVE  LiveLists' \subseteq LiveLists
  BY <1>3 DEF LiveLists, L!Live, Beside, RowIs
<1>4. CASE L!FindOwnedList(i)
  <2>1. row' = row
    BY <1>4 DEF L!FindOwnedList, L!ReadOnly
  <2>2. d.list = l /\ l \in List /\ (d.at = "failed" \/ (d.at = "found" /\ L!Live(l)))
    BY <1>4, FindDoes
  <2>3. d.at = "failed" => d.at \notin Writing \cup {"counted"}
    BY DEF Writing
  <2>4. L!Live(l) => l \in LiveLists
    BY <2>2 DEF LiveLists
  <2> HIDE DEF d, l
  <2> QED BY <1>1, <2>1, <2>2, <2>3, <2>4 DEF d, l
<1>5. CASE L!NextPosition(i)
  <2>1. row' = row
    BY <1>5 DEF L!NextPosition, L!ReadOnly
  <2> QED BY <1>1, <1>5, <2>1, PlaceDoes DEF Writing
<1>6. CASE L!GetList(i)
  <2>1. row' = row
    BY <1>6 DEF L!GetList, L!ReadOnly
  <2> QED BY <1>1, <1>6, <2>1, GetDoes DEF Writing
<1>7. CASE L!SaveNewList(i)
  <2>1. PICK k \in List : row' = [row EXCEPT ![k] = [name |-> c.name, entries |-> <<>>, expired |-> FALSE]]
    BY <1>7, SaveNewDoes
  <2>2. Beside(k)
    BY <2>1 DEF Beside, ListTypes
  <2>3. LiveLists' \subseteq LiveLists \cup {k}
    BY <1>2, <2>2
  <2> QED BY <1>7, <2>3, SaveNewDoes
<1>8. CASE MoveOne(i)
  <2>1. MoveFact(i)
    BY <1>8, MovesDo DEF MoveOne
  <2>2. d.list = l
    BY <2>1 DEF MoveFact, SameBut
  <2>3. CASE L!CountLists(i) /\ d.at = IF L!AtLimit THEN "failed" ELSE "counted"
    <3>1. row' = row
      BY <2>3 DEF L!CountLists, L!ReadOnly
    <3> QED BY <1>1, <2>3, <3>1 DEF Writing
  <2>4. CASE /\ L!Claim(i) \/ L!EnqueueRefresh(i) \/ L!MarkRefresh(i)
             /\ d.at \in {"claimed", "failed", "queued", "answered"}
    <3>1. row' = row
      BY <2>4 DEF L!Claim, L!EnqueueRefresh, L!MarkRefresh
    <3> QED BY <1>1, <2>4, <3>1 DEF Writing
  <2>5. CASE /\ L!InsertEntries(i) /\ l \in List
             /\ \/ c.op = "create" /\ c.at = "saved" /\ d.at \in {"failed", "answered"}
                \/ c.op = "replace" /\ c.at = "deleted" /\ d.at \in {"failed", "inserted"}
    <3>1. LiveLists' \subseteq LiveLists
      BY <1>1, <1>3, <2>5, RowsDo
    <3> QED BY <2>2, <2>5, <3>1 DEF Writing
  <2>6. CASE L!DeleteEntries(i) /\ l \in List /\ c.at = "found" /\ d.at = "deleted"
    <3>1. LiveLists' \subseteq LiveLists
      BY <1>1, <1>3, <2>6, RowsDo
    <3> QED BY <2>2, <2>6, <3>1 DEF Writing
  <2>7. CASE L!InsertEntry(i) /\ l \in List /\ c.at = "placed" /\ d.at \in {"failed", "inserted"}
    <3>1. LiveLists' \subseteq LiveLists
      BY <1>1, <1>3, <2>7, RowsDo
    <3> QED BY <2>2, <2>7, <3>1 DEF Writing
  <2>8. CASE L!TouchExpiry(i) /\ l \in List /\ c.at = "inserted" /\ d.at = "answered"
    <3>1. row' = row \/ Beside(l)
      BY <2>8, RowsDo
    <3>2. LiveLists' \subseteq LiveLists \cup {l}
      BY <1>1, <1>2, <2>8, <3>1
    <3> QED BY <2>8, <3>2 DEF Writing
  <2>9. CASE L!SaveList(i) /\ l \in List /\ c.at = "found" /\ d.at = "answered"
    <3>1. Beside(l)
      BY <2>9, RowsDo
    <3>2. LiveLists' \subseteq LiveLists \cup {l}
      BY <1>2, <2>9, <3>1
    <3> QED BY <2>9, <3>2 DEF Writing
  <2>10. CASE L!DeleteList(i) /\ l \in List /\ d.at = "answered"
    <3>1. Beside(l) /\ row'[l] = None
      BY <2>10, RowsDo
    <3>2. LiveLists' \subseteq LiveLists
      BY <1>2, <2>10, <3>1
    <3> QED BY <2>10, <3>2 DEF Writing
  <2> HIDE DEF c, d, l
  <2>11. \/ L!CountLists(i) /\ d.at = IF L!AtLimit THEN "failed" ELSE "counted"
         \/ /\ L!Claim(i) \/ L!EnqueueRefresh(i) \/ L!MarkRefresh(i)
            /\ d.at \in {"claimed", "failed", "queued", "answered"}
         \/ /\ L!InsertEntries(i) /\ l \in List
            /\ \/ c.op = "create" /\ c.at = "saved" /\ d.at \in {"failed", "answered"}
               \/ c.op = "replace" /\ c.at = "deleted" /\ d.at \in {"failed", "inserted"}
         \/ L!DeleteEntries(i) /\ l \in List /\ c.at = "found" /\ d.at = "deleted"
         \/ L!InsertEntry(i) /\ l \in List /\ c.at = "placed" /\ d.at \in {"failed", "inserted"}
         \/ L!TouchExpiry(i) /\ l \in List /\ c.at = "inserted" /\ d.at = "answered"
         \/ L!SaveList(i) /\ l \in List /\ c.at = "found" /\ d.at = "answered"
         \/ L!DeleteList(i) /\ l \in List /\ d.at = "answered"
    <3> USE DEF c, d, l
    <3> QED BY <2>1 DEF MoveFact
  <2> QED BY <2>3, <2>4, <2>5, <2>6, <2>7, <2>8, <2>9, <2>10, <2>11
<1> QED BY <1>4, <1>5, <1>6, <1>7, <1>8 DEF L!Serve, MoveOne

\* With requests one at a time, the one that has counted has room for one more list, and
\* the one that is writing has its own list counted in.
LimitOK ==
    ~overlapped =>
    /\ Len(listCalls) <= 1 /\ Cardinality(LiveLists) <= MaxLists
    /\ \A i \in 1 .. Len(listCalls) :
         /\ listCalls[i].at = "counted" => Cardinality(LiveLists) < MaxLists
         /\ listCalls[i].at \in Writing => Cardinality(LiveLists \cup {listCalls[i].list}) <= MaxLists

LEMMA Counting ==
    ASSUME NEW S \in SUBSET List, NEW T \in SUBSET List
    PROVE  /\ IsFiniteSet(S) /\ Cardinality(S) \in Nat
           /\ S \subseteq T => Cardinality(S) <= Cardinality(T)
           /\ \A k : S \subseteq T \cup {k} => Cardinality(S) <= Cardinality(T) + 1
<1>1. IsFiniteSet(List)
  BY ShopperAssumption, ListSets DEF L!ListsAssumption
<1>2. IsFiniteSet(S) /\ IsFiniteSet(T) /\ Cardinality(S) \in Nat /\ Cardinality(T) \in Nat
  BY <1>1, FS_Subset, FS_CardinalityType
<1>3. ASSUME NEW k PROVE IsFiniteSet(T \cup {k}) /\ Cardinality(T \cup {k}) <= Cardinality(T) + 1
  <2>1. /\ IsFiniteSet(T \cup {k})
        /\ Cardinality(T \cup {k}) = IF k \in T THEN Cardinality(T) ELSE Cardinality(T) + 1
    BY <1>2, FS_AddElement
  <2> QED BY <1>2, <2>1
<1>4. ASSUME NEW k, S \subseteq T \cup {k} PROVE Cardinality(S) <= Cardinality(T) + 1
  <2> DEFINE U == T \cup {k}
  <2>1. IsFiniteSet(U) /\ Cardinality(U) <= Cardinality(T) + 1 /\ S \subseteq U
    BY <1>3, <1>4
  <2> HIDE DEF U
  <2>2. Cardinality(S) <= Cardinality(U) /\ Cardinality(U) \in Nat
    BY <2>1, FS_Subset, FS_CardinalityType
  <2> QED BY <1>2, <2>1, <2>2
<1> QED BY <1>2, <1>4, FS_Subset

LEMMA LimitNext == ListTypes /\ ListTypes' /\ LimitOK /\ [L!Next]_(L!vars) => LimitOK'
<1> SUFFICES ASSUME ListTypes, ListTypes', LimitOK, [L!Next]_(L!vars), ~overlapped' PROVE LimitOK'
  BY DEF LimitOK
<1>1. L!Indices = 1 .. Len(listCalls) /\ Len(listCalls) \in Nat /\ listCalls \in Seq(GoodCalls)
  BY ListFacts
<1>2. LiveLists \in SUBSET List /\ LiveLists' \in SUBSET List /\ MaxLists \in Nat
  BY ShopperAssumption DEF LiveLists, L!ListsAssumption
<1>3. LiveLists' \subseteq LiveLists => Cardinality(LiveLists') <= Cardinality(LiveLists)
  BY <1>2, Counting
<1>4. Cardinality(LiveLists') \in Nat /\ Cardinality(LiveLists) \in Nat
  BY <1>2, Counting
<1>5. row' = row => LiveLists' = LiveLists
  BY DEF LiveLists, L!Live
<1>6. ASSUME NEW k, LiveLists' \subseteq LiveLists
      PROVE  Cardinality(LiveLists' \cup {k}) <= Cardinality(LiveLists \cup {k})
  <2> DEFINE S == LiveLists' \cup {k}
             T == LiveLists \cup {k}
  <2>1. IsFiniteSet(LiveLists)
    BY <1>2, Counting
  <2>2. IsFiniteSet(T) /\ S \subseteq T
    BY <1>6, <2>1, FS_AddElement
  <2> HIDE DEF S, T
  <2>3. Cardinality(S) <= Cardinality(T)
    BY <2>2, FS_Subset
  <2> QED BY <2>3 DEF S, T
<1>7. CASE L!Tab \/ L!Other
  <2>1. PICK c \in GoodCalls : SendFact(c)
    BY <1>7, SendDoes
  <2>2. /\ c.at = "sent" /\ listCalls' = Append(listCalls, c) /\ row' = row /\ ~overlapped /\ listCalls = <<>>
    BY <2>1 DEF SendFact
  <2>3. /\ Len(listCalls') = 1 /\ listCalls'[1] = c
    BY <2>2
  <2>4. \A i \in 1 .. Len(listCalls') : listCalls'[i].at \notin Writing \cup {"counted"}
    BY <2>2, <2>3 DEF Writing
  <2> QED BY <1>5, <2>2, <2>3, <2>4 DEF LimitOK
<1>8. ASSUME NEW i \in 1 .. Len(listCalls), L!Serve(i)
      PROVE  LimitOK'
  <2>1. /\ Becomes(i, listCalls'[i]) /\ overlapped' = overlapped
    BY <1>8, ServedOne
  <2>2. Len(listCalls) = 1 /\ i = 1 /\ Len(listCalls') = 1
    BY <1>1, <2>1 DEF LimitOK, Becomes
  <2>3. /\ Cardinality(LiveLists) <= MaxLists
        /\ listCalls[i].at = "counted" => Cardinality(LiveLists) < MaxLists
        /\ listCalls[i].at \in Writing => Cardinality(LiveLists \cup {listCalls[i].list}) <= MaxLists
    BY <2>1 DEF LimitOK
  <2> SUFFICES /\ Cardinality(LiveLists') <= MaxLists
               /\ listCalls'[i].at = "counted" => Cardinality(LiveLists') < MaxLists
               /\ listCalls'[i].at \in Writing => Cardinality(LiveLists' \cup {listCalls'[i].list}) <= MaxLists
    BY <2>2 DEF LimitOK
  <2>4. CASE LiveLists' \subseteq LiveLists /\ listCalls'[i].at \notin Writing \cup {"counted"}
    BY <1>2, <1>3, <1>4, <2>3, <2>4
  <2>5. CASE /\ LiveLists' \subseteq LiveLists /\ listCalls'[i].at # "counted" /\ listCalls'[i].list = listCalls[i].list
             /\ listCalls[i].list \in LiveLists \/ listCalls[i].at \in Writing
    <3> DEFINE n == Cardinality(LiveLists' \cup {listCalls[i].list})
               m == Cardinality(LiveLists \cup {listCalls[i].list})
    <3>1. n <= m /\ n \in Nat /\ m \in Nat
      <4>1. IsFiniteSet(LiveLists \cup {listCalls[i].list}) /\ IsFiniteSet(LiveLists' \cup {listCalls[i].list})
        BY <1>2, Counting, FS_AddElement
      <4> QED BY <1>6, <2>5, <4>1, FS_CardinalityType
    <3>2. m <= MaxLists
      <4>1. CASE listCalls[i].list \in LiveLists
        <5>1. LiveLists \cup {listCalls[i].list} = LiveLists
          BY <4>1
        <5> QED BY <2>3, <5>1
      <4> QED BY <2>3, <2>5, <4>1
    <3>3. n <= MaxLists
      <4> HIDE DEF n, m
      <4> QED BY <1>2, <3>1, <3>2
    <3>4. Cardinality(LiveLists') <= MaxLists
      BY <1>2, <1>3, <1>4, <2>3, <2>5
    <3> QED BY <2>5, <3>3, <3>4
  <2>6. CASE LiveLists' \subseteq LiveLists /\ listCalls'[i].at = "counted" /\ ~L!AtLimit
    <3>1. ~(Cardinality(LiveLists) >= MaxLists)
      BY <2>6, ListSets DEF L!AtLimit, LiveLists
    <3>2. Cardinality(LiveLists') < MaxLists
      BY <1>2, <1>3, <1>4, <2>6, <3>1
    <3>3. listCalls'[i].at \notin Writing
      BY <2>6 DEF Writing
    <3> QED BY <1>2, <1>4, <3>2, <3>3
  <2>7. CASE /\ listCalls[i].at = "counted" /\ listCalls'[i].at = "saved"
             /\ \E k \in List : LiveLists' \subseteq LiveLists \cup {k}
    <3>1. Cardinality(LiveLists') <= Cardinality(LiveLists) + 1
      BY <1>2, <2>7, Counting
    <3>2. Cardinality(LiveLists) < MaxLists
      BY <2>3, <2>7
    <3>3. listCalls'[i].at \notin Writing /\ listCalls'[i].at # "counted"
      BY <2>7 DEF Writing
    <3> QED BY <1>2, <1>4, <3>1, <3>2, <3>3
  <2>8. CASE /\ listCalls[i].at \in Writing /\ listCalls'[i].at = "answered" /\ listCalls[i].list \in List
             /\ LiveLists' \subseteq LiveLists \cup {listCalls[i].list}
    <3> DEFINE T == LiveLists \cup {listCalls[i].list}
    <3>1. T \in SUBSET List /\ LiveLists' \subseteq T
      BY <1>2, <2>8
    <3>2. Cardinality(T) <= MaxLists
      BY <2>3, <2>8
    <3> HIDE DEF T
    <3>3. Cardinality(LiveLists') <= Cardinality(T) /\ Cardinality(T) \in Nat
      BY <1>2, <3>1, Counting
    <3>4. listCalls'[i].at \notin Writing /\ listCalls'[i].at # "counted"
      BY <2>8 DEF Writing
    <3> QED BY <1>2, <1>4, <3>2, <3>3, <3>4
  <2> QED BY <1>8, <2>4, <2>5, <2>6, <2>7, <2>8, LiveServed
<1>9. ASSUME NEW i \in 1 .. Len(listCalls), L!Answer(i)
      PROVE  LimitOK'
  <2>1. AnswerFact(i)
    BY <1>9, AnswerDoes
  <2>2. overlapped' = overlapped /\ row' = row
    BY <2>1 DEF AnswerFact
  <2>3. Len(listCalls) = 1 /\ i = 1
    <3> DEFINE n == Len(listCalls)
    <3>1. n <= 1 /\ n \in Nat /\ i \in 1 .. n
      BY <1>1, <2>2 DEF LimitOK
    <3> HIDE DEF n
    <3>2. n = 1 /\ i = 1
      BY <3>1
    <3> QED BY <3>2 DEF n
  <2>4. \A j \in 1 .. Len(listCalls') : j = 1 /\ listCalls'[j].at = "sent"
    BY <2>1, <2>3, CameFrom DEF AgainFact
  <2>5. Len(listCalls') <= 1
    <3>1. GoneFact(i) \/ AgainFact(i)
      BY <2>1 DEF AnswerFact
    <3>2. Len(listCalls') = Len(listCalls) - 1 \/ Len(listCalls') = Len(listCalls)
      BY <3>1 DEF GoneFact, AgainFact
    <3> QED BY <2>3, <3>2
  <2> QED BY <1>5, <2>2, <2>4, <2>5 DEF LimitOK, Writing
<1>10. ASSUME NEW i \in 1 .. Len(listCalls), L!Break(i)
       PROVE  LimitOK'
  <2>1. /\ Becomes(i, listCalls'[i]) /\ listCalls'[i].at = "failed" /\ row' = row /\ overlapped' = overlapped
    BY <1>10, BreakDoes DEF SameBut
  <2>2. Len(listCalls) = 1 /\ i = 1 /\ Len(listCalls') = 1
    BY <1>1, <2>1 DEF LimitOK, Becomes
  <2> QED BY <1>5, <2>1, <2>2 DEF LimitOK, Writing
<1>11. ASSUME NEW l \in List, L!Expire(l)
       PROVE  LimitOK'
  <2>1. row' = [row EXCEPT ![l].expired = TRUE] /\ listCalls' = listCalls /\ overlapped' = overlapped /\ row[l] # None
    BY <1>11 DEF L!Expire, L!Live
  <2>2. LiveLists' \subseteq LiveLists
    <3>1. row[l] \in L!Rows /\ row \in [List -> L!Rows \cup {None}]
      BY <2>1 DEF ListTypes
    <3>2. [row[l] EXCEPT !.expired = TRUE].expired = TRUE
      BY <3>1 DEF L!Rows
    <3>3. row'[l].expired = TRUE /\ \A k \in List : k # l => row'[k] = row[k]
      BY <2>1, <3>1, <3>2
    <3> QED BY <3>3 DEF LiveLists, L!Live
  <2>3. Cardinality(LiveLists') <= Cardinality(LiveLists)
    BY <1>3, <2>2
  <2>4. \A i \in 1 .. Len(listCalls) : listCalls[i].at \in Writing => Cardinality(LiveLists' \cup {listCalls[i].list}) <= MaxLists
    <3> TAKE i \in 1 .. Len(listCalls)
    <3> HAVE listCalls[i].at \in Writing
    <3> DEFINE n == Cardinality(LiveLists' \cup {listCalls[i].list})
               m == Cardinality(LiveLists \cup {listCalls[i].list})
    <3>1. n <= m /\ n \in Nat /\ m \in Nat
      <4>1. IsFiniteSet(LiveLists \cup {listCalls[i].list}) /\ IsFiniteSet(LiveLists' \cup {listCalls[i].list})
        BY <1>2, Counting, FS_AddElement
      <4> QED BY <1>6, <2>2, <4>1, FS_CardinalityType
    <3>2. m <= MaxLists
      BY <2>1 DEF LimitOK
    <3> HIDE DEF n, m
    <3>3. n <= MaxLists
      BY <1>2, <3>1, <3>2
    <3> QED BY <3>3 DEF n
  <2>5. /\ Len(listCalls) <= 1 /\ Cardinality(LiveLists) <= MaxLists
        /\ \A i \in 1 .. Len(listCalls) : listCalls[i].at = "counted" => Cardinality(LiveLists) < MaxLists
    BY <2>1 DEF LimitOK
  <2>6. /\ Len(listCalls) <= 1 /\ Cardinality(LiveLists') <= MaxLists
        /\ \A i \in 1 .. Len(listCalls) : listCalls[i].at = "counted" => Cardinality(LiveLists') < MaxLists
    BY <1>2, <1>4, <2>3, <2>5
  <2> QED BY <2>1, <2>4, <2>6 DEF LimitOK
<1>12. CASE L!CooldownEnds
  BY <1>5, <1>12 DEF L!CooldownEnds, LimitOK
<1>13. CASE UNCHANGED L!vars
  BY <1>5, <1>13 DEF L!vars, LimitOK
<1> QED BY <1>1, <1>7, <1>8, <1>9, <1>10, <1>11, <1>12, <1>13 DEF L!Next

\* An owner has more lists than allowed only if requests of theirs overlapped: the
\* creation counts the lists before it saves, and every other statement that brings
\* a list back saves one that was live when its request was let in (lists service,
\* createList, findOwnedList).
THEOREM OneListTooMany == L!Spec => []LimitHeldAlone
<1>1. L!Init => LimitOK
  <2> SUFFICES ASSUME L!Init PROVE LimitOK
    OBVIOUS
  <2>1. LiveLists = {l \in List : StoredLists[l] # None}
    <3>1. \A l \in List : L!Live(l) <=> StoredLists[l] # None
      <4> TAKE l \in List
      <4>1. row[l] = IF StoredLists[l] = None THEN None
                     ELSE [name |-> StoredLists[l].name, entries |-> StoredLists[l].cards, expired |-> FALSE]
        BY DEF L!Init
      <4>2. StoredLists[l] # None => row[l] \in L!Rows /\ row[l].expired = FALSE
        <5>1. StoredLists[l] # None => StoredLists[l].name \in Name /\ StoredLists[l].cards \in L!Entries
          BY ShopperAssumption, CardsFacts DEF L!ListsAssumption, L!Views
        <5> QED BY <4>1, <5>1 DEF L!Rows
      <4>3. None \notin L!Rows
        BY ShopperAssumption DEF L!ListsAssumption
      <4> QED BY <4>1, <4>2, <4>3 DEF L!Live
    <3> QED BY <3>1 DEF LiveLists
  <2>2. Cardinality(LiveLists) <= MaxLists
    BY <2>1, ShopperAssumption, ListSets DEF L!ListsAssumption
  <2>3. listCalls = <<>> /\ Len(listCalls) = 0
    BY DEF L!Init
  <2> QED BY <2>2, <2>3 DEF LimitOK
<1>2. ListTypes /\ LimitOK => LimitHeldAlone
  <2> SUFFICES ASSUME ListTypes, LimitOK, ~overlapped PROVE ~(Cardinality(LiveLists) > MaxLists)
    BY ListSets DEF LimitHeldAlone, L!LimitHeldAlone, LiveLists
  <2>1. Cardinality(LiveLists) \in Nat /\ MaxLists \in Nat
    <3>1. LiveLists \in SUBSET List
      BY DEF LiveLists
    <3> QED BY <3>1, Counting, ShopperAssumption DEF L!ListsAssumption
  <2> QED BY <2>1 DEF LimitOK
<1> QED BY <1>1, <1>2, ListsInit, ListsNext, LimitNext, PTL DEF L!Spec

-----------------------------------------------------------------------------
(* CardLists: lists keep a card.                                            *)

Replacing(c) == c.op = "replace" /\ c.at = "deleted"
Emptied(l) == row[l] # None /\ DOMAIN row[l].entries = {}
\* A list without its cards is being replaced by a request that has cards to insert.
FilledOK ==
    /\ \A l \in filled : row[l] # None
    /\ \A i \in 1 .. Len(listCalls) :
         listCalls[i].op = "replace" /\ listCalls[i].at \in {"found", "deleted"} => L!Resolved(listCalls[i].cards) # <<>>
    /\ ~listsBroken => \A l \in filled :
         Emptied(l) => \E i \in 1 .. Len(listCalls) : Replacing(listCalls[i]) /\ listCalls[i].list = l

\* A statement that keeps the cards of every row that has some leaves the invariant.
LEMMA FilledKept ==
    ASSUME ListTypes, FilledOK, NEW i \in 1 .. Len(listCalls), Becomes(i, listCalls'[i]), listsBroken' = listsBroken,
           listCalls'[i].op = "replace" /\ listCalls'[i].at \in {"found", "deleted"} => L!Resolved(listCalls'[i].cards) # <<>>,
           \A l \in filled' : row'[l] # None,
           \A l \in filled' : DOMAIN row'[l].entries = {} =>
              \/ l \in filled /\ Emptied(l) /\ ~(Replacing(listCalls[i]) /\ listCalls[i].list = l)
              \/ Replacing(listCalls'[i]) /\ listCalls'[i].list = l
    PROVE  FilledOK'
<1>1. /\ Len(listCalls') = Len(listCalls) /\ \A j \in 1 .. Len(listCalls) : j # i => listCalls'[j] = listCalls[j]
  BY DEF Becomes
<1>2. \A j \in 1 .. Len(listCalls') :
         listCalls'[j].op = "replace" /\ listCalls'[j].at \in {"found", "deleted"} => L!Resolved(listCalls'[j].cards) # <<>>
  BY <1>1 DEF FilledOK
<1>3. ASSUME ~listsBroken', NEW l \in filled', Emptied(l)'
      PROVE  \E j \in 1 .. Len(listCalls') : Replacing(listCalls'[j]) /\ listCalls'[j].list = l
  <2>1. DOMAIN row'[l].entries = {}
    BY <1>3 DEF Emptied
  <2>2. CASE l \in filled /\ Emptied(l) /\ ~(Replacing(listCalls[i]) /\ listCalls[i].list = l)
    <3>1. PICK j \in 1 .. Len(listCalls) : Replacing(listCalls[j]) /\ listCalls[j].list = l
      BY <1>3, <2>2 DEF FilledOK
    <3>2. j # i
      BY <2>2, <3>1
    <3> QED BY <1>1, <3>1, <3>2
  <2>3. CASE Replacing(listCalls'[i]) /\ listCalls'[i].list = l
    BY <1>1, <2>3
  <2> QED BY <1>3, <2>1, <2>2, <2>3
<1>4. (\A l \in filled : row[l] # None)'
  OBVIOUS
<1>5. (\A j \in 1 .. Len(listCalls) :
         listCalls[j].op = "replace" /\ listCalls[j].at \in {"found", "deleted"} => L!Resolved(listCalls[j].cards) # <<>>)'
  BY <1>2
<1>6. (~listsBroken => \A l \in filled :
         Emptied(l) => \E j \in 1 .. Len(listCalls) : Replacing(listCalls[j]) /\ listCalls[j].list = l)'
  BY <1>3
<1> QED BY <1>4, <1>5, <1>6 DEF FilledOK

LEMMA FilledServed ==
    ASSUME ListTypes, FilledOK, NEW i \in 1 .. Len(listCalls), L!Serve(i)
    PROVE  FilledOK'
<1> DEFINE c == listCalls[i]
           d == listCalls'[i]
           l == c.list
<1>1. Becomes(i, d) /\ listsBroken' = listsBroken
  BY ServedOne
<1>2. filled \subseteq List /\ \A k \in filled : row[k] # None
  BY DEF ListTypes, FilledOK
<1>3. ASSUME row' = row, filled' = filled, ~Replacing(c), ~(d.op = "replace" /\ d.at \in {"found", "deleted"})
      PROVE  FilledOK'
  BY <1>1, <1>2, <1>3, FilledKept DEF Emptied
<1>4. CASE L!FindOwnedList(i)
  <2>1. row' = row /\ filled' = filled
    BY <1>4 DEF L!FindOwnedList, L!ReadOnly
  <2>2. /\ Same(c, d) /\ c.at = "sent" /\ (d.at = "failed" \/ (d.at = "found" /\ L!Accepted(c)))
    BY <1>4, FindDoes
  <2>3. ~Replacing(c)
    BY <2>2 DEF Replacing
  <2>4. d.op = "replace" /\ d.at \in {"found", "deleted"} => L!Resolved(d.cards) # <<>>
    BY <2>2 DEF Same, L!Accepted
  <2> QED BY <1>1, <1>2, <2>1, <2>3, <2>4, FilledKept DEF Emptied
<1>5. CASE L!NextPosition(i)
  <2>1. row' = row /\ filled' = filled
    BY <1>5 DEF L!NextPosition, L!ReadOnly
  <2> QED BY <1>3, <1>5, <2>1, PlaceDoes DEF Replacing, Same
<1>6. CASE L!GetList(i)
  <2>1. row' = row /\ filled' = filled
    BY <1>6 DEF L!GetList, L!ReadOnly
  <2> QED BY <1>3, <1>6, <2>1, GetDoes DEF Replacing
<1>7. CASE L!SaveNewList(i)
  <2>1. filled' = filled
    BY <1>7 DEF L!SaveNewList
  <2>2. PICK k \in List : /\ row[k] = None
                          /\ row' = [row EXCEPT ![k] = [name |-> c.name, entries |-> <<>>, expired |-> FALSE]]
    BY <1>7, SaveNewDoes
  <2>3. \A m \in filled : row'[m] = row[m]
    BY <1>2, <2>2 DEF ListTypes
  <2>4. ~Replacing(c) /\ d.op # "replace"
    BY <1>7, SaveNewDoes DEF Replacing, Same
  <2> QED BY <1>1, <1>2, <2>1, <2>3, <2>4, FilledKept DEF Emptied
<1>8. ASSUME MoveOne(i)
      PROVE  MoveFact(i) /\ d.op = c.op /\ d.list = l /\ d.cards = c.cards
  BY <1>8, MovesDo DEF MoveOne, MoveFact, SameBut
<1>9. CASE L!CountLists(i) \/ L!Claim(i) \/ L!EnqueueRefresh(i) \/ L!MarkRefresh(i)
  <2>1. row' = row /\ filled' = filled
    BY <1>9 DEF L!CountLists, L!Claim, L!EnqueueRefresh, L!MarkRefresh, L!ReadOnly
  <2>2. c.op \in {"create", "refresh"}
    BY <1>9, ListFacts DEF L!CountLists, L!Claim, L!EnqueueRefresh, L!MarkRefresh
  <2>3. d.op = c.op
    BY <1>8, <1>9 DEF MoveOne
  <2> QED BY <1>3, <2>1, <2>2, <2>3 DEF Replacing
<1>10. CASE L!InsertEntries(i)
  <2> DEFINE entries == L!Resolved(c.cards)
  <2>1. d.op = c.op /\ d.list = l /\ (c.op = "replace" => c.at = "deleted") /\ c.op \in {"create", "replace"}
    BY <1>8, <1>10, ListFacts DEF MoveOne, L!InsertEntries
  <2>2. d.at \notin {"found", "deleted"}
    <3>1. listCalls' = [listCalls EXCEPT ![i].at = d.at] /\ d.at \in {"failed", "answered", "inserted"}
      <4>1. \E place \in {"failed", "answered", "inserted"} : L!Move(i, place)
        BY <1>10 DEF L!InsertEntries
      <4>2. PICK place \in {"failed", "answered", "inserted"} : L!Move(i, place)
        BY <4>1
      <4>3. listCalls' = [listCalls EXCEPT ![i].at = place] /\ listCalls \in Seq(GoodCalls) /\ c \in CallType
        BY <4>2, ListFacts DEF L!Move
      <4>4. d.at = place
        BY <4>3 DEF CallType
      <4> QED BY <4>3, <4>4
    <3> QED BY <3>1
  <2>3. CASE row' = row /\ filled' = filled /\ entries = <<>>
    <3>1. c.op # "replace"
      BY <2>1, <2>3 DEF FilledOK
    <3> QED BY <1>3, <2>1, <2>3, <3>1 DEF Replacing
  <2>4. CASE row' = row /\ filled' = filled /\ (row[l] = None \/ DOMAIN row[l].entries # {})
    <3>1. \A m \in filled' : DOMAIN row'[m].entries = {} => m \in filled /\ Emptied(m) /\ ~(Replacing(c) /\ l = m)
      BY <1>2, <2>4 DEF Emptied
    <3>2. \A m \in filled' : row'[m] # None
      BY <1>2, <2>4
    <3> HIDE DEF c, d, l
    <3>3. FilledOK'
      <4> USE DEF c, d, l
      <4> QED BY <1>1, <2>1, <2>2, <3>1, <3>2, FilledKept
    <3> QED BY <3>3
  <2>5. CASE /\ row[l] # None /\ Beside(l) /\ filled' = filled \cup {l}
             /\ RowIs(l, row[l].name, row[l].expired, L!With(row[l].entries, entries))
             /\ entries \in L!Cards /\ entries # <<>> /\ row[l].entries \in L!Entries
    <3>1. DOMAIN row'[l].entries # {} /\ row'[l] # None
      <4>1. DOMAIN L!With(row[l].entries, entries) # {}
        BY <2>5, CardsFacts, WithType
      <4> QED BY <2>5, <4>1 DEF RowIs
    <3>2. \A m \in filled : m # l => row'[m] = row[m]
      BY <1>2, <2>5 DEF Beside
    <3>3. \A m \in filled' : row'[m] # None
      BY <1>2, <2>5, <3>1, <3>2
    <3>4. \A m \in filled' : DOMAIN row'[m].entries = {} => m \in filled /\ Emptied(m) /\ ~(Replacing(c) /\ l = m)
      BY <1>2, <2>5, <3>1, <3>2 DEF Emptied
    <3> QED BY <1>1, <2>2, <3>3, <3>4, FilledKept
  <2>6. \/ row' = row /\ filled' = filled /\ entries = <<>>
        \/ row' = row /\ filled' = filled /\ (row[l] = None \/ DOMAIN row[l].entries # {})
        \/ /\ row[l] # None /\ Beside(l) /\ filled' = filled \cup {l}
           /\ RowIs(l, row[l].name, row[l].expired, L!With(row[l].entries, entries))
           /\ entries \in L!Cards /\ entries # <<>> /\ row[l].entries \in L!Entries
    BY <1>10, RowsDo
  <2> QED BY <2>3, <2>4, <2>5, <2>6
<1>11. CASE L!DeleteEntries(i)
  <2>1. filled' = filled
    BY <1>11 DEF L!DeleteEntries
  <2>2. c.op = "replace" /\ c.at = "found" /\ d.op = "replace" /\ d.list = l /\ d.cards = c.cards
    BY <1>8, <1>11, ListFacts DEF MoveOne, L!DeleteEntries
  <2>3. d.at = "deleted"
    <3>1. listCalls' = [listCalls EXCEPT ![i].at = "deleted"] /\ listCalls \in Seq(GoodCalls) /\ c \in CallType
      BY <1>11, ListFacts DEF L!DeleteEntries, L!Move
    <3> QED BY <3>1 DEF CallType
  <2>4. L!Resolved(d.cards) # <<>> /\ ~Replacing(c) /\ Replacing(d)
    BY <2>2, <2>3 DEF FilledOK, Replacing
  <2>5. \/ row' = row
        \/ row[l] # None /\ Beside(l) /\ RowIs(l, row[l].name, row[l].expired, <<>>)
    BY <1>11, RowsDo
  <2>6. \A m \in filled' : /\ row'[m] # None
                           /\ DOMAIN row'[m].entries = {} =>
                                (m \in filled /\ Emptied(m) /\ ~(Replacing(c) /\ l = m)) \/ (Replacing(d) /\ d.list = m)
    BY <1>2, <2>1, <2>2, <2>4, <2>5 DEF Beside, RowIs, Emptied
  <2> QED BY <1>1, <2>4, <2>6, FilledKept
<1>12. CASE L!InsertEntry(i)
  <2>1. c.op = "add" /\ d.op = "add"
    BY <1>8, <1>12, ListFacts DEF MoveOne, L!InsertEntry
  <2>2. ~Replacing(c)
    BY <2>1 DEF Replacing
  <2>3. CASE row' = row /\ filled' = filled
    BY <1>3, <2>1, <2>2, <2>3
  <2>4. CASE /\ row[l] # None /\ Beside(l) /\ filled' = filled \cup {l}
             /\ \E entries \in L!Entries : DOMAIN entries # {} /\ RowIs(l, row[l].name, row[l].expired, entries)
    <3>1. DOMAIN row'[l].entries # {} /\ row'[l] # None
      BY <2>4 DEF RowIs
    <3>2. \A m \in filled : m # l => row'[m] = row[m]
      BY <1>2, <2>4 DEF Beside
    <3>3. \A m \in filled' : row'[m] # None
      BY <1>2, <2>4, <3>1, <3>2
    <3>4. \A m \in filled' : DOMAIN row'[m].entries = {} => m \in filled /\ Emptied(m) /\ ~(Replacing(c) /\ l = m)
      BY <1>2, <2>4, <3>1, <3>2 DEF Emptied
    <3> QED BY <1>1, <2>1, <3>3, <3>4, FilledKept
  <2> QED BY <1>12, <2>3, <2>4, RowsDo
<1>13. CASE L!TouchExpiry(i)
  <2>1. filled' = filled
    BY <1>13 DEF L!TouchExpiry
  <2>2. c.at = "inserted" /\ d.at = "answered"
    <3>1. c.at = "inserted" /\ listCalls' = [listCalls EXCEPT ![i].at = "answered"] /\ listCalls \in Seq(GoodCalls) /\ c \in CallType
      BY <1>13, ListFacts DEF L!TouchExpiry, L!Move
    <3> QED BY <3>1 DEF CallType
  <2>3. ~Replacing(c)
    BY <2>2 DEF Replacing
  <2>4. row' = row \/ (row[l] # None /\ Beside(l) /\ RowIs(l, row[l].name, FALSE, row[l].entries))
    BY <1>13, RowsDo
  <2>5. \A m \in filled' : /\ row'[m] # None
                           /\ DOMAIN row'[m].entries = {} => m \in filled /\ Emptied(m) /\ ~(Replacing(c) /\ l = m)
    BY <1>2, <2>1, <2>3, <2>4 DEF Beside, RowIs, Emptied
  <2> QED BY <1>1, <2>2, <2>5, FilledKept
<1>14. CASE L!SaveList(i)
  <2>1. filled' = IF row[l] = None THEN filled \ {l} ELSE filled
    BY <1>14 DEF L!SaveList
  <2>2. c.op \in {"rename", "filters"} /\ d.op = c.op
    BY <1>8, <1>14, ListFacts DEF MoveOne, L!SaveList
  <2>3. ~Replacing(c)
    BY <2>2 DEF Replacing
  <2>4. Beside(l) /\ RowIs(l, c.name, FALSE, IF row[l] = None THEN <<>> ELSE row[l].entries)
    BY <1>14, RowsDo
  <2>5. \A m \in filled' : /\ row'[m] # None
                           /\ DOMAIN row'[m].entries = {} => m \in filled /\ Emptied(m) /\ ~(Replacing(c) /\ l = m)
    BY <1>2, <2>1, <2>3, <2>4 DEF Beside, RowIs, Emptied
  <2> QED BY <1>1, <2>2, <2>5, FilledKept
<1>15. CASE L!DeleteList(i)
  <2>1. filled' = filled \ {l}
    BY <1>15 DEF L!DeleteList
  <2>2. c.op = "delete" /\ d.op = c.op
    BY <1>8, <1>15, ListFacts DEF MoveOne, L!DeleteList
  <2>3. ~Replacing(c)
    BY <2>2 DEF Replacing
  <2>4. Beside(l)
    BY <1>15, RowsDo
  <2>5. \A m \in filled' : /\ row'[m] # None
                           /\ DOMAIN row'[m].entries = {} => m \in filled /\ Emptied(m) /\ ~(Replacing(c) /\ l = m)
    BY <1>2, <2>1, <2>3, <2>4 DEF Beside, Emptied
  <2> QED BY <1>1, <2>2, <2>5, FilledKept
<1> QED BY <1>4, <1>5, <1>6, <1>7, <1>9, <1>10, <1>11, <1>12, <1>13, <1>14, <1>15 DEF L!Serve

LEMMA FilledNext == ListTypes /\ FilledOK /\ [L!Next]_(L!vars) => FilledOK'
<1> SUFFICES ASSUME ListTypes, FilledOK, [L!Next]_(L!vars) PROVE FilledOK'
  OBVIOUS
<1>1. L!Indices = 1 .. Len(listCalls) /\ Len(listCalls) \in Nat /\ listCalls \in Seq(GoodCalls)
  BY ListFacts
<1>2. filled \subseteq List /\ \A k \in filled : row[k] # None
  BY DEF ListTypes, FilledOK
<1>3. CASE L!Tab \/ L!Other
  <2>1. PICK c \in GoodCalls : SendFact(c)
    BY <1>3, SendDoes
  <2>2. /\ c.at = "sent" /\ listCalls' = Append(listCalls, c) /\ row' = row /\ filled' = filled /\ listsBroken' = listsBroken
    BY <2>1 DEF SendFact
  <2>3. /\ Len(listCalls') = Len(listCalls) + 1 /\ listCalls'[Len(listCalls) + 1] = c
        /\ \A j \in 1 .. Len(listCalls) : listCalls'[j] = listCalls[j]
        /\ \A j \in 1 .. Len(listCalls) + 1 : j \in 1 .. Len(listCalls) \/ j = Len(listCalls) + 1
        /\ \A j \in 1 .. Len(listCalls) : j \in 1 .. Len(listCalls) + 1
    BY <1>1, <2>2, AppendFacts
  <2>4. \A j \in 1 .. Len(listCalls') :
         listCalls'[j].op = "replace" /\ listCalls'[j].at \in {"found", "deleted"} => L!Resolved(listCalls'[j].cards) # <<>>
    BY <2>2, <2>3 DEF FilledOK
  <2>5. ASSUME ~listsBroken', NEW l \in filled', Emptied(l)'
        PROVE  \E j \in 1 .. Len(listCalls') : Replacing(listCalls'[j]) /\ listCalls'[j].list = l
    <3>1. PICK j \in 1 .. Len(listCalls) : Replacing(listCalls[j]) /\ listCalls[j].list = l
      BY <2>2, <2>5 DEF FilledOK, Emptied
    <3> QED BY <2>3, <3>1
  <2> QED BY <1>2, <2>2, <2>4, <2>5 DEF FilledOK
<1>4. ASSUME NEW i \in 1 .. Len(listCalls), L!Answer(i)
      PROVE  FilledOK'
  <2>1. AnswerFact(i)
    BY <1>4, AnswerDoes
  <2>2. CallOver(listCalls[i]) /\ row' = row /\ filled' = filled /\ listsBroken' = listsBroken
    BY <2>1 DEF AnswerFact
  <2>3. ASSUME NEW j \in 1 .. Len(listCalls'), listCalls'[j].at \in {"found", "deleted"}
        PROVE  Moved(i, j) \in 1 .. Len(listCalls) /\ listCalls'[j] = listCalls[Moved(i, j)]
    <3>1. ~(j = Len(listCalls) /\ AgainFact(i))
      BY <2>3 DEF AgainFact
    <3> QED BY <2>1, <2>3, <3>1, CameFrom
  <2>4. ASSUME ~listsBroken', NEW l \in filled', Emptied(l)'
        PROVE  \E j \in 1 .. Len(listCalls') : Replacing(listCalls'[j]) /\ listCalls'[j].list = l
    <3>1. PICK k \in 1 .. Len(listCalls) : Replacing(listCalls[k]) /\ listCalls[k].list = l
      BY <2>2, <2>4 DEF FilledOK, Emptied
    <3>2. k # i
      BY <2>2, <3>1 DEF CallOver, Replacing
    <3>3. PICK j \in 1 .. Len(listCalls) - 1 : Moved(i, j) = k
      BY <1>1, <3>2, MovedFacts
    <3>4. /\ Len(listCalls') \in {Len(listCalls) - 1, Len(listCalls)}
          /\ \A m \in 1 .. Len(listCalls) - 1 : listCalls'[m] = listCalls[Moved(i, m)]
      BY <2>1 DEF AnswerFact, GoneFact, AgainFact
    <3>5. j \in 1 .. Len(listCalls')
      BY <1>1, <3>4
    <3> QED BY <3>1, <3>3, <3>4, <3>5
  <2> QED BY <1>2, <2>2, <2>3, <2>4 DEF FilledOK
<1>5. ASSUME NEW i \in 1 .. Len(listCalls), L!Break(i)
      PROVE  FilledOK'
  <2>1. /\ Becomes(i, listCalls'[i]) /\ listCalls'[i].at = "failed" /\ listsBroken' = TRUE /\ row' = row /\ filled' = filled
    BY <1>5, BreakDoes DEF SameBut
  <2> QED BY <2>1 DEF FilledOK, Becomes
<1>6. ASSUME NEW l \in List, L!Expire(l)
      PROVE  FilledOK'
  <2>1. /\ row' = [row EXCEPT ![l].expired = TRUE] /\ row[l] \in L!Rows
        /\ UNCHANGED <<listCalls, filled, listsBroken>>
    BY <1>6 DEF L!Expire, L!Live, ListTypes
  <2>2. [row[l] EXCEPT !.expired = TRUE] \in L!Rows /\ [row[l] EXCEPT !.expired = TRUE].entries = row[l].entries
    BY <2>1 DEF L!Rows
  <2>3. \A k \in List : k # l => row'[k] = row[k]
    BY <2>1 DEF ListTypes
  <2>4. row'[l] # None /\ row'[l].entries = row[l].entries
    <3>1. None \notin L!Rows
      BY ShopperAssumption DEF L!ListsAssumption
    <3> QED BY <2>1, <2>2, <3>1 DEF ListTypes
  <2>5. \A k \in filled : row'[k] # None /\ row'[k].entries = row[k].entries
    BY <1>2, <2>3, <2>4
  <2> QED BY <1>2, <2>1, <2>5 DEF FilledOK, Emptied
<1>7. CASE L!CooldownEnds
  BY <1>7 DEF L!CooldownEnds, FilledOK, Emptied
<1>8. CASE UNCHANGED L!vars
  BY <1>8 DEF L!vars, FilledOK, Emptied
<1> QED BY <1>1, <1>3, <1>4, <1>5, <1>6, <1>7, <1>8, FilledServed DEF L!Next

\* Whatever edits of several clients do to a list together, it keeps a card if no
\* request is cut short: a replacement is let in only when the catalogue knows one
\* of its cards, and inserts it after the rows it has deleted, unless another
\* request has put cards there meanwhile (lists service, replaceCards, addCardById).
THEOREM EditsNeverEmpty == L!Spec => []NeverEmptied
<1>1. L!Init => FilledOK
  <2> SUFFICES ASSUME L!Init PROVE FilledOK
    OBVIOUS
  <2>1. listCalls = <<>> /\ Len(listCalls) = 0
    BY DEF L!Init
  <2>2. ASSUME NEW l \in filled PROVE row[l] # None /\ DOMAIN row[l].entries # {}
    <3>1. /\ l \in List /\ StoredLists[l] # None
          /\ row[l] = [name |-> StoredLists[l].name, entries |-> StoredLists[l].cards, expired |-> FALSE]
      BY DEF L!Init
    <3>2. StoredLists[l] \in L!Views /\ StoredLists[l].cards # <<>>
      BY <3>1, ShopperAssumption DEF L!ListsAssumption
    <3>3. StoredLists[l].cards \in L!Cards /\ StoredLists[l].name \in Name
      BY <3>2 DEF L!Views
    <3>4. DOMAIN StoredLists[l].cards # {} /\ StoredLists[l].cards \in L!Entries
      BY <3>2, <3>3, CardsFacts
    <3>5. row[l] \in L!Rows /\ None \notin L!Rows
      BY <3>1, <3>3, <3>4, ShopperAssumption DEF L!Rows, L!ListsAssumption
    <3>6. row[l].entries = StoredLists[l].cards
      BY <3>1
    <3> QED BY <3>4, <3>5, <3>6
  <2> QED BY <2>1, <2>2 DEF FilledOK, Emptied
<1>2. ListTypes /\ FilledOK => NeverEmptied
  <2> SUFFICES ASSUME ListTypes, FilledOK, L!Quiet, ~listsBroken, NEW l \in filled, row[l] # None
               PROVE  DOMAIN row[l].entries # {}
    BY DEF NeverEmptied, L!NeverEmptied
  <2>1. listCalls = <<>> /\ Len(listCalls) = 0
    BY DEF L!Quiet
  <2> QED BY <2>1 DEF FilledOK, Emptied
<1> QED BY <1>1, <1>2, ListsInit, ListsNext, FilledNext, PTL DEF L!Spec

-----------------------------------------------------------------------------
(* CardLists: a tab that is alone shows what is stored.                     *)
(* The requests on a list that may still change what the tab or the row     *)
(* shows of it are: a renaming not yet saved, whose last one carries the    *)
(* name that is shown; the writes of its cards and the fetches behind them, *)
(* whose last one ends with the cards that are stored; its deletion; and    *)
(* its creation with the fetch behind it, before which it is not shown.     *)

\* The requests are served one after the other: behind one that has begun all have
\* yet to.
InLine == \A i, j \in 1 .. Len(listCalls) : j < i /\ listCalls[i].at # "sent" => listCalls[j].at = "answered"

New(c) == c.op = "getNew" \/ (c.op = "create" /\ c.at \in {"saved", "answered"})
Founding(c, l) == New(c) /\ c.list = l
Naming(c, l) == c.list = l /\ c.op = "rename" /\ c.at \in {"sent", "found"}
Dealing(c, l) == c.list = l /\ c.op \in {"replace", "add", "get"}
Removing(c, l) == c.list = l /\ c.op = "delete" /\ c.at \in {"sent", "found"}
Mute(c, l) == ~Founding(c, l) /\ ~Naming(c, l) /\ ~Dealing(c, l) /\ ~Removing(c, l)
LastNaming(cs, i, l) ==
    i \in 1 .. Len(cs) /\ Naming(cs[i], l) /\ \A j \in 1 .. Len(cs) : i < j => ~Naming(cs[j], l)
LastDealing(cs, i, l) ==
    i \in 1 .. Len(cs) /\ Dealing(cs[i], l) /\ \A j \in 1 .. Len(cs) : i < j => ~Dealing(cs[j], l)

\* A list that is created is not shown before its fetch is answered, and nothing else asks
\* for it.
NewOK(i) ==
    New(listCalls[i]) =>
    /\ shown[listCalls[i].list] = None /\ row[listCalls[i].list] # None
    /\ \A j \in 1 .. Len(listCalls) : listCalls[j].list = listCalls[i].list => j = i
    /\ listCalls[i].op = "getNew" /\ listCalls[i].at = "answered" =>
          /\ listCalls[i].name = row[listCalls[i].list].name
          /\ listCalls[i].cards = L!InPositions(row[listCalls[i].list].entries)
\* A stored list that is not shown is being removed or created.
HiddenOK(l) ==
    shown[l] = None /\ row[l] # None =>
        \E i \in 1 .. Len(listCalls) : Removing(listCalls[i], l) \/ Founding(listCalls[i], l)
\* The last renaming to come has the shown name; with none to come the row has it.
NameOK(l) ==
    /\ (\A i \in 1 .. Len(listCalls) : ~Naming(listCalls[i], l)) => row[l].name = shown[l].name
    /\ \A i : LastNaming(listCalls, i, l) => listCalls[i].name = shown[l].name
\* With no edit to come the row has the shown cards; the last fetch brings the row's.
DealtOK(l) ==
    /\ (\A i \in 1 .. Len(listCalls) : ~Dealing(listCalls[i], l)) => shown[l].cards = L!InPositions(row[l].entries)
    /\ \A i : LastDealing(listCalls, i, l) /\ listCalls[i].op = "get" /\ listCalls[i].at = "answered" =>
          listCalls[i].cards = L!InPositions(row[l].entries)
ShownOK(l) == shown[l] # None => row[l] # None /\ NameOK(l) /\ DealtOK(l)
ListOK(l) == HiddenOK(l) /\ ShownOK(l) /\ (row[l] # None => row[l].expired = FALSE)
RequestOK(i) ==
    /\ listCalls[i].op \notin {"filters", "refresh"}
    /\ listCalls[i].op = "delete" => shown[listCalls[i].list] = None
    /\ listCalls[i].op = "rename" /\ listCalls[i].at = "found" => row[listCalls[i].list] # None
    /\ NewOK(i)
Mine == \A i \in 1 .. Len(listCalls) : listCalls[i].tab
Smooth == ~listsBroken /\ ~disturbed /\ \A i \in 1 .. Len(listCalls) : listCalls[i].at # "failed"
TabShows ==
    /\ ~disturbed => Mine
    /\ Smooth => InLine /\ (\A i \in 1 .. Len(listCalls) : RequestOK(i)) /\ \A l \in List : ListOK(l)

\* A request is served that has nothing to do with list l, or is only let in to it.
LEMMA EvenServed ==
    ASSUME NEW i \in 1 .. Len(listCalls), NEW d, Becomes(i, d), NEW l,
           Founding(d, l) <=> Founding(listCalls[i], l), Removing(d, l) <=> Removing(listCalls[i], l),
           Naming(d, l) <=> Naming(listCalls[i], l), Naming(d, l) => d.name = listCalls[i].name,
           ~Dealing(listCalls[i], l), ~Dealing(d, l), ListOK(l),
           row'[l] = row[l], shown'[l] = shown[l]
    PROVE  ListOK(l)'
<1>1. /\ Len(listCalls') = Len(listCalls) /\ listCalls'[i] = d
      /\ \A j \in 1 .. Len(listCalls) : j # i => listCalls'[j] = listCalls[j]
  BY DEF Becomes
<1>2. \A j \in 1 .. Len(listCalls) :
         /\ Removing(listCalls'[j], l) <=> Removing(listCalls[j], l)
         /\ Founding(listCalls'[j], l) <=> Founding(listCalls[j], l)
         /\ Naming(listCalls'[j], l) <=> Naming(listCalls[j], l)
         /\ Dealing(listCalls'[j], l) <=> Dealing(listCalls[j], l)
  BY <1>1
<1>3. HiddenOK(l)'
  BY <1>1, <1>2 DEF ListOK, HiddenOK
<1>4. ASSUME NEW j, LastNaming(listCalls', j, l) PROVE LastNaming(listCalls, j, l) /\ listCalls'[j].name = listCalls[j].name
  BY <1>1, <1>2, <1>4 DEF LastNaming
<1>5. ASSUME NEW j, LastDealing(listCalls', j, l) PROVE LastDealing(listCalls, j, l) /\ listCalls'[j] = listCalls[j]
  BY <1>1, <1>2, <1>5 DEF LastDealing
<1>6. shown[l] # None => NameOK(l)'
  BY <1>1, <1>2, <1>4 DEF ListOK, ShownOK, NameOK
<1>7. shown[l] # None => DealtOK(l)'
  BY <1>1, <1>2, <1>5 DEF ListOK, ShownOK, DealtOK
<1> QED BY <1>3, <1>6, <1>7 DEF ListOK, ShownOK

LEMMA ElsewhereServed ==
    ASSUME NEW i \in 1 .. Len(listCalls), NEW d, Becomes(i, d), NEW l, Mute(listCalls[i], l), Mute(d, l), ListOK(l),
           row'[l] = row[l], shown'[l] = shown[l]
    PROVE  ListOK(l)'
BY EvenServed DEF Mute

\* A creation of list l is served, or the fetch behind it.
LEMMA FoundServed ==
    ASSUME NEW i \in 1 .. Len(listCalls), NEW d, Becomes(i, d), NEW l, Founding(d, l), shown'[l] = None,
           row'[l] # None => row'[l].expired = FALSE
    PROVE  ListOK(l)'
<1>1. Len(listCalls') = Len(listCalls) /\ listCalls'[i] = d
  BY DEF Becomes
<1> QED BY <1>1 DEF ListOK, HiddenOK, ShownOK

\* A write of the cards of list l is served, or a fetch of them.
LEMMA DealServed ==
    ASSUME NEW i \in 1 .. Len(listCalls), NEW d, Becomes(i, d), NEW l, Dealing(listCalls[i], l), Dealing(d, l), ListOK(l),
           \A k \in 1 .. Len(listCalls) : i < k => listCalls[k].at = "sent",
           row'[l] = None <=> row[l] = None, row[l] # None => row'[l].name = row[l].name /\ row'[l].expired = FALSE,
           shown'[l] = shown[l], Len(listCalls) \in Nat,
           d.op = "get" /\ d.at = "answered" => d.cards = L!InPositions(row'[l].entries)
    PROVE  ListOK(l)'
<1>1. /\ Len(listCalls') = Len(listCalls) /\ listCalls'[i] = d
      /\ \A j \in 1 .. Len(listCalls) : j # i => listCalls'[j] = listCalls[j]
  BY DEF Becomes
<1>2. \A j \in 1 .. Len(listCalls) :
         /\ Removing(listCalls'[j], l) <=> Removing(listCalls[j], l)
         /\ Founding(listCalls'[j], l) <=> Founding(listCalls[j], l)
         /\ Naming(listCalls'[j], l) <=> Naming(listCalls[j], l)
         /\ Dealing(listCalls'[j], l) <=> Dealing(listCalls[j], l)
  BY <1>1 DEF Dealing, Removing, Founding, New, Naming
<1>3. HiddenOK(l)'
  BY <1>1, <1>2 DEF ListOK, HiddenOK
<1>4. ASSUME NEW j, LastNaming(listCalls', j, l) PROVE LastNaming(listCalls, j, l) /\ listCalls'[j].name = listCalls[j].name
  <2>1. j # i
    BY <1>1, <1>4 DEF LastNaming, Naming, Dealing
  <2> QED BY <1>1, <1>2, <1>4, <2>1 DEF LastNaming
<1>5. ASSUME NEW j, LastDealing(listCalls', j, l), listCalls'[j].op = "get", listCalls'[j].at = "answered"
      PROVE  listCalls'[j].cards = L!InPositions(row'[l].entries)
  <2>1. j \in 1 .. Len(listCalls) /\ ~(j < i)
    BY <1>1, <1>2, <1>5 DEF LastDealing
  <2>2. CASE j = i
    BY <1>1, <1>5, <2>2
  <2>3. CASE i < j
    BY <1>1, <1>5, <2>1, <2>3
  <2> QED BY <2>1, <2>2, <2>3
<1>6. shown[l] # None => NameOK(l)'
  BY <1>1, <1>2, <1>4 DEF ListOK, ShownOK, NameOK
<1>7. shown[l] # None => DealtOK(l)'
  BY <1>1, <1>2, <1>5 DEF DealtOK
<1> QED BY <1>3, <1>6, <1>7 DEF ListOK, ShownOK

\* A renaming of list l is saved.
LEMMA NameServed ==
    ASSUME NEW i \in 1 .. Len(listCalls), NEW d, Becomes(i, d), NEW l, Naming(listCalls[i], l), Mute(d, l), ListOK(l),
           \A k \in 1 .. Len(listCalls) : k < i => listCalls[k].at = "answered",
           row[l] # None, RowIs(l, listCalls[i].name, FALSE, row[l].entries),
           shown'[l] = shown[l], Len(listCalls) \in Nat
    PROVE  ListOK(l)'
<1>1. /\ Len(listCalls') = Len(listCalls) /\ listCalls'[i] = d
      /\ \A j \in 1 .. Len(listCalls) : j # i => listCalls'[j] = listCalls[j]
  BY DEF Becomes
<1>2. \A j \in 1 .. Len(listCalls) :
         /\ Removing(listCalls'[j], l) <=> Removing(listCalls[j], l)
         /\ Founding(listCalls'[j], l) <=> Founding(listCalls[j], l)
         /\ Naming(listCalls'[j], l) <=> Naming(listCalls[j], l) /\ j # i
         /\ Dealing(listCalls'[j], l) <=> Dealing(listCalls[j], l)
  BY <1>1 DEF Mute, Dealing, Removing, Founding, New, Naming
<1>3. HiddenOK(l)'
  BY <1>1, <1>2 DEF ListOK, HiddenOK
<1>4. \A j \in 1 .. Len(listCalls) : j < i => ~Naming(listCalls[j], l)
  BY DEF Naming
<1>5. ASSUME NEW j, LastNaming(listCalls', j, l) PROVE LastNaming(listCalls, j, l) /\ listCalls'[j] = listCalls[j]
  <2>1. j \in 1 .. Len(listCalls) /\ j # i /\ Naming(listCalls[j], l) /\ listCalls'[j] = listCalls[j]
    BY <1>1, <1>2, <1>5 DEF LastNaming
  <2>2. i < j
    BY <1>4, <2>1
  <2> QED BY <1>1, <1>2, <1>5, <2>1, <2>2 DEF LastNaming
<1>6. (\A j \in 1 .. Len(listCalls) : ~Naming(listCalls'[j], l)) => LastNaming(listCalls, i, l)
  BY <1>2 DEF LastNaming
<1>7. ASSUME NEW j, LastDealing(listCalls', j, l) PROVE LastDealing(listCalls, j, l) /\ listCalls'[j] = listCalls[j]
  <2>1. j # i
    BY <1>1, <1>2, <1>7 DEF LastDealing, Naming, Dealing
  <2> QED BY <1>1, <1>2, <1>7, <2>1 DEF LastDealing
<1>8. shown[l] # None => NameOK(l)'
  BY <1>1, <1>5, <1>6 DEF ListOK, ShownOK, NameOK, RowIs
<1>9. shown[l] # None => DealtOK(l)'
  BY <1>1, <1>2, <1>7 DEF ListOK, ShownOK, DealtOK, RowIs
<1> QED BY <1>3, <1>8, <1>9 DEF ListOK, ShownOK, RowIs

LEMMA ServedTab ==
    ASSUME ListTypes, TabShows, Smooth, Smooth', NEW i \in 1 .. Len(listCalls), L!Serve(i),
           NEW l, l = listCalls[i].list
    PROVE  TabShows'
<1> DEFINE c == listCalls[i]
           d == listCalls'[i]
<1>1. /\ Becomes(i, d) /\ InTurn(i) /\ ~CallOver(c) /\ d.op = c.op /\ d.tab = c.tab /\ d.at # "sent" /\ shown' = shown
  BY ServedOne
<1>2. /\ Len(listCalls') = Len(listCalls) /\ Len(listCalls) \in Nat
      /\ \A j \in 1 .. Len(listCalls) : j # i => listCalls'[j] = listCalls[j]
  BY <1>1, ListFacts DEF Becomes
<1>3. /\ \A j \in 1 .. Len(listCalls) : listCalls[j].tab /\ listCalls[j].at # "failed"
      /\ InLine /\ (\A j \in 1 .. Len(listCalls) : RequestOK(j)) /\ \A m \in List : ListOK(m)
  BY DEF TabShows, Smooth, Mine
<1>4. /\ \A j \in 1 .. Len(listCalls) : j < i => listCalls[j].at = "answered"
      /\ \A k \in 1 .. Len(listCalls) : i < k => listCalls[k].at = "sent"
      /\ \A k \in 1 .. Len(listCalls) : k # i => listCalls[k].at # "found"
  <2>1. ASSUME NEW j \in 1 .. Len(listCalls), j < i PROVE listCalls[j].at = "answered"
    BY <1>1, <1>3, <2>1 DEF InTurn, CallOver
  <2>2. ASSUME NEW k \in 1 .. Len(listCalls), i < k PROVE listCalls[k].at = "sent"
    BY <1>1, <1>3, <2>2 DEF InLine, CallOver
  <2>3. ASSUME NEW k \in 1 .. Len(listCalls), k # i PROVE listCalls[k].at # "found"
    BY <1>2, <2>1, <2>2, <2>3
  <2> QED BY <2>1, <2>2, <2>3
<1>5. Mine'
  BY <1>1, <1>2, <1>3 DEF Mine, Becomes
<1>6. InLine'
  <2>1. ASSUME NEW j \in 1 .. Len(listCalls), NEW k \in 1 .. Len(listCalls), j < k, listCalls'[k].at # "sent"
        PROVE  listCalls'[j].at = "answered"
    <3>1. CASE k = i
      BY <1>2, <1>4, <2>1, <3>1
    <3>2. CASE k # i
      <4>1. listCalls[k].at # "sent"
        BY <1>2, <2>1, <3>2
      <4>2. j # i /\ listCalls[j].at = "answered"
        BY <1>3, <1>4, <2>1, <4>1 DEF InLine
      <4> QED BY <1>2, <4>2
    <3> QED BY <3>1, <3>2
  <2> QED BY <1>2, <2>1 DEF InLine
<1>7. c \in GoodCalls /\ c \in CallType /\ Fit(c) /\ c.op \notin {"filters", "refresh"} /\ d.at # "failed"
      /\ row \in [List -> L!Rows \cup {None}] /\ None \notin L!Rows /\ None \notin List
  BY <1>2, <1>3, ListFacts, ShopperAssumption DEF RequestOK, Smooth, ListTypes, L!ListsAssumption
\* What is left to show, when only the row of list k may change.
<1>8. ASSUME NEW k, Beside(k) \/ row' = row, k # l => \A j \in 1 .. Len(listCalls) : listCalls[j].list # k,
             d.list = l \/ (d.list = k /\ d.op = "create"),
             k \in List => ListOK(k)', l \in List => ListOK(l)', \A m \in List : m # k /\ m # l => Mute(c, m) /\ Mute(d, m),
             d.op = "rename" /\ d.at = "found" => row'[d.list] # None, d.list = l \/ ~New(c), NewOK(i)'
      PROVE  TabShows'
  <2>1. ASSUME NEW m \in List PROVE ListOK(m)'
    <3>1. CASE m # k /\ m # l
      <4>1. row'[m] = row[m] /\ shown'[m] = shown[m]
        BY <1>1, <1>8, <3>1 DEF Beside
      <4> QED BY <1>1, <1>3, <1>8, <3>1, <4>1, ElsewhereServed
    <3> QED BY <1>8, <3>1
  <2>2. ASSUME NEW j \in 1 .. Len(listCalls), j # i PROVE RequestOK(j)'
    <3>1. listCalls'[j] = listCalls[j] /\ RequestOK(j)
      BY <1>2, <1>3, <2>2
    <3>2. listCalls[j].at # "found"
      BY <1>4, <2>2
    <3>3. NewOK(j)'
      <4> SUFFICES ASSUME New(listCalls[j]) PROVE NewOK(j)'
        BY <3>1 DEF NewOK
      <4>1. /\ shown[listCalls[j].list] = None /\ row[listCalls[j].list] # None
            /\ \A n \in 1 .. Len(listCalls) : listCalls[n].list = listCalls[j].list => n = j
            /\ listCalls[j].op = "getNew" /\ listCalls[j].at = "answered" =>
                  /\ listCalls[j].name = row[listCalls[j].list].name
                  /\ listCalls[j].cards = L!InPositions(row[listCalls[j].list].entries)
        BY <3>1 DEF RequestOK, NewOK
      <4>2. listCalls[j].list # l /\ listCalls[j].list \in List
        <5>1. listCalls[j].list # l
          BY <2>2, <4>1
        <5>2. Fit(listCalls[j])
          BY ListFacts
        <5> QED BY <5>1, <5>2 DEF Fit, New
      <4>3. listCalls[j].list # k
        BY <1>8, <4>2
      <4>4. row'[listCalls[j].list] = row[listCalls[j].list]
        BY <1>8, <4>2, <4>3 DEF Beside
      <4>5. \A n \in 1 .. Len(listCalls) : listCalls'[n].list = listCalls[j].list => n = j
        <5>1. d.list # listCalls[j].list
          BY <1>8, <4>2, <4>3
        <5> QED BY <1>2, <4>1, <5>1
      <4> QED BY <1>1, <1>2, <3>1, <4>1, <4>4, <4>5 DEF NewOK
    <3> QED BY <1>1, <3>1, <3>2, <3>3 DEF RequestOK
  <2>3. RequestOK(i)'
    <3>1. RequestOK(i)
      BY <1>3
    <3>2. d.op = "delete" => shown'[d.list] = None
      BY <1>1, <1>8, <3>1 DEF RequestOK
    <3>3. d.op \notin {"filters", "refresh"}
      BY <1>1, <1>7
    <3> QED BY <1>8, <3>2, <3>3 DEF RequestOK
  <2> QED BY <1>2, <1>5, <1>6, <2>1, <2>2, <2>3 DEF TabShows
<1>9. \A m : m # l => /\ ~Founding(c, m) /\ ~Naming(c, m) /\ ~Dealing(c, m) /\ ~Removing(c, m)
                      /\ d.list = l => Mute(d, m)
  BY DEF Mute, Founding, Naming, Dealing, Removing
<1>10. \A m : m # l => Mute(c, m)
  BY <1>9 DEF Mute
<1>11. CASE L!FindOwnedList(i)
  <2>1. row' = row
    BY <1>11 DEF L!FindOwnedList, L!ReadOnly
  <2>2. /\ Same(c, d) /\ c.op \notin {"create", "get", "getNew"} /\ d.list = l /\ l \in List /\ c.at = "sent"
        /\ d.name = c.name /\ d.at = "found" /\ L!Live(l)
    BY <1>7, <1>11, FindDoes
  <2>3. row[l] # None /\ row[l].expired = FALSE
    BY <1>3, <2>2 DEF L!Live, ListOK
  <2>4. ListOK(l)'
    <3>1. CASE Dealing(c, l)
      <4>1. Dealing(d, l) /\ d.op # "get"
        BY <1>1, <2>2, <3>1 DEF Dealing
      <4> QED BY <1>1, <1>2, <1>3, <1>4, <2>1, <2>2, <2>3, <3>1, <4>1, DealServed
    <3>2. CASE ~Dealing(c, l)
      <4>1. /\ Founding(d, l) <=> Founding(c, l)
            /\ Removing(d, l) <=> Removing(c, l)
            /\ Naming(d, l) <=> Naming(c, l)
            /\ ~Dealing(d, l)
        BY <1>1, <2>2, <3>2 DEF Founding, Removing, Naming, Dealing, New
      <4> QED BY <1>1, <1>3, <2>1, <2>2, <3>2, <4>1, EvenServed
    <3> QED BY <3>1, <3>2
  <2>5. NewOK(i)'
    BY <1>1, <2>2 DEF NewOK, New
  <2> QED BY <1>8, <1>9, <1>10, <2>1, <2>2, <2>3, <2>4, <2>5
<1>12. CASE L!CountLists(i)
  <2>1. row' = row
    BY <1>12 DEF L!CountLists, L!ReadOnly
  <2>2. c.op = "create" /\ c.at = "sent" /\ d.list = l /\ d.at \in {"failed", "counted"}
    <3>1. MoveFact(i) /\ c.op = "create" /\ c.at = "sent"
      BY <1>12, MovesDo, ListFacts DEF L!CountLists
    <3> QED BY <3>1 DEF MoveFact, SameBut
  <2>3. Mute(c, l) /\ Mute(d, l) /\ ~New(d)
    BY <1>1, <2>2 DEF Mute, Founding, Removing, Naming, Dealing, New
  <2>4. l \in List => ListOK(l)'
    BY <1>1, <1>3, <2>1, <2>3, ElsewhereServed
  <2>5. NewOK(i)'
    BY <2>3 DEF NewOK
  <2>6. d.op # "rename"
    BY <1>1, <2>2
  <2> QED BY <1>8, <1>9, <1>10, <2>1, <2>2, <2>4, <2>5, <2>6
<1>13. CASE L!SaveNewList(i)
  <2> PICK k : k = d.list
    OBVIOUS
  <2>1. /\ c.op = "create" /\ c.at = "counted" /\ d.name = c.name /\ d.at = "saved"
        /\ k \in List /\ row[k] = None /\ shown[k] = None /\ \A j \in 1 .. Len(listCalls) : listCalls[j].list # k
        /\ row' = [row EXCEPT ![k] = [name |-> c.name, entries |-> <<>>, expired |-> FALSE]]
    BY <1>13, SaveNewDoes
  <2>2. c.name \in Name
    BY <1>7, <2>1 DEF Fit
  <2>3. Beside(k) /\ row'[k] # None /\ row'[k].expired = FALSE
    <3>1. [name |-> c.name, entries |-> <<>>, expired |-> FALSE] \in L!Rows
      BY <2>2, CardsFacts DEF L!Rows
    <3> QED BY <1>7, <2>1, <3>1 DEF Beside
  <2>4. New(d) /\ Founding(d, k)
    BY <1>1, <2>1 DEF New, Founding
  <2>5. ListOK(k)'
    BY <1>1, <2>1, <2>3, <2>4, FoundServed
  <2>6. l # k /\ Mute(c, l) /\ Mute(d, l) /\ ~New(c)
    BY <1>1, <2>1 DEF Mute, Founding, Removing, Naming, Dealing, New
  <2>7. l \in List => ListOK(l)'
    BY <1>1, <1>3, <2>3, <2>6, ElsewhereServed DEF Beside
  <2>8. \A m : m # k /\ m # l => Mute(c, m) /\ Mute(d, m)
    BY <1>10 DEF Mute, Founding, Removing, Naming, Dealing
  <2>9. NewOK(i)'
    <3>1. \A j \in 1 .. Len(listCalls') : listCalls'[j].list = k => j = i
      BY <1>2, <2>1
    <3>2. d.op # "getNew"
      BY <1>1, <2>1
    <3> QED BY <1>1, <2>1, <2>3, <3>1, <3>2 DEF NewOK
  <2>10. d.op = "create"
    BY <1>1, <2>1
  <2> QED BY <1>8, <2>1, <2>3, <2>5, <2>6, <2>7, <2>8, <2>9, <2>10
\* A step of the creation of list l, or of the fetch behind it.
<1>14. ASSUME Founding(c, l), New(d), d.list = l, l \in List, Beside(l) \/ row' = row,
              row'[l] = None <=> row[l] = None, row[l] # None => row'[l].expired = row[l].expired,
              d.op = "getNew" /\ d.at = "answered" =>
                  d.name = row'[l].name /\ d.cards = L!InPositions(row'[l].entries)
       PROVE  TabShows'
  <2>1. /\ shown[l] = None /\ row[l] # None
        /\ \A j \in 1 .. Len(listCalls) : listCalls[j].list = l => j = i
    BY <1>3, <1>14 DEF RequestOK, NewOK, Founding
  <2>2. row[l].expired = FALSE
    BY <1>3, <1>14, <2>1 DEF ListOK
  <2>3. ListOK(l)'
    BY <1>1, <1>14, <2>1, <2>2, FoundServed DEF Founding
  <2>4. NewOK(i)'
    <3>1. \A j \in 1 .. Len(listCalls') : listCalls'[j].list = l => j = i
      BY <1>2, <2>1
    <3> QED BY <1>1, <1>14, <2>1, <3>1 DEF NewOK
  <2>5. d.op # "rename"
    BY <1>14 DEF New
  <2> QED BY <1>8, <1>9, <1>10, <1>14, <2>3, <2>4, <2>5
\* A step of a write of the cards of list l, or of a fetch of them.
<1>15. ASSUME c.op \in {"replace", "add", "get"}, d.list = l, l \in List, Beside(l) \/ row' = row,
              row'[l] = None <=> row[l] = None,
              row[l] # None => row'[l].name = row[l].name /\ row'[l].expired = FALSE,
              d.op = "get" /\ d.at = "answered" => d.cards = L!InPositions(row'[l].entries)
       PROVE  TabShows'
  <2>1. Dealing(c, l) /\ Dealing(d, l) /\ ~New(d) /\ d.op # "rename"
    BY <1>1, <1>15 DEF Dealing, New
  <2>2. ListOK(l)'
    BY <1>1, <1>2, <1>3, <1>4, <1>15, <2>1, DealServed
  <2>3. NewOK(i)'
    BY <2>1 DEF NewOK
  <2> QED BY <1>8, <1>9, <1>10, <1>15, <2>1, <2>2, <2>3
<1>16. CASE L!GetList(i)
  <2>1. row' = row
    BY <1>16 DEF L!GetList, L!ReadOnly
  <2>2. /\ c.op \in {"get", "getNew"} /\ l \in List /\ d.list = l /\ d.op = c.op
        /\ d.at = "answered" /\ d.name = row[l].name /\ d.cards = L!InPositions(row[l].entries) /\ L!Live(l)
    BY <1>7, <1>16, GetDoes
  <2>3. row[l].expired = FALSE
    BY <1>3, <2>2 DEF L!Live, ListOK
  <2>4. CASE c.op = "get"
    BY <1>15, <2>1, <2>2, <2>3, <2>4
  <2>5. CASE c.op = "getNew"
    <3>1. Founding(c, l) /\ New(d)
      BY <2>2, <2>5 DEF Founding, New
    <3> QED BY <1>14, <2>1, <2>2, <3>1
  <2> QED BY <2>2, <2>4, <2>5
<1>17. CASE L!NextPosition(i)
  <2>1. row' = row
    BY <1>17 DEF L!NextPosition, L!ReadOnly
  <2>2. c.op = "add" /\ l \in List /\ d.list = l /\ d.op = c.op
    BY <1>1, <1>17, PlaceDoes
  <2>3. row[l] # None => row[l].expired = FALSE
    BY <1>3, <2>2 DEF ListOK
  <2> QED BY <1>15, <2>1, <2>2, <2>3
<1>18. ASSUME MoveOne(i)
       PROVE  MoveFact(i) /\ d.list = l /\ d.name = c.name
  BY <1>18, MovesDo DEF MoveOne, MoveFact, SameBut
<1>19. CASE L!InsertEntries(i)
  <2>1. /\ d.list = l /\ ((c.op = "create" /\ c.at = "saved") \/ (c.op = "replace" /\ c.at = "deleted"))
    BY <1>18, <1>19, ListFacts DEF MoveOne, L!InsertEntries
  <2>2. l \in List
    BY <1>7, <2>1 DEF Fit
  <2>3. \/ row' = row
        \/ row[l] # None /\ Beside(l) /\ \E e : RowIs(l, row[l].name, row[l].expired, e)
    BY <1>19, RowsDo
  <2>4. /\ Beside(l) \/ row' = row
        /\ row'[l] = None <=> row[l] = None
        /\ row[l] # None => row'[l].name = row[l].name /\ row'[l].expired = row[l].expired /\ row[l].expired = FALSE
    BY <1>3, <2>2, <2>3 DEF RowIs, ListOK
  <2>5. CASE c.op = "replace"
    <3>1. d.op # "get"
      BY <1>1, <2>5
    <3> QED BY <1>15, <2>1, <2>2, <2>4, <2>5, <3>1
  <2>6. CASE c.op = "create" /\ c.at = "saved"
    <3>1. d.at = "answered"
      <4>1. MoveFact(i) /\ ~L!CountLists(i)
        BY <1>18, <1>19, <2>6, ListFacts DEF MoveOne, L!CountLists
      <4>2. d.at \in {"failed", "answered"}
        BY <2>6, <4>1 DEF MoveFact
      <4> QED BY <1>7, <4>2
    <3>2. Founding(c, l) /\ New(d) /\ d.op # "getNew"
      BY <1>1, <2>6, <3>1 DEF Founding, New
    <3> QED BY <1>14, <2>1, <2>2, <2>4, <3>2
  <2> QED BY <2>1, <2>5, <2>6
<1>20. CASE L!DeleteEntries(i) \/ L!InsertEntry(i) \/ L!TouchExpiry(i)
  <2>1. d.list = l /\ c.op \in {"replace", "add"}
    BY <1>18, <1>20, ListFacts DEF MoveOne, L!DeleteEntries, L!InsertEntry, L!TouchExpiry
  <2>2. l \in List /\ d.op # "get"
    BY <1>1, <1>7, <2>1 DEF Fit
  <2>3. row[l] # None => row[l].expired = FALSE
    BY <1>3, <2>2 DEF ListOK
  <2>4. CASE L!DeleteEntries(i)
    <3>1. row' = row \/ (row[l] # None /\ Beside(l) /\ RowIs(l, row[l].name, row[l].expired, <<>>))
      BY <2>4, RowsDo
    <3> QED BY <1>15, <2>1, <2>2, <2>3, <3>1 DEF RowIs
  <2>5. CASE L!InsertEntry(i)
    <3>1. row' = row \/ (row[l] # None /\ Beside(l) /\ \E e : RowIs(l, row[l].name, row[l].expired, e))
      BY <2>5, RowsDo
    <3> QED BY <1>15, <2>1, <2>2, <2>3, <3>1 DEF RowIs
  <2>6. CASE L!TouchExpiry(i)
    <3>1. row' = row \/ (row[l] # None /\ Beside(l) /\ RowIs(l, row[l].name, FALSE, row[l].entries))
      BY <2>6, RowsDo
    <3> QED BY <1>15, <2>1, <2>2, <2>3, <3>1 DEF RowIs
  <2> QED BY <1>20, <2>4, <2>5, <2>6
<1>21. CASE L!SaveList(i)
  <2>1. /\ d.list = l /\ d.name = c.name /\ c.op = "rename" /\ c.at = "found" /\ d.op = "rename"
    BY <1>1, <1>7, <1>18, <1>21, ListFacts DEF MoveOne, L!SaveList
  <2>2. l \in List /\ row[l] # None
    <3>1. RequestOK(i)
      BY <1>3
    <3> QED BY <1>7, <2>1, <3>1 DEF Fit, RequestOK
  <2>3. d.at = "answered"
    <3>1. MoveFact(i)
      BY <1>18, <1>21 DEF MoveOne
    <3> QED BY <2>1, <3>1 DEF MoveFact
  <2>4. Beside(l) /\ RowIs(l, c.name, FALSE, row[l].entries)
    BY <1>21, <2>2, RowsDo
  <2>5. Naming(c, l) /\ Mute(d, l) /\ ~New(d)
    BY <2>1, <2>3 DEF Naming, Mute, Founding, Removing, Dealing, New
  <2>6. ListOK(l)'
    BY <1>1, <1>2, <1>3, <1>4, <2>2, <2>4, <2>5, NameServed
  <2>7. NewOK(i)'
    BY <2>5 DEF NewOK
  <2>8. d.at # "found"
    BY <2>3
  <2> QED BY <1>8, <1>9, <1>10, <2>1, <2>2, <2>4, <2>6, <2>7, <2>8
<1>22. CASE L!DeleteList(i)
  <2>1. d.list = l /\ c.op = "delete" /\ d.op = "delete"
    BY <1>1, <1>18, <1>22, ListFacts DEF MoveOne, L!DeleteList
  <2>2. l \in List /\ shown[l] = None
    <3>1. RequestOK(i)
      BY <1>3
    <3> QED BY <1>7, <2>1, <3>1 DEF Fit, RequestOK
  <2>3. Beside(l) /\ row'[l] = None
    BY <1>22, RowsDo
  <2>4. ListOK(l)'
    BY <1>1, <2>2, <2>3 DEF ListOK, HiddenOK, ShownOK
  <2>5. NewOK(i)'
    BY <2>1 DEF NewOK, New
  <2> QED BY <1>8, <1>9, <1>10, <2>1, <2>2, <2>3, <2>4, <2>5
<1>23. ~L!Claim(i) /\ ~L!EnqueueRefresh(i) /\ ~L!MarkRefresh(i)
  <2>1. L!Claim(i) \/ L!EnqueueRefresh(i) \/ L!MarkRefresh(i) => c.op = "refresh"
    BY ListFacts DEF L!Claim, L!EnqueueRefresh, L!MarkRefresh
  <2> QED BY <1>7, <2>1
<1> QED BY <1>11, <1>12, <1>13, <1>16, <1>17, <1>19, <1>20, <1>21, <1>22, <1>23 DEF L!Serve

\* A request is sent that has nothing to do with list l.
LEMMA ElsewhereSent ==
    ASSUME listCalls \in Seq(GoodCalls), NEW c \in GoodCalls, listCalls' = Append(listCalls, c), NEW l, Mute(c, l), ListOK(l),
           row'[l] = row[l], shown'[l] = shown[l]
    PROVE  ListOK(l)'
<1>1. /\ Len(listCalls') = Len(listCalls) + 1 /\ listCalls'[Len(listCalls) + 1] = c /\ Len(listCalls) \in Nat
      /\ \A j \in 1 .. Len(listCalls) : listCalls'[j] = listCalls[j]
      /\ \A j \in 1 .. Len(listCalls) + 1 : j \in 1 .. Len(listCalls) \/ j = Len(listCalls) + 1
      /\ \A j \in 1 .. Len(listCalls) : j \in 1 .. Len(listCalls')
  BY AppendFacts
<1>2. HiddenOK(l)'
  BY <1>1 DEF ListOK, HiddenOK
<1>3. ASSUME NEW j, LastNaming(listCalls', j, l) PROVE LastNaming(listCalls, j, l) /\ listCalls'[j] = listCalls[j]
  BY <1>1, <1>3 DEF LastNaming, Mute
<1>4. ASSUME NEW j, LastDealing(listCalls', j, l) PROVE LastDealing(listCalls, j, l) /\ listCalls'[j] = listCalls[j]
  BY <1>1, <1>4 DEF LastDealing, Mute
<1>5. shown[l] # None => NameOK(l)'
  BY <1>1, <1>3 DEF ListOK, ShownOK, NameOK
<1>6. shown[l] # None => DealtOK(l)'
  BY <1>1, <1>4 DEF ListOK, ShownOK, DealtOK
<1> QED BY <1>2, <1>5, <1>6 DEF ListOK, ShownOK

LEMMA SentTab ==
    ASSUME ListTypes, TabShows, Smooth, Smooth', NEW c \in GoodCalls, SendFact(c)
    PROVE  TabShows'
<1>1. /\ Len(listCalls') = Len(listCalls) + 1 /\ listCalls'[Len(listCalls) + 1] = c /\ Len(listCalls) \in Nat
      /\ \A j \in 1 .. Len(listCalls) : listCalls'[j] = listCalls[j]
      /\ \A j \in 1 .. Len(listCalls) + 1 : j \in 1 .. Len(listCalls) \/ j = Len(listCalls) + 1
      /\ \A j \in 1 .. Len(listCalls) : j \in 1 .. Len(listCalls') /\ j < Len(listCalls) + 1
      /\ listCalls' = Append(listCalls, c) /\ listCalls \in Seq(GoodCalls)
  BY ListFacts, AppendFacts DEF SendFact
<1>2. /\ \A j \in 1 .. Len(listCalls) : listCalls[j].tab
      /\ InLine /\ (\A j \in 1 .. Len(listCalls) : RequestOK(j)) /\ \A m \in List : ListOK(m)
  BY DEF TabShows, Smooth, Mine
<1>3. /\ c.tab /\ c.at = "sent" /\ row' = row /\ c.op \in {"create", "rename", "delete", "replace", "add"}
  BY DEF SendFact, Smooth
<1>4. /\ c \in CallType /\ Fit(c) /\ None \notin List /\ shown \in [List -> L!Views \cup {None}] /\ None \notin L!Views
      /\ L!Shown \subseteq List
  BY ShopperAssumption DEF GoodCalls, ListTypes, L!ListsAssumption, L!Shown
<1>5. Mine'
  BY <1>1, <1>2, <1>3 DEF Mine
<1>6. InLine'
  BY <1>1, <1>2, <1>3 DEF InLine
<1>7. PICK l : l = c.list
  OBVIOUS
\* Nothing that is shown is lost but list l.
<1>8. /\ \A m \in List : m # l => shown'[m] = shown[m]
      /\ shown' = shown \/ (l \in List /\ shown[l] # None)
      /\ c.op = "delete" => shown'[l] = None
      /\ \A j \in 1 .. Len(listCalls) : New(listCalls[j]) => listCalls[j].list # l
  <2>1. CASE c.op \in {"create", "add"}
    <3>1. shown' = shown /\ (c.op = "create" => l = None) /\ (c.op = "add" => shown[l] # None)
      BY <1>3, <1>7, <2>1 DEF SendFact, L!Shown
    <3>2. \A j \in 1 .. Len(listCalls) : New(listCalls[j]) => listCalls[j].list # l
      <4> TAKE j \in 1 .. Len(listCalls)
      <4> HAVE New(listCalls[j])
      <4>1. shown[listCalls[j].list] = None /\ listCalls[j].list \in List
        <5>1. Fit(listCalls[j]) /\ RequestOK(j)
          BY <1>2, ListFacts
        <5> QED BY <5>1 DEF RequestOK, NewOK, Fit, New
      <4> QED BY <1>4, <2>1, <3>1, <4>1
    <3> QED BY <2>1, <3>1, <3>2
  <2>2. CASE c.op \in {"rename", "delete", "replace"}
    <3>1. PICK v \in L!Views \cup {None} : shown' = [shown EXCEPT ![l] = v] /\ (v = None <=> c.op = "delete")
      BY <1>3, <1>7, <2>2 DEF SendFact
    <3>2. l \in List /\ shown[l] # None
      BY <1>3, <1>7, <2>2 DEF SendFact, L!Shown
    <3>3. \A j \in 1 .. Len(listCalls) : New(listCalls[j]) => listCalls[j].list # l
      BY <1>2, <3>2 DEF RequestOK, NewOK
    <3> QED BY <1>4, <3>1, <3>2, <3>3
  <2> QED BY <1>3, <2>1, <2>2
<1>9. ASSUME NEW j \in 1 .. Len(listCalls) PROVE RequestOK(j)'
  <2>1. listCalls'[j] = listCalls[j] /\ RequestOK(j) /\ Fit(listCalls[j])
    BY <1>1, <1>2, ListFacts
  <2>2. listCalls[j].op = "delete" => shown'[listCalls[j].list] = None
    <3>1. listCalls[j].op = "delete" => shown[listCalls[j].list] = None /\ listCalls[j].list \in List
      BY <2>1 DEF RequestOK, Fit
    <3> QED BY <1>8, <3>1
  <2>3. NewOK(j)'
    <3> SUFFICES ASSUME New(listCalls[j]) PROVE NewOK(j)'
      BY <2>1 DEF NewOK
    <3>1. /\ shown[listCalls[j].list] = None /\ row[listCalls[j].list] # None /\ listCalls[j].list \in List
          /\ \A n \in 1 .. Len(listCalls) : listCalls[n].list = listCalls[j].list => n = j
          /\ listCalls[j].op = "getNew" /\ listCalls[j].at = "answered" =>
                /\ listCalls[j].name = row[listCalls[j].list].name
                /\ listCalls[j].cards = L!InPositions(row[listCalls[j].list].entries)
      BY <2>1 DEF RequestOK, NewOK, Fit, New
    <3>2. listCalls[j].list # l
      BY <1>8
    <3>3. \A n \in 1 .. Len(listCalls') : listCalls'[n].list = listCalls[j].list => n = j
      BY <1>1, <1>7, <3>1, <3>2
    <3>4. shown'[listCalls[j].list] = None
      BY <1>8, <3>1, <3>2
    <3> QED BY <1>3, <2>1, <3>1, <3>3, <3>4 DEF NewOK
  <2> QED BY <1>3, <2>1, <2>2, <2>3 DEF RequestOK
<1>10. PICK n : n = Len(listCalls) + 1
  OBVIOUS
<1>11. n \in 1 .. Len(listCalls') /\ listCalls'[n] = c /\ \A j \in 1 .. Len(listCalls') : j \in 1 .. Len(listCalls) \/ j = n
  BY <1>1, <1>10
<1>12. RequestOK(n)'
  <2>1. ~New(c)
    BY <1>3 DEF New
  <2>2. NewOK(n)'
    BY <1>11, <2>1 DEF NewOK
  <2> QED BY <1>3, <1>7, <1>8, <1>11, <2>2 DEF RequestOK
<1>13. \A j \in 1 .. Len(listCalls') : RequestOK(j)'
  BY <1>9, <1>11, <1>12
<1>14. \A j \in 1 .. Len(listCalls) : j < n /\ listCalls'[j] = listCalls[j] /\ j \in 1 .. Len(listCalls') /\ j # n
  BY <1>1, <1>10
<1>15. ASSUME NEW m \in List, m # l PROVE ListOK(m)'
  <2>1. Mute(c, m)
    BY <1>7, <1>15 DEF Mute, Founding, Removing, Naming, Dealing
  <2>2. shown'[m] = shown[m] /\ row'[m] = row[m] /\ ListOK(m)
    BY <1>2, <1>3, <1>8, <1>15
  <2> QED BY <1>1, <2>1, <2>2, ElsewhereSent
<1>16. ASSUME l \in List PROVE ListOK(l)'
  <2>1. ListOK(l) /\ c.op # "create"
    BY <1>2, <1>3, <1>4, <1>7, <1>16 DEF SendFact
  <2>2. CASE c.op = "delete"
    <3>1. shown'[l] = None
      BY <1>8, <2>2
    <3>2. Removing(c, l)
      BY <1>3, <1>7, <2>2 DEF Removing
    <3> QED BY <1>3, <1>11, <2>1, <3>1, <3>2 DEF ListOK, HiddenOK, ShownOK
  <2>3. CASE c.op = "rename"
    <3>1. PICK v \in L!Views \cup {None} : /\ shown' = [shown EXCEPT ![l] = v] /\ v # None /\ v.name = c.name
                                           /\ v.cards = shown[l].cards
      BY <1>3, <1>7, <2>3 DEF SendFact
    <3>2. shown'[l] = v /\ shown[l] # None
      BY <1>3, <1>4, <1>7, <1>16, <2>3, <3>1 DEF SendFact, L!Shown
    <3>3. Naming(c, l) /\ ~Dealing(c, l)
      BY <1>3, <1>7, <2>3 DEF Naming, Dealing
    <3>4. ASSUME NEW j, LastNaming(listCalls', j, l) PROVE listCalls'[j] = c
      <4>1. j = n
        BY <1>11, <1>14, <3>3, <3>4 DEF LastNaming
      <4> QED BY <1>11, <4>1
    <3>5. NameOK(l)'
      BY <1>11, <3>1, <3>2, <3>3, <3>4 DEF NameOK
    <3>6. ASSUME NEW j, LastDealing(listCalls', j, l) PROVE LastDealing(listCalls, j, l) /\ listCalls'[j] = listCalls[j]
      <4>1. j \in 1 .. Len(listCalls)
        BY <1>11, <3>3, <3>6 DEF LastDealing
      <4> QED BY <1>14, <3>6, <4>1 DEF LastDealing
    <3>7. DealtOK(l)'
      BY <1>3, <1>14, <2>1, <3>1, <3>2, <3>6 DEF ListOK, ShownOK, DealtOK
    <3> QED BY <1>3, <2>1, <3>1, <3>2, <3>5, <3>7 DEF ListOK, HiddenOK, ShownOK
  <2>4. CASE c.op \in {"replace", "add"}
    <3>1. /\ shown[l] # None /\ shown'[l] # None /\ shown'[l].name = shown[l].name
      <4>1. CASE c.op = "add"
        BY <1>3, <1>7, <4>1 DEF SendFact, L!Shown
      <4>2. CASE c.op = "replace"
        <5>1. PICK v \in L!Views \cup {None} : shown' = [shown EXCEPT ![l] = v] /\ v # None /\ v.name = shown[l].name
          BY <1>3, <1>7, <4>2 DEF SendFact
        <5>2. shown[l] # None
          BY <1>3, <1>7, <4>2 DEF SendFact, L!Shown
        <5> QED BY <1>4, <1>16, <5>1, <5>2
      <4> QED BY <2>4, <4>1, <4>2
    <3>2. Dealing(c, l) /\ ~Naming(c, l)
      BY <1>7, <2>4 DEF Naming, Dealing
    <3>3. ASSUME NEW j, LastNaming(listCalls', j, l) PROVE LastNaming(listCalls, j, l) /\ listCalls'[j] = listCalls[j]
      <4>1. j \in 1 .. Len(listCalls)
        BY <1>11, <3>2, <3>3 DEF LastNaming
      <4> QED BY <1>14, <3>3, <4>1 DEF LastNaming
    <3>4. NameOK(l)'
      BY <1>3, <1>14, <2>1, <3>1, <3>3 DEF ListOK, ShownOK, NameOK
    <3>5. ASSUME NEW j, LastDealing(listCalls', j, l) PROVE listCalls'[j] = c
      <4>1. j = n
        BY <1>11, <1>14, <3>2, <3>5 DEF LastDealing
      <4> QED BY <1>11, <4>1
    <3>6. DealtOK(l)'
      BY <1>11, <2>4, <3>2, <3>5 DEF DealtOK
    <3> QED BY <1>3, <2>1, <3>1, <3>4, <3>6 DEF ListOK, HiddenOK, ShownOK
  <2> QED BY <1>3, <2>1, <2>2, <2>3, <2>4
<1>17. \A m \in List : ListOK(m)'
  BY <1>15, <1>16
<1> QED BY <1>5, <1>6, <1>13, <1>17 DEF TabShows

\* The first request has left the row, and another may have come to its end.
Advanced ==
    /\ Len(listCalls) \in Nat /\ Len(listCalls') \in {Len(listCalls) - 1, Len(listCalls)} /\ Len(listCalls') \in Nat
    /\ \A j \in 1 .. Len(listCalls) - 1 : j \in 1 .. Len(listCalls') /\ listCalls'[j] = listCalls[j + 1]

LEMMA AdvancedFacts ==
    ASSUME Advanced
    PROVE  /\ \A j \in 1 .. Len(listCalls') :
                \/ j \in 1 .. Len(listCalls) - 1 /\ j + 1 \in 1 .. Len(listCalls) /\ listCalls'[j] = listCalls[j + 1]
                \/ j = Len(listCalls) /\ Len(listCalls') = Len(listCalls)
           /\ \A k \in 1 .. Len(listCalls) :
                k = 1 \/ (k - 1 \in 1 .. Len(listCalls) - 1 /\ k - 1 \in 1 .. Len(listCalls') /\ listCalls'[k - 1] = listCalls[k])
<1> DEFINE n == Len(listCalls)
           m == Len(listCalls')
<1>1. n \in Nat /\ m \in {n - 1, n} /\ m \in Nat
  BY DEF Advanced
<1>2. \A j \in 1 .. n - 1 : j \in 1 .. m /\ listCalls'[j] = listCalls[j + 1]
  BY DEF Advanced
<1>3. ASSUME NEW j \in 1 .. m
      PROVE  (j \in 1 .. n - 1 /\ j + 1 \in 1 .. n /\ listCalls'[j] = listCalls[j + 1]) \/ (j = n /\ m = n)
  <2> HIDE DEF n, m
  <2>1. j \in 1 .. n - 1 \/ (j = n /\ m = n)
    BY <1>1
  <2>2. j \in 1 .. n - 1 => j + 1 \in 1 .. n
    BY <1>1
  <2> QED BY <1>2, <2>1, <2>2
<1>4. ASSUME NEW k \in 1 .. n
      PROVE  k = 1 \/ (k - 1 \in 1 .. n - 1 /\ k - 1 \in 1 .. m /\ listCalls'[k - 1] = listCalls[k])
  <2> HIDE DEF n, m
  <2>1. k = 1 \/ (k - 1 \in 1 .. n - 1 /\ (k - 1) + 1 = k)
    BY <1>1
  <2>2. k - 1 \in 1 .. n - 1 => k - 1 \in 1 .. m /\ listCalls'[k - 1] = listCalls[(k - 1) + 1]
    BY <1>2
  <2> QED BY <2>1, <2>2
<1> QED BY <1>3, <1>4

\* The last renaming of a list was the last before too, and so was the last write.
LEMMA LastStays ==
    ASSUME Advanced, NEW l, NEW j \in 1 .. Len(listCalls) - 1
    PROVE  /\ LastNaming(listCalls', j, l) => LastNaming(listCalls, j + 1, l) /\ listCalls'[j] = listCalls[j + 1]
           /\ LastDealing(listCalls', j, l) => LastDealing(listCalls, j + 1, l) /\ listCalls'[j] = listCalls[j + 1]
<1>1. j \in Nat /\ j + 1 \in 1 .. Len(listCalls) /\ listCalls'[j] = listCalls[j + 1]
  BY DEF Advanced
<1>2. ASSUME NEW k \in 1 .. Len(listCalls), j + 1 < k
      PROVE  k - 1 \in 1 .. Len(listCalls') /\ j < k - 1 /\ listCalls'[k - 1] = listCalls[k]
  <2>1. k # 1 /\ j < k - 1
    BY <1>1, <1>2
  <2> QED BY <2>1, AdvancedFacts
<1>3. ASSUME LastNaming(listCalls', j, l) PROVE LastNaming(listCalls, j + 1, l)
  <2>1. Naming(listCalls'[j], l) /\ \A k \in 1 .. Len(listCalls') : j < k => ~Naming(listCalls'[k], l)
    BY <1>3 DEF LastNaming
  <2>2. ASSUME NEW k \in 1 .. Len(listCalls), j + 1 < k PROVE ~Naming(listCalls[k], l)
    BY <1>2, <2>1, <2>2
  <2> QED BY <1>1, <2>1, <2>2 DEF LastNaming
<1>4. ASSUME LastDealing(listCalls', j, l) PROVE LastDealing(listCalls, j + 1, l)
  <2>1. Dealing(listCalls'[j], l) /\ \A k \in 1 .. Len(listCalls') : j < k => ~Dealing(listCalls'[k], l)
    BY <1>4 DEF LastDealing
  <2>2. ASSUME NEW k \in 1 .. Len(listCalls), j + 1 < k PROVE ~Dealing(listCalls[k], l)
    BY <1>2, <2>1, <2>2
  <2> QED BY <1>1, <2>1, <2>2 DEF LastDealing
<1> QED BY <1>1, <1>3, <1>4

LEMMA HiddenStays ==
    ASSUME Advanced, NEW l, ~Removing(listCalls[1], l), ~Founding(listCalls[1], l), HiddenOK(l),
           row'[l] = row[l], shown'[l] = shown[l]
    PROVE  HiddenOK(l)'
<1> SUFFICES ASSUME shown[l] = None, row[l] # None
             PROVE  \E j \in 1 .. Len(listCalls') : Removing(listCalls'[j], l) \/ Founding(listCalls'[j], l)
  BY DEF HiddenOK
<1>1. PICK k \in 1 .. Len(listCalls) : Removing(listCalls[k], l) \/ Founding(listCalls[k], l)
  BY DEF HiddenOK
<1>2. k - 1 \in 1 .. Len(listCalls') /\ listCalls'[k - 1] = listCalls[k]
  BY <1>1, AdvancedFacts
<1> QED BY <1>1, <1>2

LEMMA NameStays ==
    ASSUME Advanced, NEW l, ~Naming(listCalls[1], l), Len(listCalls') = Len(listCalls) => ~Naming(listCalls'[Len(listCalls)], l),
           NameOK(l), row'[l] = row[l], shown'[l].name = shown[l].name
    PROVE  NameOK(l)'
<1>1. ASSUME \A j \in 1 .. Len(listCalls') : ~Naming(listCalls'[j], l) PROVE \A k \in 1 .. Len(listCalls) : ~Naming(listCalls[k], l)
  <2> TAKE k \in 1 .. Len(listCalls)
  <2>1. k = 1 \/ (k - 1 \in 1 .. Len(listCalls') /\ listCalls'[k - 1] = listCalls[k])
    BY AdvancedFacts
  <2> QED BY <1>1, <2>1
<1>2. ASSUME NEW j, LastNaming(listCalls', j, l)
      PROVE  LastNaming(listCalls, j + 1, l) /\ listCalls'[j] = listCalls[j + 1]
  <2>1. j \in 1 .. Len(listCalls') /\ Naming(listCalls'[j], l)
    BY <1>2 DEF LastNaming
  <2>2. j \in 1 .. Len(listCalls) - 1
    BY <2>1, AdvancedFacts
  <2> QED BY <1>2, <2>2, LastStays
<1> QED BY <1>1, <1>2 DEF NameOK

LEMMA DealStays ==
    ASSUME Advanced, NEW l, ~Dealing(listCalls[1], l), Len(listCalls') = Len(listCalls) => ~Dealing(listCalls'[Len(listCalls)], l),
           DealtOK(l), row'[l] = row[l], shown'[l].cards = shown[l].cards
    PROVE  DealtOK(l)'
<1>1. ASSUME \A j \in 1 .. Len(listCalls') : ~Dealing(listCalls'[j], l) PROVE \A k \in 1 .. Len(listCalls) : ~Dealing(listCalls[k], l)
  <2> TAKE k \in 1 .. Len(listCalls)
  <2>1. k = 1 \/ (k - 1 \in 1 .. Len(listCalls') /\ listCalls'[k - 1] = listCalls[k])
    BY AdvancedFacts
  <2> QED BY <1>1, <2>1
<1>2. ASSUME NEW j, LastDealing(listCalls', j, l)
      PROVE  LastDealing(listCalls, j + 1, l) /\ listCalls'[j] = listCalls[j + 1]
  <2>1. j \in 1 .. Len(listCalls') /\ Dealing(listCalls'[j], l)
    BY <1>2 DEF LastDealing
  <2>2. j \in 1 .. Len(listCalls) - 1
    BY <2>1, AdvancedFacts
  <2> QED BY <1>2, <2>2, LastStays
<1> QED BY <1>1, <1>2 DEF DealtOK

\* The first request had nothing to do with list l, and the one at the end has not.
LEMMA ElsewhereGone ==
    ASSUME Advanced, NEW l, Mute(listCalls[1], l), Len(listCalls') = Len(listCalls) => Mute(listCalls'[Len(listCalls)], l),
           ListOK(l), row'[l] = row[l], shown'[l] = shown[l]
    PROVE  ListOK(l)'
<1>1. HiddenOK(l)'
  BY HiddenStays DEF Mute, ListOK
<1>2. shown[l] # None => NameOK(l)' /\ DealtOK(l)'
  BY NameStays, DealStays DEF Mute, ListOK, ShownOK
<1> QED BY <1>1, <1>2 DEF ListOK, ShownOK

LEMMA AnsweredTab ==
    ASSUME ListTypes, TabShows, Smooth, Smooth', NEW i \in 1 .. Len(listCalls), L!Answer(i),
           NEW l, l = listCalls[i].list
    PROVE  TabShows'
<1> DEFINE n == Len(listCalls)
<1>1. /\ n \in Nat /\ \A j \in 1 .. n : listCalls[j] \in CallType /\ Fit(listCalls[j])
      /\ AnswerFact(i) /\ None \notin L!Views /\ shown \in [List -> L!Views \cup {None}] /\ None \notin List
  BY ListFacts, AnswerDoes, ShopperAssumption DEF ListTypes, L!ListsAssumption
<1>2. /\ \A j \in 1 .. n : listCalls[j].tab /\ listCalls[j].at # "failed"
      /\ InLine /\ (\A j \in 1 .. n : RequestOK(j)) /\ \A m \in List : ListOK(m)
  BY DEF TabShows, Smooth, Mine
<1>3. i = 1 /\ 1 \in 1 .. n
  <2>1. \A j \in 1 .. n : ~(j < i)
    BY <1>1, <1>2 DEF AnswerFact
  <2>2. i \in Nat /\ 1 <= i /\ i <= n
    BY <1>1
  <2>3. 1 \in 1 .. n
    <3> HIDE DEF n
    <3> QED BY <1>1, <2>2
  <2> QED BY <2>1, <2>2, <2>3
<1>4. PICK c : c = listCalls[1]
  OBVIOUS
<1>5. /\ c \in CallType /\ Fit(c) /\ c.at = "answered" /\ c.list = l /\ l \in List /\ c.tab /\ row' = row
      /\ RequestOK(1) /\ ListOK(l)
  BY <1>1, <1>2, <1>3, <1>4 DEF AnswerFact, CallOver, Fit
<1>6. PICK g : g = listCalls'[n]
  OBVIOUS
<1>7. /\ Advanced
      /\ Len(listCalls') = n => L!FetchList(1) /\ g.at = "sent" /\ g.tab /\ g.list = l
                                /\ g.op = (IF c.op = "create" THEN "getNew" ELSE "get")
      /\ L!FetchList(1) => Len(listCalls') = n /\ shown' = shown
      /\ ~L!FetchList(1) => Len(listCalls') = n - 1
      /\ L!Ignored(1) \/ L!ShowList(1) \/ L!FetchList(1)
      /\ L!Ignored(1) => shown' = shown
      /\ L!ShowList(1) => shown' = L!Fetched(c)
      /\ L!Ignored(1) \/ L!ShowList(1) => Len(listCalls') = n - 1
  <2>1. ~L!RollBack(1)
    BY DEF Smooth, L!RollBack
  <2>2. Moved(1, 0) \in Int /\ \A j \in 1 .. n - 1 : Moved(1, j) = j + 1
    BY DEF Moved
  <2>3. \A j \in 1 .. n - 1 : listCalls'[j] = listCalls[j + 1]
    BY <1>1, <1>3, <2>2 DEF AnswerFact, GoneFact, AgainFact
  <2>4. /\ GoneFact(1) => Len(listCalls') = n - 1 /\ Len(listCalls') # n /\ Len(listCalls') \in Nat
        /\ AgainFact(1) => Len(listCalls') = n /\ Len(listCalls') # n - 1
    <3> DEFINE m == Len(listCalls')
    <3>1. n \in Nat /\ n - 1 \in Nat /\ n - 1 # n
      <4> HIDE DEF n
      <4> QED BY <1>1, <1>3
    <3>2. GoneFact(1) => m = n - 1
      BY DEF GoneFact
    <3>3. AgainFact(1) => m = n
      BY DEF AgainFact
    <3> HIDE DEF n, m
    <3>4. (GoneFact(1) => m = n - 1 /\ m # n /\ m \in Nat) /\ (AgainFact(1) => m = n /\ m # n - 1)
      BY <3>1, <3>2, <3>3
    <3> QED BY <3>4 DEF n, m
  <2>5. /\ \/ GoneFact(1) /\ L!Ignored(1) /\ shown' = shown
           \/ GoneFact(1) /\ L!ShowList(1) /\ shown' = L!Fetched(c)
           \/ AgainFact(1) /\ L!FetchList(1) /\ shown' = shown
    BY <1>1, <1>3, <1>4, <2>1 DEF AnswerFact
  <2>6. /\ L!FetchList(1) => c.op \in {"create", "replace", "add"}
        /\ L!ShowList(1) => c.op \in {"get", "getNew"}
        /\ L!Ignored(1) => c.op \in {"rename", "delete"}
    BY <1>4, <1>5 DEF L!FetchList, L!ShowList, L!Ignored
  <2>7. Advanced
    <3>1. \A j \in 1 .. n - 1 : j \in 1 .. Len(listCalls')
      <4> DEFINE m == Len(listCalls')
      <4>1. m \in {n - 1, n} /\ n \in Nat
        BY <1>1, <2>4, <2>5
      <4> HIDE DEF n, m
      <4>2. \A j \in 1 .. n - 1 : j \in 1 .. m
        BY <4>1
      <4> QED BY <4>2 DEF m
    <3> QED BY <1>1, <2>3, <2>4, <2>5, <3>1 DEF Advanced
  <2>8. AgainFact(1) => g.at = "sent" /\ g.tab /\ g.list = l /\ g.op = (IF c.op = "create" THEN "getNew" ELSE "get")
    BY <1>3, <1>4, <1>5, <1>6 DEF AgainFact
  <2>9. \/ GoneFact(1) /\ ~AgainFact(1) /\ L!Ignored(1) /\ ~L!ShowList(1) /\ ~L!FetchList(1) /\ shown' = shown
        \/ GoneFact(1) /\ ~AgainFact(1) /\ ~L!Ignored(1) /\ L!ShowList(1) /\ ~L!FetchList(1) /\ shown' = L!Fetched(c)
        \/ AgainFact(1) /\ ~GoneFact(1) /\ ~L!Ignored(1) /\ ~L!ShowList(1) /\ L!FetchList(1) /\ shown' = shown
    BY <2>4, <2>5, <2>6
  <2> HIDE DEF n
  <2> QED BY <2>4, <2>7, <2>8, <2>9
<1>8. /\ \A j \in 1 .. Len(listCalls') :
            \/ j \in 1 .. n - 1 /\ j + 1 \in 1 .. n /\ listCalls'[j] = listCalls[j + 1] /\ j + 1 # 1
            \/ j = n /\ Len(listCalls') = n /\ listCalls'[j] = g
  <2>1. \A j \in 1 .. n - 1 : j + 1 # 1
    <3> HIDE DEF n
    <3> QED BY <1>1
  <2> QED BY <1>6, <1>7, <2>1, AdvancedFacts
<1>9. /\ L!FetchList(1) => c.op \in {"create", "replace", "add"}
      /\ L!ShowList(1) => c.op \in {"get", "getNew"}
      /\ L!Ignored(1) => c.op \in {"rename", "delete"}
  BY <1>4, <1>5 DEF L!FetchList, L!ShowList, L!Ignored
\* A list that is founded by the first request has no other.
<1>10. New(c) => /\ shown[l] = None /\ row[l] # None /\ \A j \in 1 .. n - 1 : listCalls[j + 1].list # l
                 /\ c.op = "getNew" => c.name = row[l].name /\ c.cards = L!InPositions(row[l].entries)
  <2>1. \A j \in 1 .. n - 1 : j + 1 \in 1 .. n /\ j + 1 # 1
    <3> HIDE DEF n
    <3> QED BY <1>1
  <2> QED BY <1>4, <1>5, <2>1 DEF RequestOK, NewOK
\* Only list l may be shown otherwise, and only as it is shown or by its creation.
<1>11. /\ \A m \in List : m # l => shown'[m] = shown[m]
       /\ shown[l] = None /\ ~New(c) => shown'[l] = None
  <2>1. CASE shown' = shown
    BY <2>1
  <2>2. CASE L!ShowList(1)
    <3>1. CASE c.op = "getNew"
      <4>1. shown' = [shown EXCEPT ![l] = [name |-> c.name, cards |-> c.cards]]
        BY <1>5, <1>7, <2>2, <3>1 DEF L!Fetched
      <4> QED BY <1>1, <3>1, <4>1 DEF New
    <3>2. CASE c.op = "get" /\ shown[l] # None
      <4> DEFINE v == [shown[l] EXCEPT !.cards = c.cards]
      <4>1. shown' = [shown EXCEPT ![l] = v]
        BY <1>5, <1>7, <2>2, <3>2 DEF L!Fetched
      <4> HIDE DEF v
      <4> QED BY <1>1, <3>2, <4>1
    <3>3. CASE c.op = "get" /\ shown[l] = None
      BY <1>5, <1>7, <2>2, <3>3 DEF L!Fetched
    <3> QED BY <1>9, <2>2, <3>1, <3>2, <3>3
  <2> QED BY <1>7, <2>1, <2>2
<1>12. Mine'
  <2> SUFFICES ASSUME NEW j \in 1 .. Len(listCalls') PROVE listCalls'[j].tab
    BY DEF Mine
  <2> QED BY <1>2, <1>7, <1>8
<1>13. InLine'
  <2> SUFFICES ASSUME NEW j \in 1 .. Len(listCalls'), NEW k \in 1 .. Len(listCalls'), k < j, listCalls'[j].at # "sent"
               PROVE  listCalls'[k].at = "answered"
    BY DEF InLine
  <2>1. j \in 1 .. n - 1 /\ j + 1 \in 1 .. n /\ listCalls'[j] = listCalls[j + 1]
    BY <1>7, <1>8
  <2>2. k \in 1 .. n - 1 /\ k + 1 \in 1 .. n /\ listCalls'[k] = listCalls[k + 1]
    <3>1. k # n
      <4> HIDE DEF n
      <4> QED BY <1>1, <2>1
    <3> QED BY <1>8, <3>1
  <2>3. k + 1 < j + 1
    <3> HIDE DEF n
    <3> QED BY <1>1, <2>1, <2>2
  <2> QED BY <1>2, <2>1, <2>2, <2>3 DEF InLine
<1>14. ASSUME NEW j \in 1 .. Len(listCalls'), j \in 1 .. n - 1, j + 1 \in 1 .. n, listCalls'[j] = listCalls[j + 1]
       PROVE  RequestOK(j)'
  <2>1. PICK d : d = listCalls[j + 1]
    OBVIOUS
  <2>2. listCalls'[j] = d /\ RequestOK(j + 1) /\ Fit(d) /\ (New(c) => d.list # l) /\ d.at # "failed"
    BY <1>1, <1>2, <1>10, <1>14, <2>1
  <2>3. d.op = "delete" => shown'[d.list] = None
    <3>1. d.op = "delete" => shown[d.list] = None /\ d.list \in List
      BY <2>1, <2>2 DEF RequestOK, Fit
    <3> QED BY <1>11, <2>2, <3>1
  <2>4. NewOK(j)'
    <3> SUFFICES ASSUME New(d) PROVE NewOK(j)'
      BY <2>2 DEF NewOK
    <3>1. /\ shown[d.list] = None /\ row[d.list] # None /\ d.list \in List
          /\ \A k \in 1 .. n : listCalls[k].list = d.list => k = j + 1
          /\ d.op = "getNew" /\ d.at = "answered" =>
                d.name = row[d.list].name /\ d.cards = L!InPositions(row[d.list].entries)
      BY <2>1, <2>2 DEF RequestOK, NewOK, Fit, New
    <3>2. d.list # l
      <4>1. j + 1 # 1
        <5> HIDE DEF n
        <5> QED BY <1>1, <1>14
      <4> QED BY <1>3, <1>4, <1>5, <3>1, <4>1
    <3>3. ASSUME NEW k \in 1 .. Len(listCalls'), listCalls'[k].list = d.list PROVE k = j
      <4>1. k \in 1 .. n - 1 /\ k + 1 \in 1 .. n /\ listCalls'[k] = listCalls[k + 1]
        BY <1>7, <1>8, <3>2, <3>3
      <4>2. k + 1 = j + 1
        BY <3>1, <3>3, <4>1
      <4> HIDE DEF n
      <4> QED BY <1>1, <1>14, <4>1, <4>2
    <3>4. shown'[d.list] = None
      BY <1>11, <3>1, <3>2
    <3> QED BY <1>5, <2>2, <3>1, <3>3, <3>4 DEF NewOK
  <2> QED BY <1>5, <2>1, <2>2, <2>3, <2>4 DEF RequestOK
<1>15. ASSUME NEW j \in 1 .. Len(listCalls'), j = n, Len(listCalls') = n, listCalls'[j] = g
       PROVE  RequestOK(j)'
  <2>1. /\ L!FetchList(1) /\ g.at = "sent" /\ g.list = l /\ g.op = (IF c.op = "create" THEN "getNew" ELSE "get")
        /\ c.op \in {"create", "replace", "add"} /\ shown' = shown
    BY <1>7, <1>9, <1>15
  <2>2. NewOK(j)'
    <3> SUFFICES ASSUME New(g) PROVE NewOK(j)'
      BY <1>15 DEF NewOK
    <3>1. New(c)
      BY <1>5, <2>1 DEF New
    <3>2. ASSUME NEW k \in 1 .. Len(listCalls'), listCalls'[k].list = l PROVE k = j
      BY <1>8, <1>10, <1>15, <3>1, <3>2
    <3> QED BY <1>5, <1>10, <1>15, <2>1, <3>1, <3>2 DEF NewOK
  <2> QED BY <1>15, <2>1, <2>2 DEF RequestOK
<1>16. \A j \in 1 .. Len(listCalls') : RequestOK(j)'
  BY <1>8, <1>14, <1>15
<1>17. ASSUME NEW m \in List, m # l PROVE ListOK(m)'
  <2>1. Mute(c, m) /\ (Len(listCalls') = n => Mute(g, m))
    BY <1>5, <1>7, <1>17 DEF Mute, Founding, Removing, Naming, Dealing
  <2>2. shown'[m] = shown[m] /\ row'[m] = row[m] /\ ListOK(m)
    BY <1>2, <1>5, <1>11, <1>17
  <2> QED BY <1>4, <1>6, <1>7, <2>1, <2>2, ElsewhereGone
<1>18. ListOK(l)'
  <2>1. CASE L!Ignored(1)
    <3>1. Mute(c, l) /\ Len(listCalls') # n
      <4>1. n - 1 # n
        <5> HIDE DEF n
        <5> QED BY <1>1
      <4> QED BY <1>5, <1>7, <1>9, <2>1, <4>1 DEF Mute, Founding, New, Removing, Naming, Dealing
    <3>2. shown'[l] = shown[l] /\ row'[l] = row[l]
      BY <1>5, <1>7, <2>1
    <3> QED BY <1>4, <1>5, <1>7, <3>1, <3>2, ElsewhereGone
  <2>2. CASE L!FetchList(1) /\ c.op = "create"
    <3>1. Founding(g, l) /\ n \in 1 .. Len(listCalls') /\ listCalls'[n] = g /\ shown'[l] = None
      <4>1. New(c) /\ New(g) /\ g.list = l /\ Len(listCalls') = n /\ shown' = shown
        BY <1>5, <1>7, <2>2 DEF New
      <4>2. n \in 1 .. n
        BY <1>1, <1>3
      <4> QED BY <1>6, <1>10, <4>1, <4>2 DEF Founding
    <3> QED BY <1>5, <3>1 DEF ListOK, HiddenOK, ShownOK
  <2>3. CASE L!FetchList(1) /\ c.op \in {"replace", "add"}
    <3>1. /\ Dealing(c, l) /\ ~Founding(c, l) /\ ~Removing(c, l) /\ ~Naming(c, l) /\ Dealing(g, l) /\ ~Naming(g, l)
          /\ Len(listCalls') = n /\ shown' = shown /\ n \in 1 .. Len(listCalls') /\ listCalls'[n] = g
      <4>1. Len(listCalls') = n /\ shown' = shown /\ g.list = l /\ g.op = "get"
        BY <1>7, <2>3
      <4>2. n \in 1 .. n
        BY <1>1, <1>3
      <4> QED BY <1>5, <1>6, <2>3, <4>1, <4>2 DEF Dealing, Founding, New, Removing, Naming
    <3>2. HiddenOK(l)'
      BY <1>4, <1>5, <1>7, <3>1, HiddenStays DEF ListOK
    <3>3. shown[l] # None => NameOK(l)'
      BY <1>4, <1>5, <1>6, <1>7, <3>1, NameStays DEF ListOK, ShownOK
    <3>4. ASSUME NEW j, LastDealing(listCalls', j, l) PROVE listCalls'[j].at = "sent"
      <4>1. j \in 1 .. Len(listCalls') /\ \A k \in 1 .. Len(listCalls') : j < k => ~Dealing(listCalls'[k], l)
        BY <3>4 DEF LastDealing
      <4>2. ~(j < n)
        BY <3>1, <4>1
      <4>3. j = n
        <5>1. j \in 1 .. n
          BY <3>1, <4>1
        <5> HIDE DEF n
        <5> QED BY <1>1, <4>2, <5>1
      <4> QED BY <1>7, <3>1, <4>3
    <3>5. DealtOK(l)'
      BY <3>1, <3>4 DEF DealtOK
    <3> QED BY <1>5, <3>1, <3>2, <3>3, <3>5 DEF ListOK, ShownOK
  <2>4. CASE L!ShowList(1) /\ c.op = "get"
    <3>1. /\ Dealing(c, l) /\ ~Founding(c, l) /\ ~Removing(c, l) /\ ~Naming(c, l)
          /\ Len(listCalls') = n - 1 /\ Len(listCalls') # n
      <4>1. n - 1 # n
        <5> HIDE DEF n
        <5> QED BY <1>1
      <4> QED BY <1>5, <1>7, <2>4, <4>1 DEF Dealing, Founding, New, Removing, Naming
    <3>2. CASE shown[l] = None
      <4>1. shown'[l] = shown[l] /\ row'[l] = row[l]
        BY <1>5, <1>11, <2>4, <3>2 DEF New
      <4>2. HiddenOK(l)'
        BY <1>4, <1>5, <1>7, <3>1, <4>1, HiddenStays DEF ListOK
      <4> QED BY <1>5, <3>2, <4>1, <4>2 DEF ListOK, ShownOK
    <3>3. CASE shown[l] # None
      <4> DEFINE v == [shown[l] EXCEPT !.cards = c.cards]
      <4>1. shown' = [shown EXCEPT ![l] = v] /\ shown[l] \in L!Views
        BY <1>1, <1>5, <1>7, <2>4, <3>3 DEF L!Fetched
      <4>2. v \in L!Views /\ v.name = shown[l].name /\ v.cards = c.cards
        BY <1>5, <4>1 DEF L!Views, CallType
      <4> HIDE DEF v
      <4>3. shown'[l] = v /\ shown'[l] # None /\ row'[l] = row[l]
        BY <1>1, <1>5, <4>1, <4>2
      <4>4. NameOK(l)'
        BY <1>4, <1>5, <1>6, <1>7, <3>1, <3>3, <4>2, <4>3, NameStays DEF ListOK, ShownOK
      <4>5. ASSUME \A j \in 1 .. Len(listCalls') : ~Dealing(listCalls'[j], l)
            PROVE  c.cards = L!InPositions(row[l].entries)
        <5>1. ASSUME NEW k \in 1 .. n, 1 < k PROVE ~Dealing(listCalls[k], l)
          <6>1. k # 1
            BY <5>1
          <6> QED BY <1>7, <4>5, <6>1, AdvancedFacts
        <5>2. LastDealing(listCalls, 1, l)
          BY <1>3, <1>4, <3>1, <5>1 DEF LastDealing
        <5> QED BY <1>4, <1>5, <2>4, <3>3, <5>2 DEF ListOK, ShownOK, DealtOK
      <4>6. ASSUME NEW j, LastDealing(listCalls', j, l)
            PROVE  LastDealing(listCalls, j + 1, l) /\ listCalls'[j] = listCalls[j + 1]
        <5>1. j \in 1 .. n - 1
          BY <1>8, <3>1, <4>6 DEF LastDealing
        <5> QED BY <1>7, <4>6, <5>1, LastStays
      <4>7. DealtOK(l) /\ HiddenOK(l) /\ row[l] # None /\ row[l].expired = FALSE
        BY <1>5, <3>3 DEF ListOK, ShownOK
      <4>8. DealtOK(l)'
        BY <4>2, <4>3, <4>5, <4>6, <4>7 DEF DealtOK
      <4> QED BY <4>3, <4>4, <4>7, <4>8 DEF ListOK, HiddenOK, ShownOK
    <3> QED BY <3>2, <3>3
  <2>5. CASE L!ShowList(1) /\ c.op = "getNew"
    <3> DEFINE v == [name |-> c.name, cards |-> c.cards]
    <3>1. shown' = [shown EXCEPT ![l] = v]
      BY <1>5, <1>7, <2>5 DEF L!Fetched
    <3>2. v \in L!Views /\ v.name = c.name /\ v.cards = c.cards
      BY <1>5, <2>5 DEF L!Views, CallType, Fit
    <3> HIDE DEF v
    <3>3. shown'[l] = v /\ shown'[l] # None /\ row'[l] = row[l]
      BY <1>1, <1>5, <3>1, <3>2
    <3>4. New(c) /\ row[l] # None /\ v.name = row[l].name /\ v.cards = L!InPositions(row[l].entries)
      BY <1>10, <2>5, <3>2 DEF New
    <3>5. \A j \in 1 .. Len(listCalls') : listCalls'[j].list # l
      <4>1. Len(listCalls') = n - 1 /\ n - 1 # n
        <5>1. n - 1 # n
          <6> HIDE DEF n
          <6> QED BY <1>1
        <5> QED BY <1>7, <2>5, <5>1
      <4> QED BY <1>8, <1>10, <3>4, <4>1
    <3>6. NameOK(l)' /\ DealtOK(l)'
      BY <3>3, <3>4, <3>5 DEF NameOK, DealtOK, Naming, Dealing, LastNaming, LastDealing
    <3> QED BY <1>5, <3>3, <3>4, <3>6 DEF ListOK, HiddenOK, ShownOK
  <2> QED BY <1>7, <1>9, <2>1, <2>2, <2>3, <2>4, <2>5
<1>19. \A m \in List : ListOK(m)'
  BY <1>17, <1>18
<1> QED BY <1>12, <1>13, <1>16, <1>19 DEF TabShows

\* The request of an answer that is no failure, and so all that is smooth after it.
LEMMA SmoothBefore ==
    ASSUME ListTypes, Mine, [L!Next]_(L!vars), Smooth', ~(\E l \in List : L!Expire(l))
    PROVE  Smooth
<1>1. L!Indices = 1 .. Len(listCalls) /\ Len(listCalls) \in Nat /\ listCalls \in Seq(GoodCalls)
  BY ListFacts
<1>2. ~listsBroken' /\ ~disturbed' /\ \A j \in 1 .. Len(listCalls') : listCalls'[j].at # "failed"
  BY DEF Smooth
<1>3. CASE L!Tab \/ L!Other
  <2>1. PICK c \in GoodCalls : SendFact(c)
    BY <1>3, SendDoes
  <2>2. listCalls' = Append(listCalls, c) /\ listsBroken' = listsBroken /\ disturbed' = disturbed
    BY <1>2, <2>1 DEF SendFact
  <2>3. \A j \in 1 .. Len(listCalls) : j \in 1 .. Len(listCalls') /\ listCalls'[j] = listCalls[j]
    BY <1>1, <2>2, AppendFacts
  <2> QED BY <1>2, <2>2, <2>3 DEF Smooth
<1>4. ASSUME NEW i \in 1 .. Len(listCalls), L!Serve(i) PROVE Smooth
  <2>1. Becomes(i, listCalls'[i]) /\ ~CallOver(listCalls[i]) /\ listsBroken' = listsBroken /\ disturbed' = disturbed
    BY <1>4, ServedOne
  <2>2. \A j \in 1 .. Len(listCalls) : listCalls[j].at # "failed"
    <3> TAKE j \in 1 .. Len(listCalls)
    <3>1. j # i => listCalls'[j] = listCalls[j] /\ j \in 1 .. Len(listCalls')
      BY <2>1 DEF Becomes
    <3>2. listCalls[i].at # "failed"
      BY <2>1 DEF CallOver
    <3> QED BY <1>2, <3>1, <3>2
  <2> QED BY <1>2, <2>1, <2>2 DEF Smooth
<1>5. ASSUME NEW i \in 1 .. Len(listCalls), L!Answer(i) PROVE Smooth
  <2>1. AnswerFact(i) /\ listCalls[i].tab
    BY <1>5, AnswerDoes DEF Mine
  <2>2. ~L!RollBack(i)
    BY <1>2 DEF L!RollBack
  <2>3. listsBroken' = listsBroken /\ disturbed' = disturbed
    BY <2>1, <2>2 DEF AnswerFact
  <2>4. listCalls[i].at # "failed"
    BY <2>1, <2>2 DEF AnswerFact, L!Ignored, L!ShowList, L!FetchList
  <2>5. ASSUME NEW k \in 1 .. Len(listCalls), k # i PROVE listCalls[k].at # "failed"
    <3>1. PICK j \in 1 .. Len(listCalls) - 1 : Moved(i, j) = k
      BY <1>1, <2>5, MovedFacts
    <3>2. /\ Len(listCalls') \in {Len(listCalls) - 1, Len(listCalls)}
          /\ \A m \in 1 .. Len(listCalls) - 1 : listCalls'[m] = listCalls[Moved(i, m)]
      BY <2>1 DEF AnswerFact, GoneFact, AgainFact
    <3>3. j \in 1 .. Len(listCalls')
      BY <1>1, <3>2
    <3> QED BY <1>2, <3>1, <3>2, <3>3
  <2> QED BY <1>2, <2>3, <2>4, <2>5 DEF Smooth
<1>6. ASSUME NEW i \in 1 .. Len(listCalls), L!Break(i) PROVE Smooth
  BY <1>2, <1>6 DEF L!Break
<1>7. CASE L!CooldownEnds
  BY <1>2, <1>7 DEF L!CooldownEnds, Smooth
<1>8. CASE UNCHANGED L!vars
  BY <1>2, <1>8 DEF L!vars, Smooth
<1> QED BY <1>1, <1>3, <1>4, <1>5, <1>6, <1>7, <1>8 DEF L!Next

LEMMA MineNext ==
    ASSUME ListTypes, [L!Next]_(L!vars), ~disturbed => Mine, ~disturbed'
    PROVE  Mine /\ Mine'
<1>1. L!Indices = 1 .. Len(listCalls) /\ Len(listCalls) \in Nat /\ listCalls \in Seq(GoodCalls)
  BY ListFacts
<1>2. CASE L!Tab \/ L!Other
  <2>1. PICK c \in GoodCalls : SendFact(c)
    BY <1>2, SendDoes
  <2>2. listCalls' = Append(listCalls, c) /\ disturbed' = disturbed /\ c.tab
    BY <2>1 DEF SendFact
  <2>3. /\ Len(listCalls') = Len(listCalls) + 1 /\ listCalls'[Len(listCalls) + 1] = c
        /\ \A j \in 1 .. Len(listCalls) : listCalls'[j] = listCalls[j]
        /\ \A j \in 1 .. Len(listCalls) + 1 : j \in 1 .. Len(listCalls) \/ j = Len(listCalls) + 1
    BY <1>1, <2>2, AppendFacts
  <2> QED BY <2>2, <2>3 DEF Mine
<1>3. ASSUME NEW i \in 1 .. Len(listCalls), L!Serve(i) PROVE Mine /\ Mine'
  <2>1. Becomes(i, listCalls'[i]) /\ disturbed' = disturbed /\ listCalls'[i].tab = listCalls[i].tab
    BY <1>3, ServedOne
  <2> QED BY <2>1 DEF Mine, Becomes
<1>4. ASSUME NEW i \in 1 .. Len(listCalls), L!Answer(i) PROVE Mine /\ Mine'
  <2>1. AnswerFact(i)
    BY <1>4, AnswerDoes
  <2>2. disturbed' = disturbed /\ Mine
    BY <2>1 DEF AnswerFact
  <2>3. ASSUME NEW j \in 1 .. Len(listCalls') PROVE listCalls'[j].tab
    <3>1. CASE j = Len(listCalls) /\ AgainFact(i)
      BY <2>2, <3>1 DEF AgainFact, Mine
    <3>2. CASE ~(j = Len(listCalls) /\ AgainFact(i))
      <4>1. Moved(i, j) \in 1 .. Len(listCalls) /\ listCalls'[j] = listCalls[Moved(i, j)]
        BY <2>1, <3>2, CameFrom
      <4> QED BY <2>2, <4>1 DEF Mine
    <3> QED BY <3>1, <3>2
  <2> QED BY <2>2, <2>3 DEF Mine
<1>5. ASSUME NEW i \in 1 .. Len(listCalls), L!Break(i) PROVE Mine /\ Mine'
  <2>1. Becomes(i, listCalls'[i]) /\ disturbed' = disturbed /\ listCalls'[i].tab = listCalls[i].tab
    BY <1>5, BreakDoes DEF SameBut
  <2> QED BY <2>1 DEF Mine, Becomes
<1>6. ASSUME NEW l \in List, L!Expire(l) PROVE FALSE
  BY <1>6 DEF L!Expire
<1>7. CASE L!CooldownEnds
  BY <1>7 DEF L!CooldownEnds, Mine
<1>8. CASE UNCHANGED L!vars
  BY <1>8 DEF L!vars, Mine
<1> QED BY <1>1, <1>2, <1>3, <1>4, <1>5, <1>6, <1>7, <1>8 DEF L!Next

LEMMA TabNext == ListTypes /\ TabShows /\ [L!Next]_(L!vars) => TabShows'
<1> SUFFICES ASSUME ListTypes, TabShows, [L!Next]_(L!vars) PROVE TabShows'
  OBVIOUS
<1>1. CASE ~Smooth'
  BY <1>1, MineNext DEF TabShows
<1>2. CASE Smooth'
  <2>1. ~disturbed' /\ ~listsBroken'
    BY <1>2 DEF Smooth
  <2>2. Mine /\ Mine'
    BY <2>1, MineNext DEF TabShows
  <2>3. ~(\E l \in List : L!Expire(l))
    BY <2>1 DEF L!Expire
  <2>4. Smooth
    BY <1>2, <2>2, <2>3, SmoothBefore
  <2>5. CASE L!Tab \/ L!Other
    BY <1>2, <2>4, <2>5, SendDoes, SentTab
  <2>6. ASSUME NEW i \in 1 .. Len(listCalls), L!Serve(i) PROVE TabShows'
    BY <1>2, <2>4, <2>6, ServedTab
  <2>7. ASSUME NEW i \in 1 .. Len(listCalls), L!Answer(i) PROVE TabShows'
    BY <1>2, <2>4, <2>7, AnsweredTab
  <2>8. ASSUME NEW i \in 1 .. Len(listCalls), L!Break(i) PROVE FALSE
    BY <2>1, <2>8 DEF L!Break
  <2>9. ASSUME UNCHANGED <<row, shown, listCalls, listsBroken, disturbed>> PROVE TabShows'
    <3>1. row' = row /\ shown' = shown /\ listCalls' = listCalls
      BY <2>9
    <3>2. InLine /\ (\A j \in 1 .. Len(listCalls) : RequestOK(j)) /\ \A l \in List : ListOK(l)
      BY <2>4 DEF TabShows
    <3>3. InLine'
      BY <3>1, <3>2 DEF InLine
    <3>4. \A j \in 1 .. Len(listCalls') : RequestOK(j)'
      BY <3>1, <3>2 DEF RequestOK, NewOK
    <3>5. \A l \in List : ListOK(l)'
      BY <3>1, <3>2 DEF ListOK, HiddenOK, ShownOK, NameOK, DealtOK
    <3> QED BY <2>2, <3>3, <3>4, <3>5 DEF TabShows
  <2>10. CASE L!CooldownEnds
    BY <2>9, <2>10 DEF L!CooldownEnds
  <2>11. CASE UNCHANGED L!vars
    BY <2>9, <2>11 DEF L!vars
  <2>12. L!Indices = 1 .. Len(listCalls)
    BY ListFacts
  <2> QED BY <2>3, <2>5, <2>6, <2>7, <2>8, <2>10, <2>11, <2>12 DEF L!Next
<1> QED BY <1>1, <1>2

\* Cards that stand at the first positions are read as they are.
LEMMA InPositionsOfCards ==
    ASSUME NEW s \in L!Cards
    PROVE  L!InPositions(s) = s
<1> DEFINE n == Len(s)
           D == DOMAIN s
<1>1. n \in Nat /\ D = 1 .. n /\ s \in Seq(Card) /\ s = [i \in 1 .. n |-> s[i]]
  BY CardsFacts
<1>2. Cardinality(D) = n
  <2> HIDE DEF n, D
  <2>1. 1 \in Int /\ n \in Int
    BY <1>1
  <2>2. Cardinality(1 .. n) = IF 1 > n THEN 0 ELSE n - 1 + 1
    BY <2>1, FS_Interval
  <2> QED BY <1>1, <2>2
<1>3. ASSUME NEW p \in 1 .. n PROVE L!Rank(p, D) = p
  <2>1. {q \in D : q <= p} = 1 .. p
    BY <1>1
  <2>2. Cardinality(1 .. p) = p
    BY FS_Interval
  <2> QED BY <2>1, <2>2, ListSets DEF L!Rank
<1>4. \A i \in 1 .. n : (CHOOSE p \in D : L!Rank(p, D) = i) = i
  BY <1>1, <1>3
<1>5. L!InPositions(s) = [i \in 1 .. n |-> s[CHOOSE p \in D : L!Rank(p, D) = i]]
  BY <1>2, ListSets DEF L!InPositions
<1> HIDE DEF n, D
<1> QED BY <1>1, <1>4, <1>5

\* What a tab shows before the server has done anything is what the server has in
\* the end: when the tab is the only client and nothing failed, the stored lists
\* are those it shows once its requests are answered, whatever it renamed, changed,
\* created and deleted meanwhile (ListsContext and the lists service).
THEOREM TabShowsTheStored == L!Spec => []ShownIsStored
<1>1. L!Init => TabShows
  <2> SUFFICES ASSUME L!Init PROVE TabShows
    OBVIOUS
  <2>1. listCalls = <<>> /\ Len(listCalls) = 0 /\ \A j \in 1 .. 0 : FALSE
    BY DEF L!Init
  <2>2. Mine /\ InLine /\ \A j \in 1 .. Len(listCalls) : RequestOK(j)
    BY <2>1 DEF Mine, InLine
  <2>3. ASSUME NEW l \in List PROVE ListOK(l)
    <3>1. shown[l] = StoredLists[l]
      BY DEF L!Init
    <3>2. CASE StoredLists[l] = None
      <4>1. row[l] = None
        BY <3>2 DEF L!Init
      <4> QED BY <3>1, <3>2, <4>1 DEF ListOK, HiddenOK, ShownOK
    <3>3. CASE StoredLists[l] # None
      <4>1. row[l] = [name |-> StoredLists[l].name, entries |-> StoredLists[l].cards, expired |-> FALSE]
        BY <3>3 DEF L!Init
      <4>2. StoredLists[l].cards \in L!Cards /\ StoredLists[l].name \in Name
        BY <3>3, ShopperAssumption DEF L!ListsAssumption, L!Views
      <4>3. row[l] \in L!Rows /\ None \notin L!Rows
        BY <4>1, <4>2, CardsFacts, ShopperAssumption DEF L!Rows, L!ListsAssumption
      <4>4. L!InPositions(row[l].entries) = shown[l].cards /\ row[l].name = shown[l].name /\ row[l].expired = FALSE
        BY <3>1, <4>1, <4>2, InPositionsOfCards
      <4>5. NameOK(l) /\ DealtOK(l)
        BY <2>1, <4>4 DEF NameOK, DealtOK, LastNaming, LastDealing
      <4> QED BY <3>1, <3>3, <4>3, <4>4, <4>5 DEF ListOK, HiddenOK, ShownOK
    <3> QED BY <3>2, <3>3
  <2> QED BY <2>2, <2>3 DEF TabShows
<1>2. ListTypes /\ TabShows => ShownIsStored
  <2> SUFFICES ASSUME ListTypes, TabShows, L!Quiet, ~listsBroken, ~disturbed, NEW l \in List
               PROVE  IF row[l] = None THEN shown[l] = None
                      ELSE shown[l] = [name |-> row[l].name, cards |-> L!InPositions(row[l].entries)]
    BY DEF ShownIsStored, L!ShownIsStored
  <2>1. listCalls = <<>> /\ Len(listCalls) = 0 /\ \A j \in 1 .. 0 : FALSE
    BY DEF L!Quiet
  <2>2. ListOK(l)
    BY <2>1 DEF TabShows, Smooth
  <2>3. row[l] # None => shown[l] # None
    BY <2>1, <2>2 DEF ListOK, HiddenOK
  <2>4. shown[l] # None => /\ row[l] # None /\ row[l].name = shown[l].name
                           /\ shown[l].cards = L!InPositions(row[l].entries)
    BY <2>1, <2>2 DEF ListOK, ShownOK, NameOK, DealtOK
  <2>5. shown[l] # None => shown[l] = [name |-> shown[l].name, cards |-> shown[l].cards]
    BY DEF ListTypes, L!Views
  <2> QED BY <2>3, <2>4, <2>5
<1> QED BY <1>1, <1>2, ListsInit, ListsNext, TabNext, PTL DEF L!Spec

-----------------------------------------------------------------------------
(* Shopper: the parts side by side.                                         *)

\* Whichever part a behaviour of Shopper is of, each of the four behaves as its own
\* specification says: its steps are its own or leave it alone.
LEMMA PartsStep ==
    ASSUME [ShopperNext]_shopperVars
    PROVE  [C!Next]_(C!vars) /\ [L!Next]_(L!vars) /\ [O!Next]_(O!vars) /\ [Next]_vars
<1>1. UNCHANGED cartsVars => UNCHANGED C!vars
  BY DEF cartsVars, C!vars
<1>2. UNCHANGED listVars => UNCHANGED L!vars
  BY DEF listVars, L!vars
<1>3. UNCHANGED optimizerVars => UNCHANGED O!vars
  BY DEF optimizerVars, O!vars
<1>4. UNCHANGED shopperVars => UNCHANGED <<cartsVars, listVars, optimizerVars, vars>>
  BY DEF shopperVars
<1> QED BY <1>1, <1>2, <1>3, <1>4 DEF ShopperNext

\* The cart, the lists, the optimizer and the filling of the cart keep out of each
\* other's way: what is proved of one of them alone holds of it in Shopper.
THEOREM PartsIndependent == ShopperSpec => C!Spec /\ L!Spec /\ O!Spec /\ Spec
<1>1. ShopperInit => C!Init /\ L!Init /\ O!Init /\ Init
  BY DEF ShopperInit
<1> QED BY <1>1, PartsStep, PTL DEF ShopperSpec, C!Spec, L!Spec, O!Spec, Spec

LEMMA CartsTyped == C!Spec => []C!TypeOK
BY CartsInit, CartsNext, CartsTypes, PTL DEF C!Spec

LEMMA ListsWellTyped == L!Spec => []L!TypeOK
BY ListsInit, ListsNext, ListsTyped, PTL DEF L!Spec

LEMMA OptimizerWellTyped == O!Spec => []O!TypeOK
BY OptimizerInvariant, OptimizerTyped, PTL

\* Rows, requests, answers, keys and jobs of a shopper are well formed, and the positions
\* of a list's cards lie within its length (CartService, CardListsService,
\* CardOptimizationService).
THEOREM ShopperTypesHold == ShopperSpec => []ShopperTypeOK
<1>1. C!TypeOK /\ L!TypeOK /\ O!TypeOK => ShopperTypeOK
  BY DEF ShopperTypeOK
<1> QED BY <1>1, PartsIndependent, CartsTyped, ListsWellTyped, OptimizerWellTyped, PTL

\* All that is proved of the parts, of a shopper who has all of them.
THEOREM ShopperIsSafe ==
    ShopperSpec =>
        /\ [](QuietAgreement /\ LinksMatchCart) /\ SparedCartsKept
        /\ [](NeverEmptied /\ LimitHeldAlone /\ ShownIsStored /\ RefreshedOnce)
        /\ [](NoBetterCart /\ MissingUnavailable)
        /\ [](FillAddsMissing /\ DeliveryMatchesFill /\ LockHasOwner)
BY PartsIndependent, CartSettles, LinksLeadToTheCart, SparedSurvive, EditsNeverEmpty,
   OneListTooMany, TabShowsTheStored, OneRefreshAtATime, OptimizerIsOptimal,
   MissingIsUnavailable, FillsBringMissing, DeliveryIsTheFills, LockIsOwned, PTL
=============================================================================
