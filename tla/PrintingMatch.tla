---------------------------- MODULE PrintingMatch ----------------------------
(***************************************************************************)
(* Which printing a shop's product is: PrintingMatcherService.match, then, *)
(* if it has no answer, TokenMatcherService.match (processExtracted-       *)
(* Variants), each with what it has cached of earlier products.            *)
(*                                                                         *)
(* A title is a normalized one, and what it is similar to is given; so is  *)
(* what a set name means.  A collector number is a sequence of characters. *)
(* Catalogue changes, the flush of the caches and matches that overlap are *)
(* in CatalogueSync; here the catalogue stands still.                      *)
(***************************************************************************)
EXTENDS Naturals, Sequences, FiniteSets

CONSTANTS
    Printing,   \* Printing[p]: [of, set, number], by the ID of the row
    Token,      \* the names that are tokens; all others are cards
    Title, Exact, FrontFace, Similar,  \* names a title means, or None
    SetName, Named, Containing,        \* sets a set name means, or None
    TokenSimilar,                      \* the token name similar to a title
    Product,    \* what a shop may say: [title, code, setName, number]
    Catalogue,  \* the sets of IDs that may be in the tables
    MaxMatches, \* bound: products matched one after the other
    None

VARIABLES
    rows,       \* IDs of the printings in the catalogue
    cards,      \* the printing matcher's caches: names, numbers, sets
    tokens,     \* the token matcher's
    product, filed,  \* the last product, and what it was taken for
    matches

vars == <<rows, cards, tokens, product, filed, matches>>

\* IDs are numbers; every printing has a set and a number, and every product a title.
MatchAssumption ==
    /\ DOMAIN Printing \subseteq Nat /\ None \notin Nat
    /\ \A p \in DOMAIN Printing : Printing[p].set # None /\ Printing[p].number # None
    /\ Catalogue \subseteq SUBSET DOMAIN Printing /\ MaxMatches \in Nat
    /\ \A x \in Product : x.title \in Title /\ x.setName \in SetName \cup {None}

-----------------------------------------------------------------------------
(* What the tables say. *)

\* Leading zeros are stripped, but a number of zeros only is 0.
Stripped(n) ==
    IF n = None THEN None
    ELSE LET kept == {k \in DOMAIN n : \E j \in 1 .. k : n[j] # 0}
         IN IF kept = {} THEN <<0>> ELSE SubSeq(n, Len(n) - Cardinality(kept) + 1, Len(n))

\* The sets and numbers that are looked up.
Sets == {x.code : x \in Product} \cup {f[n] : n \in SetName, f \in {Named, Containing}}
Numbers == {Stripped(x.number) : x \in Product}

RowsOf(name) == {p \in rows : Printing[p].of = name}
First(S) == IF S = {} THEN None ELSE CHOOSE p \in S : \A q \in S : p <= q

\* sets have unique collector numbers, tokens and cards apart.
RowAt(kind, s, n) ==
    First({p \in rows : Printing[p].set = s /\ Printing[p].number = n /\ Printing[p].of \in kind})

AnyCard == {Printing[p].of : p \in DOMAIN Printing} \ Token

CardName(t) ==
    CASE Exact[t] # None -> [name |-> Exact[t], how |-> "exact"]
      [] Exact[t] = None /\ FrontFace[t] # None -> [name |-> FrontFace[t], how |-> "frontface"]
      [] Exact[t] = None /\ FrontFace[t] = None /\ Similar[t] # None ->
            [name |-> Similar[t], how |-> "fuzzy"]
      [] OTHER -> [name |-> None, how |-> "none"]

TokenName(t) ==
    IF t \in Token THEN [name |-> t, how |-> "exact"]
    ELSE [name |-> TokenSimilar[t], how |-> IF TokenSimilar[t] = None THEN "none" ELSE "fuzzy"]

SetCalled(n) ==
    CASE Named[n] # None -> [code |-> Named[n], how |-> "name_exact"]
      [] Named[n] = None /\ Containing[n] # None -> [code |-> Containing[n], how |-> "name_fuzzy"]
      [] OTHER -> [code |-> None, how |-> "none"]

-----------------------------------------------------------------------------
(* The caches. *)

Cold == [names |-> [t \in Title |-> None],
         numbers |-> [key \in Sets \X Numbers |-> None],
         sets |-> [n \in SetName |-> None]]

\* doWarmCaches: all card names and set names, under their own.
Warm == [Cold EXCEPT
           !.names = [t \in Title |-> IF Exact[t] # None THEN CardName(t) ELSE None],
           !.sets = [n \in SetName |-> IF Named[n] # None THEN SetCalled(n) ELSE None]]

Through(cached, asked) == IF cached # None THEN cached ELSE asked

Key(s, n) == <<s, n>>

\* The set of a product: its code, or what its set's name means.
SetOf(c, x) ==
    CASE x.code # None -> [code |-> x.code, how |-> "code_provided"]
      [] x.code = None /\ x.setName # None -> Through(c.sets[x.setName], SetCalled(x.setName))
      [] OTHER -> [code |-> None, how |-> "none"]

\* findBySetAndNumber
Found(c, kind, s, n) == Through(c.numbers[Key(s, n)], RowAt(kind, s, n))

\* What a match leaves in a matcher's caches; only a number that is found is kept.
Learned(c, x, name, hit) ==
    [names |-> [c.names EXCEPT ![x.title] = name],
     numbers |-> IF hit = None THEN c.numbers
                 ELSE [c.numbers EXCEPT ![Key(SetOf(c, x).code, Stripped(x.number))] = hit],
     sets |-> IF x.code # None \/ x.setName = None THEN c.sets
              ELSE [c.sets EXCEPT ![x.setName] = SetOf(c, x)]]

-----------------------------------------------------------------------------
(* The printing of a name: number in set, then set, then any, by ID. *)

Priority(p, s, n) ==
    CASE s # None /\ n # None /\ Printing[p].set = s /\ Printing[p].number = n -> 1
      [] s # None /\ Printing[p].set = s /\ (n = None \/ Printing[p].number # n) -> 2
      [] OTHER -> 3

Before(p, q, s, n) ==
    \/ Priority(p, s, n) < Priority(q, s, n)
    \/ Priority(p, s, n) = Priority(q, s, n) /\ p <= q

Top(S, s, n) == IF S = {} THEN None ELSE CHOOSE p \in S : \A q \in S : Before(p, q, s, n)

\* resolvePrinting: two printings of the set and no number to tell them apart.
Ambiguous(name, s, n) ==
    LET top == Top(RowsOf(name), s, n)
        next == Top(RowsOf(name) \ {top}, s, n)
    IN next # None /\ Priority(top, s, n) = 2 /\ Priority(next, s, n) = 2

-----------------------------------------------------------------------------
(* The matchers. *)

Unmatched == [as |-> "unmatched", name |-> None, printing |-> None]

\* Mutant: the number a shop gives is trusted whatever the title says.
AgreesAlways(hit, name) == hit # None
Agrees(hit, name) == hit # None /\ Printing[hit].of = name

\* PrintingMatcherService.match
CardMatch(x, name, hit) ==
    LET s == SetOf(cards, x).code
        n == Stripped(x.number)
    IN  CASE name = None -> Unmatched
          [] name # None /\ Agrees(hit, name) ->
                [as |-> "card", name |-> Printing[hit].of, printing |-> hit]
          [] name # None /\ ~Agrees(hit, name) /\ Ambiguous(name, s, n) -> Unmatched
          [] OTHER -> [as |-> "card", name |-> name, printing |-> Top(RowsOf(name), s, n)]

\* TokenMatcherService.match: a number is trusted, and one printing is as good as another.
TokenMatch(x, name, hit) ==
    CASE hit # None -> [as |-> "token", name |-> Printing[hit].of, printing |-> hit]
      [] hit = None /\ name # None ->
            [as |-> "token", name |-> name,
             printing |-> Top(RowsOf(name), SetOf(tokens, x).code, Stripped(x.number))]
      [] OTHER -> Unmatched

\* The number is looked up if there is one, in a set that is known.
Hit(c, kind, x) ==
    IF Stripped(x.number) = None \/ SetOf(c, x).code = None THEN None
    ELSE Found(c, kind, SetOf(c, x).code, Stripped(x.number))

\* processExtractedVariants: the cards first, and tokens if they give no answer.
Match(x) ==
    LET name == Through(cards.names[x.title], CardName(x.title))
        hit == IF name.name = None THEN None ELSE Hit(cards, AnyCard, x)
        card == CardMatch(x, name.name, hit)
        tokenHit == Hit(tokens, Token, x)
        tokenName == Through(tokens.names[x.title], TokenName(x.title))
    IN  /\ matches < MaxMatches /\ matches' = matches + 1
        /\ product' = x
        /\ cards' = Learned(cards, x, name, hit)
        /\ IF card # Unmatched
           THEN filed' = card /\ UNCHANGED tokens
           ELSE /\ filed' = TokenMatch(x, tokenName.name, tokenHit)
                /\ tokens' = Learned(tokens, x,
                      IF tokenHit = None THEN tokenName ELSE tokens.names[x.title], tokenHit)
        /\ UNCHANGED rows

Init ==
    /\ rows \in Catalogue
    /\ cards = Warm /\ tokens = Cold
    /\ product = None /\ filed = Unmatched /\ matches = 0

Next == \E x \in Product : Match(x)

Spec == Init /\ [][Next]_vars

-----------------------------------------------------------------------------
(* Properties. *)

\* Names, numbers and sets in the caches are what the tables say.
TypeOK ==
    /\ rows \in Catalogue /\ product \in Product \cup {None}
    /\ matches \in 0 .. MaxMatches
    /\ filed.as \in {"card", "token", "unmatched"}
    /\ \A t \in Title : /\ cards.names[t] \in {None, CardName(t)}
                        /\ tokens.names[t] \in {None, TokenName(t)}
    /\ \A n \in SetName : {cards.sets[n], tokens.sets[n]} \subseteq {None, SetCalled(n)}
    /\ \A s \in Sets, n \in Numbers :
         /\ cards.numbers[<<s, n>>] \in {None, RowAt(AnyCard, s, n)}
         /\ tokens.numbers[<<s, n>>] \in {None, RowAt(Token, s, n)}

Told == IF product.code # None THEN product.code
        ELSE IF product.setName = None THEN None ELSE SetCalled(product.setName).code
InSet(name) == {p \in RowsOf(name) : Printing[p].set = Told}
WithNumber(name) ==
    {p \in InSet(name) : product.number # None /\ Printing[p].number = Stripped(product.number)}

\* Whatever was matched before, a product filed under a card is the card of its title,
\* and its printing is the one of its set and number if the card has it, a printing of
\* its set if there is just one; a number that is another card's does not count ("SKU
\* untrustworthy", match), and among several printings of the set none is picked.
FindsThePrinting ==
    filed.as = "card" =>
        LET name == CardName(product.title).name IN
        /\ filed.name = name
        /\ filed.printing # None => filed.printing \in RowsOf(name)
        /\ RowsOf(name) # {} => filed.printing # None
        /\ WithNumber(name) # {} => filed.printing \in WithNumber(name)
        /\ WithNumber(name) = {} /\ InSet(name) # {} => InSet(name) = {filed.printing}
=============================================================================
