--------------------------- MODULE ShopperCartProofs ---------------------------
(***************************************************************************)
(* Proofs about the carts of Shopper.  Carts: for any owners, variants,    *)
(* stored carts, limits, requests under way, changes and faults, where the *)
(* requests of the tab are served in order.  FillBestCards: for every set  *)
(* of offers and stores, any number of pages, fills and changes.           *)
(* CartOptimizer: for every list, finite set of stores and of requests     *)
(* that OptimizerAssumption allows.                                        *)
(***************************************************************************)
EXTENDS Shopper, FiniteSetTheorems, SequenceTheorems, TLAPS

-----------------------------------------------------------------------------
(* Requests in a row: one that is taken out moves those behind it up.       *)

Moved(i, j) == IF j < i THEN j ELSE j + 1

\* The row without request i.
Rest(cs, i) == SubSeq(cs, 1, i - 1) \o SubSeq(cs, i + 1, Len(cs))

LEMMA RestFacts ==
    ASSUME NEW S, NEW cs \in Seq(S), NEW i \in 1 .. Len(cs)
    PROVE  /\ Rest(cs, i) \in Seq(S) /\ Len(Rest(cs, i)) = Len(cs) - 1
           /\ \A j \in 1 .. Len(Rest(cs, i)) : Rest(cs, i)[j] = cs[Moved(i, j)]
<1> DEFINE p == SubSeq(cs, 1, i - 1)
           q == SubSeq(cs, i + 1, Len(cs))
           n == Len(cs)
<1>1. n \in Nat /\ i \in 1 .. n /\ \A j \in 1 .. n : cs[j] \in S
  OBVIOUS
<1>2. /\ p \in Seq(S) /\ Len(p) = i - 1 /\ \A j \in 1 .. i - 1 : p[j] = cs[j]
  <2>1. 1 \in Int /\ i - 1 \in Int /\ \A j \in 1 .. i - 1 : cs[j] \in S
    BY <1>1
  <2>2. /\ p \in Seq(S) /\ Len(p) = IF 1 <= i - 1 THEN i - 1 - 1 + 1 ELSE 0
        /\ \A j \in 1 .. i - 1 - 1 + 1 : p[j] = cs[1 + j - 1]
    BY <2>1, SubSeqProperties
  <2> HIDE DEF p, q
  <2> QED BY <2>2, <1>1
<1>3. /\ q \in Seq(S) /\ Len(q) = n - i /\ \A j \in 1 .. n - i : q[j] = cs[i + j]
  <2>1. i + 1 \in Int /\ n \in Int /\ \A j \in i + 1 .. n : cs[j] \in S
    BY <1>1
  <2>2. /\ q \in Seq(S) /\ Len(q) = IF i + 1 <= n THEN n - (i + 1) + 1 ELSE 0
        /\ \A j \in 1 .. n - (i + 1) + 1 : q[j] = cs[i + 1 + j - 1]
    BY <2>1, SubSeqProperties
  <2> HIDE DEF p, q, n
  <2>3. Len(q) = n - i
    BY <2>2, <1>1
  <2>4. ASSUME NEW j \in 1 .. n - i PROVE q[j] = cs[i + j]
    <3>1. j \in 1 .. n - (i + 1) + 1 /\ i + 1 + j - 1 = i + j
      BY <1>1
    <3> QED BY <3>1, <2>2
  <2> QED BY <2>2, <2>3, <2>4
<1>4. Rest(cs, i) = p \o q
  BY DEF Rest
<1> HIDE DEF p, q
<1>5. /\ p \o q \in Seq(S) /\ Len(p \o q) = Len(p) + Len(q)
      /\ \A j \in 1 .. Len(p) + Len(q) :
            (p \o q)[j] = IF j <= Len(p) THEN p[j] ELSE q[j - Len(p)]
  BY <1>2, <1>3, ConcatProperties
<1>6. ASSUME NEW j \in 1 .. n - 1
      PROVE  (p \o q)[j] = cs[Moved(i, j)]
  <2>1. CASE j < i
    <3>1. j \in 1 .. i - 1 /\ j \in 1 .. Len(p) + Len(q) /\ j <= Len(p)
      BY <2>1, <1>1, <1>2, <1>3
    <3> QED BY <3>1, <2>1, <1>2, <1>5 DEF Moved
  <2>2. CASE ~(j < i)
    <3>1. /\ j \in 1 .. Len(p) + Len(q) /\ ~(j <= Len(p))
          /\ j - Len(p) \in 1 .. n - i /\ i + (j - Len(p)) = j + 1
      BY <2>2, <1>1, <1>2, <1>3
    <3>2. (p \o q)[j] = q[j - Len(p)]
      BY <3>1, <1>5
    <3>3. q[j - Len(p)] = cs[j + 1]
      <4> DEFINE k == j - Len(p)
      <4>1. k \in 1 .. n - i /\ i + k = j + 1
        BY <3>1
      <4> HIDE DEF k
      <4>2. q[k] = cs[i + k]
        BY <4>1, <1>3
      <4> QED BY <4>1, <4>2 DEF k
    <3>4. Moved(i, j) = j + 1
      BY <2>2 DEF Moved
    <3> QED BY <3>2, <3>3, <3>4
  <2> QED BY <2>1, <2>2
<1> DEFINE r == p \o q
<1>7. Rest(cs, i) = r
  BY <1>4
<1>8. r \in Seq(S) /\ Len(r) = n - 1 /\ \A j \in 1 .. n - 1 : r[j] = cs[Moved(i, j)]
  BY <1>1, <1>2, <1>3, <1>5, <1>6
<1> HIDE DEF r
<1> QED BY <1>7, <1>8

LEMMA MovedFacts ==
    ASSUME NEW n \in Nat, NEW i \in 1 .. n
    PROVE  /\ \A j \in 1 .. n - 1 : Moved(i, j) \in 1 .. n /\ Moved(i, j) # i
           /\ \A j, k \in 1 .. n - 1 : j < k <=> Moved(i, j) < Moved(i, k)
           /\ \A k \in 1 .. n : k # i => \E j \in 1 .. n - 1 : Moved(i, j) = k
<1>1. ASSUME NEW k \in 1 .. n, k # i
      PROVE  \E j \in 1 .. n - 1 : Moved(i, j) = k
  <2>1. CASE k < i
    BY <2>1 DEF Moved
  <2>2. CASE k > i
    <3>1. k - 1 \in 1 .. n - 1 /\ Moved(i, k - 1) = k
      BY <2>2 DEF Moved
    <3> QED BY <3>1
  <2> QED BY <1>1, <2>1, <2>2
<1> QED BY <1>1 DEF Moved

LEMMA AppendFacts ==
    ASSUME NEW S, NEW cs \in Seq(S), NEW c \in S
    PROVE  /\ Append(cs, c) \in Seq(S) /\ Len(Append(cs, c)) = Len(cs) + 1
           /\ \A j \in 1 .. Len(cs) : Append(cs, c)[j] = cs[j]
           /\ Append(cs, c)[Len(cs) + 1] = c
           /\ \A j \in 1 .. Len(cs) + 1 : j \in 1 .. Len(cs) \/ j = Len(cs) + 1
           /\ Len(cs) \in Nat
OBVIOUS

LEMMA CartRemoval ==
    ASSUME NEW S, NEW cs \in Seq(S), NEW i \in 1 .. Len(cs)
    PROVE  /\ C!RemoveAt(cs, i) \in Seq(S) /\ Len(C!RemoveAt(cs, i)) = Len(cs) - 1
           /\ \A j \in 1 .. Len(C!RemoveAt(cs, i)) : C!RemoveAt(cs, i)[j] = cs[Moved(i, j)]
BY RestFacts DEF C!RemoveAt, Rest


-----------------------------------------------------------------------------
(* Carts: LinksMatchCart and QuietAgreement.  Requests are served in turn,  *)
(* so what matters is which request will write the cart last, and whether  *)
(* the requests behind the links of the page ask for the cart it shows.    *)

Over(c) == c.at \in {"answered", "failed"}
Writers == {"put", "push", "prepare", "delete"}
Unwritten(c) == c.kind \in Writers /\ c.at \in {"sent", "found"}

\* S is what can be had of the cart `wanted`.
Covers(S, wanted, stock) == S \subseteq wanted /\ (wanted \ S) \cap stock = {}

\* What a request that writes found can be had of what it asked for, and is in the row
\* when it has just written it.
Sound(c, rows, stock) ==
    /\ c.kind = "delete" => c.ids = {}
    /\ c.at = "sent" => c.found = {}
    /\ c.kind \in Writers /\ c.at \in {"found", "written", "answered"} =>
         Covers(c.found, c.ids, stock)
    /\ c.kind \in Writers /\ c.at = "written" =>
         rows[c.who] = C!NoCart \/ rows[c.who].ids = c.found

\* The requests are served one after the other; those the tab waits for are of its principal.
CallsOK(cs, m, rows, stock) ==
    /\ cs \in Seq(C!Calls)
    /\ \A i, j \in 1 .. Len(cs) : j < i /\ cs[i].at \notin {"sent", "failed"} => Over(cs[j])
    /\ \A i \in 1 .. Len(cs) : /\ cs[i].live => cs[i].who = m
                               /\ Sound(cs[i], rows, stock)

\* A request that has just been sent.
Fresh(c, m) ==
    /\ c \in C!Calls /\ c.at = "sent" /\ c.found = {} /\ c.who = m
    /\ c.kind = "delete" => c.ids = {}

LEMMA CallSent ==
    ASSUME NEW cs, NEW m, NEW rows, NEW stock, NEW c, CallsOK(cs, m, rows, stock), Fresh(c, m)
    PROVE  CallsOK(Append(cs, c), m, rows, stock)
<1>1. cs \in Seq(C!Calls) /\ c \in C!Calls
  BY DEF CallsOK, Fresh
<1> DEFINE r == Append(cs, c)
           n == Len(cs)
<1>2. /\ r \in Seq(C!Calls) /\ Len(r) = n + 1 /\ n \in Nat
      /\ \A j \in 1 .. n : r[j] = cs[j]
      /\ r[n + 1] = c
      /\ \A j \in 1 .. n + 1 : j \in 1 .. n \/ j = n + 1
  BY <1>1, AppendFacts
<1> HIDE DEF r
<1>3. Sound(c, rows, stock) /\ (c.live => c.who = m) /\ c.at = "sent"
  BY DEF Fresh, Sound
<1>4. \A i \in 1 .. n : Sound(cs[i], rows, stock) /\ (cs[i].live => cs[i].who = m)
  BY DEF CallsOK
<1>5. \A i \in 1 .. n + 1 : Sound(r[i], rows, stock) /\ (r[i].live => r[i].who = m)
  BY <1>2, <1>3, <1>4
<1>6. \A i, j \in 1 .. n + 1 : j < i /\ r[i].at \notin {"sent", "failed"} => Over(r[j])
  <2> SUFFICES ASSUME NEW i \in 1 .. n + 1, NEW j \in 1 .. n + 1, j < i, r[i].at \notin {"sent", "failed"}
               PROVE  Over(r[j])
    OBVIOUS
  <2>1. i # n + 1
    BY <1>2, <1>3
  <2>2. i \in 1 .. n /\ j \in 1 .. n
    BY <2>1, <1>2
  <2> QED BY <2>2, <1>2 DEF CallsOK
<1> QED BY <1>2, <1>5, <1>6 DEF CallsOK, r

LEMMA CallGone ==
    ASSUME NEW cs, NEW m, NEW rows, NEW stock, CallsOK(cs, m, rows, stock), NEW i \in 1 .. Len(cs)
    PROVE  CallsOK(C!RemoveAt(cs, i), m, rows, stock)
<1> DEFINE r == C!RemoveAt(cs, i)
           n == Len(cs)
<1>1. cs \in Seq(C!Calls) /\ n \in Nat
  BY DEF CallsOK
<1>2. r \in Seq(C!Calls) /\ Len(r) = n - 1 /\ \A j \in 1 .. n - 1 : r[j] = cs[Moved(i, j)]
  BY <1>1, CartRemoval
<1>3. /\ \A j \in 1 .. n - 1 : Moved(i, j) \in 1 .. n
      /\ \A j, k \in 1 .. n - 1 : j < k => Moved(i, j) < Moved(i, k)
  BY <1>1, MovedFacts
<1> HIDE DEF r, n
<1>4. \A j \in 1 .. n - 1 : Sound(r[j], rows, stock) /\ (r[j].live => r[j].who = m)
  BY <1>2, <1>3 DEF CallsOK, n
<1>5. \A j, k \in 1 .. n - 1 : k < j /\ r[j].at \notin {"sent", "failed"} => Over(r[k])
  BY <1>2, <1>3 DEF CallsOK, n
<1> QED BY <1>2, <1>4, <1>5 DEF CallsOK, r

LEMMA AbortFacts ==
    ASSUME NEW cs \in Seq(C!Calls)
    PROVE  /\ C!Aborted(cs) \in Seq(C!Calls) /\ Len(C!Aborted(cs)) = Len(cs)
           /\ \A i \in 1 .. Len(cs) :
                /\ C!Aborted(cs)[i] \in C!Calls /\ cs[i] \in C!Calls
                /\ C!Aborted(cs)[i].kind = cs[i].kind /\ C!Aborted(cs)[i].who = cs[i].who
                /\ C!Aborted(cs)[i].version = cs[i].version /\ C!Aborted(cs)[i].ids = cs[i].ids
                /\ C!Aborted(cs)[i].at = cs[i].at /\ C!Aborted(cs)[i].found = cs[i].found
                /\ C!Aborted(cs)[i].live <=> cs[i].live /\ cs[i].kind \notin {"prepare", "build"}
<1> DEFINE one(c) == IF c.kind \in {"prepare", "build"} THEN [c EXCEPT !.live = FALSE] ELSE c
<1>1. \A c \in C!Calls : /\ one(c) \in C!Calls /\ one(c).kind = c.kind /\ one(c).who = c.who
                         /\ one(c).version = c.version /\ one(c).ids = c.ids
                         /\ one(c).at = c.at /\ one(c).found = c.found
                         /\ one(c).live <=> c.live /\ c.kind \notin {"prepare", "build"}
  BY DEF C!Calls
<1>2. DOMAIN cs = 1 .. Len(cs) /\ Len(cs) \in Nat /\ \A i \in 1 .. Len(cs) : cs[i] \in C!Calls
  OBVIOUS
<1> DEFINE r == C!Aborted(cs)
           n == Len(cs)
<1>3. r = [i \in 1 .. n |-> one(cs[i])] /\ n \in Nat
  BY <1>2 DEF C!Aborted
<1>4. \A i \in 1 .. n : one(cs[i]) \in C!Calls
  BY <1>1, <1>2
<1> HIDE DEF one, r, n
<1>5. r \in [1 .. n -> C!Calls] /\ DOMAIN r = 1 .. n /\ \A i \in 1 .. n : r[i] = one(cs[i])
  BY <1>3, <1>4
<1>6. r \in Seq(C!Calls) /\ Len(r) = n
  BY <1>3, <1>5
<1> QED BY <1>1, <1>2, <1>5, <1>6 DEF r, n

LEMMA CallsAborted ==
    ASSUME NEW cs, NEW m, NEW rows, NEW stock, CallsOK(cs, m, rows, stock)
    PROVE  CallsOK(C!Aborted(cs), m, rows, stock)
<1> DEFINE r == C!Aborted(cs)
<1>1. cs \in Seq(C!Calls)
  BY DEF CallsOK
<1>2. r \in Seq(C!Calls) /\ Len(r) = Len(cs)
      /\ \A i \in 1 .. Len(cs) :
           /\ r[i].kind = cs[i].kind /\ r[i].who = cs[i].who /\ r[i].ids = cs[i].ids
           /\ r[i].at = cs[i].at /\ r[i].found = cs[i].found /\ (r[i].live => cs[i].live)
  BY <1>1, AbortFacts
<1> HIDE DEF r
<1>3. \A i \in 1 .. Len(cs) : Sound(r[i], rows, stock) <=> Sound(cs[i], rows, stock)
  BY <1>2 DEF Sound
<1>4. \A i \in 1 .. Len(cs) : Over(r[i]) <=> Over(cs[i])
  BY <1>2 DEF Over
<1> QED BY <1>2, <1>3, <1>4 DEF CallsOK, r

\* Request i makes a step; it does so when its turn has come.
Steps(cs, ds, i) ==
    /\ ds \in Seq(C!Calls) /\ Len(ds) = Len(cs) /\ i \in 1 .. Len(cs)
    /\ \A j \in 1 .. Len(cs) : j # i => ds[j] = cs[j]
    /\ ds[i].kind = cs[i].kind /\ ds[i].who = cs[i].who /\ ds[i].version = cs[i].version
    /\ ds[i].ids = cs[i].ids /\ (ds[i].live <=> cs[i].live)
    /\ ~Over(cs[i])
Turn(cs, i) == \A j \in 1 .. Len(cs) : j < i => Over(cs[j])

ServedTo(cs, i, had, place) == [cs EXCEPT ![i] = [cs[i] EXCEPT !.found = had, !.at = place]]

LEMMA StepFacts ==
    ASSUME NEW cs \in Seq(C!Calls), NEW i \in 1 .. Len(cs), ~Over(cs[i]),
           NEW place \in C!Places, NEW had \in SUBSET Variant
    PROVE  /\ Steps(cs, ServedTo(cs, i, had, place), i)
           /\ ServedTo(cs, i, had, place)[i].at = place
           /\ ServedTo(cs, i, had, place)[i].found = had
<1> DEFINE d == [cs[i] EXCEPT !.found = had, !.at = place]
           ds == ServedTo(cs, i, had, place)
<1>1. cs[i] \in C!Calls /\ cs \in Seq(C!Calls) /\ i \in 1 .. Len(cs)
  OBVIOUS
<1>2. /\ d \in C!Calls /\ d.kind = cs[i].kind /\ d.who = cs[i].who /\ d.version = cs[i].version
      /\ d.ids = cs[i].ids /\ (d.live <=> cs[i].live) /\ d.at = place /\ d.found = had
  BY <1>1 DEF C!Calls
<1>3. ds = [cs EXCEPT ![i] = d]
  BY DEF ServedTo
<1> HIDE DEF d, ds
<1>4. /\ ds \in Seq(C!Calls) /\ Len(ds) = Len(cs) /\ ds[i] = d
      /\ \A j \in 1 .. Len(cs) : j # i => ds[j] = cs[j]
  <2>1. d \in C!Calls
    BY <1>2
  <2> DEFINE e == [cs EXCEPT ![i] = d]
  <2>2. e \in Seq(C!Calls) /\ Len(e) = Len(cs) /\ \A j \in 1 .. Len(cs) : e[j] = IF j = i THEN d ELSE cs[j]
    BY <1>1, <2>1, ExceptSeq
  <2>3. ds = e
    BY <1>3
  <2> HIDE DEF e
  <2> QED BY <1>1, <2>2, <2>3
<1> QED BY <1>1, <1>2, <1>4 DEF Steps, ds

LEMMA CallFails ==
    ASSUME NEW cs, NEW m, NEW rows, NEW stock, CallsOK(cs, m, rows, stock),
           NEW ds, NEW i, Steps(cs, ds, i), ds[i].at = "failed"
    PROVE  CallsOK(ds, m, rows, stock)
<1>1. /\ ds \in Seq(C!Calls) /\ Len(ds) = Len(cs) /\ i \in 1 .. Len(cs)
      /\ \A j \in 1 .. Len(cs) : j # i => ds[j] = cs[j]
      /\ ds[i].kind = cs[i].kind /\ ds[i].who = cs[i].who /\ ds[i].ids = cs[i].ids
      /\ (ds[i].live <=> cs[i].live) /\ Over(ds[i])
  BY DEF Steps, Over
<1>2. \A j \in 1 .. Len(cs) : Sound(ds[j], rows, stock) /\ (ds[j].live => ds[j].who = m)
  BY <1>1 DEF CallsOK, Sound
<1>3. \A a, b \in 1 .. Len(cs) : b < a /\ ds[a].at \notin {"sent", "failed"} => Over(ds[b])
  BY <1>1 DEF CallsOK
<1> QED BY <1>1, <1>2, <1>3 DEF CallsOK

LEMMA CallServed ==
    ASSUME NEW cs, NEW m, NEW rows, NEW stock, CallsOK(cs, m, rows, stock),
           NEW ds, NEW i, Steps(cs, ds, i), Turn(cs, i), NEW rows2, Sound(ds[i], rows2, stock)
    PROVE  CallsOK(ds, m, rows2, stock)
<1> DEFINE n == Len(cs)
<1>1. /\ ds \in Seq(C!Calls) /\ Len(ds) = n /\ n \in Nat /\ i \in 1 .. n
      /\ \A j \in 1 .. n : j # i => ds[j] = cs[j]
      /\ ds[i].who = cs[i].who /\ (ds[i].live <=> cs[i].live)
      /\ \A j \in 1 .. n : j < i => Over(cs[j])
      /\ ~Over(cs[i])
  BY DEF Steps, Turn, CallsOK
<1>2. \A j \in 1 .. n : j > i => cs[j].at \in {"sent", "failed"}
  BY <1>1 DEF CallsOK
<1>3. \A j \in 1 .. n : j # i => cs[j].at # "written"
  <2> TAKE j \in 1 .. n
  <2>1. CASE j < i
    BY <2>1, <1>1 DEF Over
  <2>2. CASE j > i
    BY <2>2, <1>2
  <2> QED BY <2>1, <2>2, <1>1
<1>4. \A j \in 1 .. n : Sound(ds[j], rows2, stock) /\ (ds[j].live => ds[j].who = m)
  BY <1>1, <1>3 DEF CallsOK, Sound
<1>5. ASSUME NEW a \in 1 .. n, NEW b \in 1 .. n, b < a, ds[a].at \notin {"sent", "failed"}
      PROVE  Over(ds[b])
  <2>1. ~(a > i)
    BY <1>1, <1>2, <1>5
  <2>2. b # i /\ b < i
    BY <2>1, <1>1, <1>5
  <2> QED BY <2>2, <1>1
<1> QED BY <1>1, <1>4, <1>5 DEF CallsOK

\* Carts disappear, get old; variants sell out.
LEMMA CallsLater ==
    ASSUME NEW cs, NEW m, NEW rows, NEW stock, CallsOK(cs, m, rows, stock),
           NEW rows2, NEW stock2, stock2 \subseteq stock,
           \A p \in Principal : rows2[p] = C!NoCart \/ (rows[p] # C!NoCart /\ rows2[p].ids = rows[p].ids)
    PROVE  CallsOK(cs, m, rows2, stock2)
<1>1. ASSUME NEW i \in 1 .. Len(cs) PROVE Sound(cs[i], rows2, stock2)
  <2>1. Sound(cs[i], rows, stock) /\ cs[i] \in C!Calls
    BY DEF CallsOK
  <2>2. cs[i].who \in Principal
    BY <2>1 DEF C!Calls
  <2> QED BY <2>1, <2>2 DEF Sound, Covers
<1> QED BY <1>1 DEF CallsOK

-----------------------------------------------------------------------------

\* A request for links that its page waits for; it has stored the cart.
Asks(c) == c.live /\ c.kind \in {"prepare", "build"}
Stores(c) == c.kind = "build" \/ c.at \in {"written", "answered"}

\* Whatever will still write the cart before or while the links are built writes the cart
\* the page shows, and the row has it from when the request has stored it.
PageCalls(cs, m, its, open, rows, stock) ==
    \A i \in 1 .. Len(cs) : Asks(cs[i]) =>
        /\ open /\ cs[i].ids = its
        /\ \A j \in 1 .. Len(cs) :
             Unwritten(cs[j]) /\ (cs[i].kind = "build" \/ i < j) => cs[j].who = m /\ cs[j].ids = its
        /\ Stores(cs[i]) => rows[m] = C!NoCart \/ Covers(rows[m].ids, its, stock)
        /\ cs[i].kind = "build" /\ cs[i].at = "answered" => Covers(cs[i].found, its, stock)

NoAsks(cs) == \A i \in 1 .. Len(cs) : ~Asks(cs[i])

LEMMA PageServed ==
    ASSUME NEW cs, NEW m, NEW rows, NEW stock, CallsOK(cs, m, rows, stock),
           NEW its, NEW open, PageCalls(cs, m, its, open, rows, stock),
           NEW ds, NEW i, Steps(cs, ds, i),
           Unwritten(ds[i]) => Unwritten(cs[i]), Asks(ds[i]) /\ Stores(ds[i]) => Stores(cs[i]),
           Asks(ds[i]) /\ ds[i].kind = "build" /\ ds[i].at = "answered" =>
               Covers(ds[i].found, its, stock)
    PROVE  PageCalls(ds, m, its, open, rows, stock)
<1>1. /\ Len(ds) = Len(cs) /\ i \in 1 .. Len(cs)
      /\ \A j \in 1 .. Len(cs) : j # i => ds[j] = cs[j]
      /\ ds[i].kind = cs[i].kind /\ ds[i].who = cs[i].who /\ ds[i].ids = cs[i].ids
      /\ (ds[i].live <=> cs[i].live)
  BY DEF Steps
<1>2. \A j \in 1 .. Len(cs) : /\ Unwritten(ds[j]) => Unwritten(cs[j])
                              /\ Asks(ds[j]) /\ Stores(ds[j]) => Stores(cs[j])
                              /\ ds[j].who = cs[j].who /\ ds[j].ids = cs[j].ids
                              /\ ds[j].kind = cs[j].kind /\ (Asks(ds[j]) <=> Asks(cs[j]))
  BY <1>1 DEF Asks
<1>3. \A j \in 1 .. Len(cs) : Asks(ds[j]) /\ ds[j].kind = "build" /\ ds[j].at = "answered" =>
                                  Covers(ds[j].found, its, stock)
  BY <1>1 DEF PageCalls
<1> QED BY <1>1, <1>2, <1>3 DEF PageCalls

LEMMA PageUpsert ==
    ASSUME NEW cs, NEW m, NEW rows, NEW stock, CallsOK(cs, m, rows, stock),
           NEW its, NEW open, PageCalls(cs, m, its, open, rows, stock),
           NEW ds, NEW i, Steps(cs, ds, i), Unwritten(cs[i]), ds[i].at = "written",
           NEW rows2, rows2[cs[i].who].ids = cs[i].found, Covers(cs[i].found, cs[i].ids, stock),
           cs[i].who # m => rows2[m] = rows[m]
    PROVE  PageCalls(ds, m, its, open, rows2, stock)
<1> DEFINE n == Len(cs)
<1>1. /\ Len(ds) = n /\ i \in 1 .. n /\ n \in Nat
      /\ \A j \in 1 .. n : j # i => ds[j] = cs[j]
      /\ ds[i].kind = cs[i].kind /\ ds[i].who = cs[i].who /\ ds[i].ids = cs[i].ids
      /\ (ds[i].live <=> cs[i].live) /\ ~Over(cs[i])
  BY DEF Steps, Turn, CallsOK
<1>2. ~Unwritten(ds[i]) /\ cs[i].kind # "build"
  BY DEF Unwritten, Writers
<1>3. \A j \in 1 .. n : Asks(ds[j]) <=> Asks(cs[j])
  BY <1>1 DEF Asks
<1>4. ASSUME NEW a \in 1 .. n, Asks(cs[a]), Stores(ds[a])
      PROVE  rows2[m] = C!NoCart \/ Covers(rows2[m].ids, its, stock)
  <2>1. cs[a].who = m /\ cs[a].ids = its
    BY <1>4 DEF CallsOK, PageCalls, Asks
  <2>2. CASE cs[i].who # m
    <3>1. a # i
      BY <2>1, <2>2
    <3> QED BY <3>1, <2>2, <1>1, <1>4 DEF PageCalls
  <2>3. CASE cs[i].who = m
    <3>1. cs[i].ids = its
      <4>1. CASE a = i
        BY <4>1, <2>1
      <4>2. CASE a # i /\ cs[a].kind = "build"
        BY <4>2, <1>1, <1>4 DEF PageCalls
      <4>3. CASE a # i /\ cs[a].kind # "build"
        <5>1. cs[a].at \in {"written", "answered"}
          BY <4>3, <1>1, <1>4 DEF Stores
        <5>2. ~(i < a)
          BY <5>1, <1>1 DEF CallsOK
        <5>3. a < i
          BY <5>2, <4>3, <1>1
        <5> QED BY <5>3, <1>1, <1>4 DEF PageCalls
      <4> QED BY <4>1, <4>2, <4>3
    <3> QED BY <3>1, <2>3
  <2> QED BY <2>2, <2>3
<1>5. ASSUME NEW a \in 1 .. n, Asks(ds[a])
      PROVE  /\ open /\ ds[a].ids = its
             /\ \A j \in 1 .. n : Unwritten(ds[j]) /\ (ds[a].kind = "build" \/ a < j) =>
                                      ds[j].who = m /\ ds[j].ids = its
             /\ ds[a].kind = "build" /\ ds[a].at = "answered" => Covers(ds[a].found, its, stock)
  BY <1>1, <1>2, <1>3, <1>5 DEF PageCalls
<1> QED BY <1>1, <1>3, <1>4, <1>5 DEF PageCalls

LEMMA PageGone ==
    ASSUME NEW cs \in Seq(C!Calls), NEW m, NEW rows, NEW stock, NEW its, NEW open,
           PageCalls(cs, m, its, open, rows, stock), NEW i \in 1 .. Len(cs)
    PROVE  PageCalls(C!RemoveAt(cs, i), m, its, open, rows, stock)
<1> DEFINE r == C!RemoveAt(cs, i)
           n == Len(cs)
<1>1. r \in Seq(C!Calls) /\ Len(r) = n - 1 /\ n \in Nat /\ \A j \in 1 .. n - 1 : r[j] = cs[Moved(i, j)]
  BY CartRemoval
<1>2. /\ \A j \in 1 .. n - 1 : Moved(i, j) \in 1 .. n
      /\ \A j, k \in 1 .. n - 1 : j < k => Moved(i, j) < Moved(i, k)
  BY <1>1, MovedFacts
<1> HIDE DEF r, n
<1>3. ASSUME NEW a \in 1 .. n - 1, Asks(r[a])
      PROVE  /\ open /\ r[a].ids = its
             /\ \A j \in 1 .. n - 1 : Unwritten(r[j]) /\ (r[a].kind = "build" \/ a < j) =>
                                          r[j].who = m /\ r[j].ids = its
             /\ Stores(r[a]) => rows[m] = C!NoCart \/ Covers(rows[m].ids, its, stock)
             /\ r[a].kind = "build" /\ r[a].at = "answered" => Covers(r[a].found, its, stock)
  <2> DEFINE b == Moved(i, a)
  <2>1. b \in 1 .. n /\ r[a] = cs[b] /\ \A j \in 1 .. n - 1 : a < j => b < Moved(i, j)
    BY <1>1, <1>2
  <2> HIDE DEF b
  <2>2. /\ open /\ cs[b].ids = its
        /\ \A j \in 1 .. n : Unwritten(cs[j]) /\ (cs[b].kind = "build" \/ b < j) =>
                                 cs[j].who = m /\ cs[j].ids = its
        /\ Stores(cs[b]) => rows[m] = C!NoCart \/ Covers(rows[m].ids, its, stock)
        /\ cs[b].kind = "build" /\ cs[b].at = "answered" => Covers(cs[b].found, its, stock)
    BY <2>1, <1>3 DEF PageCalls, n
  <2>3. \A j \in 1 .. n - 1 : Moved(i, j) \in 1 .. n /\ r[j] = cs[Moved(i, j)]
    BY <1>1, <1>2
  <2> QED BY <2>1, <2>2, <2>3
<1> QED BY <1>1, <1>3 DEF PageCalls, r

LEMMA PageAborted ==
    ASSUME NEW cs \in Seq(C!Calls)
    PROVE  NoAsks(C!Aborted(cs))
BY AbortFacts DEF NoAsks, Asks

LEMMA PageNoAsks ==
    ASSUME NEW cs, NoAsks(cs), NEW m, NEW rows, NEW stock, NEW its, NEW open
    PROVE  PageCalls(cs, m, its, open, rows, stock)
BY DEF NoAsks, PageCalls

\* A request that is no page's is sent: whoever waits for links wants the same cart.
LEMMA PageSent ==
    ASSUME NEW cs \in Seq(C!Calls), NEW m, NEW rows, NEW stock, NEW its, NEW open,
           PageCalls(cs, m, its, open, rows, stock), NEW c \in C!Calls, ~Asks(c),
           NoAsks(cs) \/ (c.who = m /\ c.ids = its)
    PROVE  PageCalls(Append(cs, c), m, its, open, rows, stock)
<1> DEFINE r == Append(cs, c)
           n == Len(cs)
<1>1. /\ Len(r) = n + 1 /\ n \in Nat
      /\ \A j \in 1 .. n : r[j] = cs[j]
      /\ r[n + 1] = c
      /\ \A j \in 1 .. n + 1 : j \in 1 .. n \/ j = n + 1
  BY AppendFacts
<1> HIDE DEF r
<1>2. CASE NoAsks(cs)
  <2>1. NoAsks(r)
    BY <1>1, <1>2 DEF NoAsks
  <2> QED BY <2>1, PageNoAsks DEF r
<1>3. CASE c.who = m /\ c.ids = its
  BY <1>1, <1>3 DEF PageCalls, r
<1> QED BY <1>2, <1>3

LEMMA PageAsks ==
    ASSUME NEW cs \in Seq(C!Calls), NoAsks(cs), NEW c \in C!Calls, c.kind = "prepare", c.at = "sent",
           NEW m, NEW rows, NEW stock, NEW its, c.ids = its
    PROVE  PageCalls(Append(cs, c), m, its, TRUE, rows, stock)
<1> DEFINE r == Append(cs, c)
           n == Len(cs)
<1>1. /\ Len(r) = n + 1 /\ n \in Nat
      /\ \A j \in 1 .. n : r[j] = cs[j]
      /\ r[n + 1] = c
      /\ \A j \in 1 .. n + 1 : j \in 1 .. n \/ j = n + 1
  BY AppendFacts
<1> HIDE DEF r
<1>2. \A i \in 1 .. n + 1 : Asks(r[i]) => i = n + 1
  BY <1>1 DEF NoAsks
<1> QED BY <1>1, <1>2 DEF PageCalls, Stores, r

LEMMA PageLater ==
    ASSUME NEW cs, NEW m, NEW rows, NEW stock, NEW its, NEW open,
           PageCalls(cs, m, its, open, rows, stock),
           NEW rows2, NEW stock2, stock2 \subseteq stock,
           rows2[m] = C!NoCart \/ (rows[m] # C!NoCart /\ rows2[m].ids = rows[m].ids)
    PROVE  PageCalls(cs, m, its, open, rows2, stock2)
BY DEF PageCalls, Covers

-----------------------------------------------------------------------------
(* Carts: the page. *)

PageType(pg) ==
    /\ pg \in [open : BOOLEAN, asked : (SUBSET Variant) \cup {None},
               state : {"idle", "building", "ready", "error"}, links : SUBSET Variant]
    /\ pg.open \/ pg = C!Closed

\* What the page shows; links only once they lead to that cart.
PageOK(its, pg, stock) ==
    /\ pg.open => pg.asked = its /\ its # {}
    /\ pg.state = "ready" => pg.open /\ Covers(pg.links, its, stock)

TabOK(its, pg, cs, m, rows, stock) ==
    /\ its \subseteq Variant /\ PageType(pg) /\ PageOK(its, pg, stock)
    /\ CallsOK(cs, m, rows, stock) /\ PageCalls(cs, m, its, pg.open, rows, stock)

LEMMA FreshCall ==
    ASSUME NEW kind \in C!Kinds, NEW ids \in SUBSET Variant, NEW v \in Nat, me \in Principal,
           kind = "delete" => ids = {}
    PROVE  /\ Fresh(C!Call(kind, ids, v), me) /\ C!Call(kind, ids, v) \in C!Calls
           /\ C!Call(kind, ids, v).kind = kind /\ C!Call(kind, ids, v).ids = ids
           /\ C!Call(kind, ids, v).version = v
           /\ C!Call(kind, ids, v).at = "sent" /\ C!Call(kind, ids, v).live
           /\ C!Call(kind, ids, v).who = me
BY DEF Fresh, C!Call, C!Calls, C!Places

\* The cart `new` is shown, with the requests cs under way.
LEMMA ShownStep ==
    ASSUME PageType(page), me \in Principal, PageOK(cartItems, page, inStock),
           NEW cs, CallsOK(cs, me, cart, inStock), page.open \/ NoAsks(cs),
           NEW new \in SUBSET Variant,
           new = cartItems => PageCalls(cs, me, cartItems, page.open, cart, inStock),
           C!Shown(new, cs)
    PROVE  TabOK(cartItems', page', calls', me, cart, inStock)
<1>1. cartItems' = new /\ cs \in Seq(C!Calls)
  BY DEF C!Shown, CallsOK
<1>2. NoAsks(C!Aborted(cs)) /\ C!Aborted(cs) \in Seq(C!Calls) /\ CallsOK(C!Aborted(cs), me, cart, inStock)
  BY <1>1, PageAborted, AbortFacts, CallsAborted
<1>3. CASE page.open /\ new = {}
  <2>1. page' = C!Closed /\ calls' = C!Aborted(cs)
    BY <1>3 DEF C!Shown
  <2>2. PageType(C!Closed) /\ PageOK(new, C!Closed, inStock)
    BY DEF PageType, PageOK, C!Closed
  <2> QED BY <1>1, <1>2, <2>1, <2>2, PageNoAsks DEF TabOK
<1>4. CASE page.open /\ new # {} /\ page.asked # new
  <2> DEFINE c == C!Call("prepare", new, 0)
             pg == [open |-> TRUE, asked |-> new, state |-> "building", links |-> {}]
  <2>1. page' = pg /\ calls' = Append(C!Aborted(cs), c)
    BY <1>4 DEF C!Shown
  <2>2. PageType(pg) /\ PageOK(new, pg, inStock) /\ pg.open
    BY <1>4 DEF PageType, PageOK
  <2>3. Fresh(c, me) /\ c \in C!Calls /\ c.kind = "prepare" /\ c.ids = new /\ c.at = "sent"
    BY FreshCall DEF C!Kinds
  <2> HIDE DEF c, pg
  <2>4. CallsOK(Append(C!Aborted(cs), c), me, cart, inStock)
    BY <1>2, <2>3, CallSent
  <2>5. PageCalls(Append(C!Aborted(cs), c), me, new, TRUE, cart, inStock)
    BY <1>2, <2>3, PageAsks
  <2>6. pg.open = TRUE
    BY DEF pg
  <2> QED BY <1>1, <2>1, <2>2, <2>4, <2>5, <2>6 DEF TabOK
<1>5. CASE ~page.open \/ (new # {} /\ page.asked = new)
  <2>1. page' = page /\ calls' = cs
    BY <1>5 DEF C!Shown
  <2>2. CASE ~page.open
    <3>1. PageOK(new, page, inStock) /\ PageCalls(cs, me, new, page.open, cart, inStock)
      BY <2>2, PageNoAsks DEF PageOK
    <3> QED BY <1>1, <2>1, <3>1 DEF TabOK
  <2>3. CASE page.open
    <3>1. new = cartItems
      BY <1>5, <2>3 DEF PageOK
    <3> QED BY <1>1, <2>1, <3>1 DEF TabOK
  <2> QED BY <2>2, <2>3
<1> QED BY <1>3, <1>4, <1>5

CartsRest ==
    /\ version \in 0 .. changes /\ me \in Principal
    /\ cart \in [Principal -> C!Carts] /\ inStock \subseteq Variant
    /\ hits \in Nat /\ ttl \in BOOLEAN /\ registered \subseteq Principal
    /\ cleanup \in [at : {"idle", "selected", "checked"}, doomed : SUBSET Principal,
                    spared : SUBSET Principal]
    /\ broken \in BOOLEAN /\ changes \in 0 .. MaxChanges /\ cartEvents \in 0 .. MaxEvents

CartTab == TabOK(cartItems, page, calls, me, cart, inStock)
CartsInv == CartsRest /\ CartTab

\* What a step of the API does to its request and to the rows.
ServeFact(i) ==
    LET c == calls[i]
        d == calls'[i]
    IN
    /\ Steps(calls, calls', i) /\ Turn(calls, i) /\ Sound(d, cart', inStock)
    /\ (d.kind \in {"get", "build"} /\ d.at = "answered" => d.found = C!StoredItems(d.who))
    /\ (d.kind = "build" /\ d.at = "answered" => d.found # {})
    /\ (d.at = "failed" => d.kind # "get")
    /\ \/ /\ cart' = cart
          /\ Unwritten(d) <=> Unwritten(c)
          /\ d.kind # "get" /\ Stores(d) => Stores(c)
       \/ /\ Unwritten(c) /\ d.at = "written" /\ Covers(c.found, c.ids, inStock)
          /\ cart' = [cart EXCEPT ![c.who] = [ids |-> c.found, old |-> FALSE]]

LEMMA ServeDoes ==
    ASSUME CartsInv, NEW i \in C!Indices, C!Serve(i)
    PROVE  ServeFact(i)
<1> DEFINE c == calls[i]
           d == calls'[i]
<1>1. calls \in Seq(C!Calls) /\ i \in 1 .. Len(calls) /\ C!Indices = 1 .. Len(calls)
  BY DEF CartsInv, CartTab, TabOK, CallsOK, C!Indices
<1>2. /\ c \in C!Calls /\ c.kind \in C!Kinds /\ c.who \in Principal /\ c.ids \subseteq Variant
      /\ c.found \subseteq Variant /\ c.at \in C!Places /\ Sound(c, cart, inStock)
      /\ cart \in [Principal -> C!Carts] /\ inStock \subseteq Variant
  <2>1. c \in C!Calls /\ Sound(c, cart, inStock)
    BY <1>1 DEF CartsInv, CartTab, TabOK, CallsOK
  <2> QED BY <2>1 DEF CartsInv, CartsRest, C!Calls
<1>3. ASSUME NEW kinds, NEW place, C!At(i, kinds, place)
      PROVE  c.kind \in kinds /\ c.at = place /\ Turn(calls, i)
  BY <1>1, <1>3 DEF C!At, Turn, Over
<1>4. ASSUME NEW place \in C!Places, NEW had \in SUBSET Variant, ~Over(c),
             calls' = ServedTo(calls, i, had, place)
      PROVE  /\ Steps(calls, calls', i) /\ d.at = place /\ d.found = had
             /\ d.kind = c.kind /\ d.who = c.who /\ d.ids = c.ids
  <2>1. Steps(calls, calls', i) /\ calls'[i].at = place /\ calls'[i].found = had
    <3>1. ~Over(calls[i])
      BY <1>4
    <3> QED BY <1>1, <1>4, <3>1, StepFacts
  <2> QED BY <2>1 DEF Steps
<1>5. ASSUME NEW place \in C!Places, ~Over(c), C!Move(i, place)
      PROVE  /\ Steps(calls, calls', i) /\ d.at = place /\ d.found = c.found
             /\ d.kind = c.kind /\ d.who = c.who /\ d.ids = c.ids
  <2>1. calls' = ServedTo(calls, i, c.found, place)
    <3>1. [calls[i] EXCEPT !.found = c.found, !.at = place] = [calls[i] EXCEPT !.at = place]
      BY <1>2 DEF C!Calls
    <3> QED BY <1>5, <3>1 DEF C!Move, ServedTo
  <2> QED BY <1>2, <1>4, <1>5, <2>1
<1> HIDE DEF c, d
<1> USE DEF ServeFact
<1>6. CASE C!FindVariants(i)
  <2>1. /\ c.kind \in {"put", "push", "prepare"} /\ c.at = "sent" /\ Turn(calls, i) /\ cart' = cart
    BY <1>3, <1>6 DEF C!FindVariants
  <2> DEFINE had == c.found \cup (c.ids \cap inStock)
  <2>2. calls' = ServedTo(calls, i, had, "found")
    BY <1>6 DEF C!FindVariants, ServedTo, c
  <2>3. had \in SUBSET Variant /\ ~Over(c) /\ c.found = {}
    BY <1>2, <2>1 DEF Over, Sound
  <2>4. /\ Steps(calls, calls', i) /\ d.at = "found" /\ d.found = had
        /\ d.kind = c.kind /\ d.who = c.who /\ d.ids = c.ids
    <3> HIDE DEF had
    <3> QED BY <1>4, <2>2, <2>3 DEF C!Places
  <2>5. Sound(d, cart', inStock)
    BY <1>2, <2>1, <2>3, <2>4 DEF Sound, Covers
  <2>6. Unwritten(d) /\ Unwritten(c) /\ ~Stores(d)
    BY <2>1, <2>4 DEF Unwritten, Writers, Stores
  <2> QED BY <2>1, <2>4, <2>5, <2>6 DEF c, d
<1>7. CASE C!UpsertCart(i)
  <2>1. /\ \/ c.kind \in {"put", "push", "prepare"} /\ c.at = "found"
           \/ c.kind = "delete" /\ c.at = "sent"
        /\ Turn(calls, i) /\ C!Move(i, "written")
        /\ cart' = [cart EXCEPT ![c.who] = [ids |-> c.found, old |-> FALSE]]
    BY <1>3, <1>7 DEF C!UpsertCart, c
  <2>2. /\ Steps(calls, calls', i) /\ d.at = "written" /\ d.found = c.found
        /\ d.kind = c.kind /\ d.who = c.who /\ d.ids = c.ids
    BY <1>5, <2>1 DEF C!Places, Over
  <2>3. Covers(c.found, c.ids, inStock) /\ Unwritten(c) /\ (c.kind = "delete" => c.ids = {})
    BY <1>2, <2>1 DEF Sound, Covers, Unwritten, Writers
  <2>4. cart'[c.who].ids = c.found
    BY <1>2, <2>1
  <2>5. Sound(d, cart', inStock)
    BY <2>2, <2>3, <2>4 DEF Sound
  <2>6. d.kind \notin {"get", "build"}
    BY <2>1, <2>2
  <2> QED BY <2>1, <2>2, <2>3, <2>5, <2>6 DEF c, d
<1>8. CASE C!ReadBack(i)
  <2>1. /\ c.kind \in Writers /\ c.at = "written" /\ Turn(calls, i) /\ cart' = cart
    BY <1>3, <1>8 DEF C!ReadBack, Writers
  <2>2. cart[c.who] = C!NoCart \/ cart[c.who].ids = c.found
    BY <1>2, <2>1 DEF Sound
  <2>3. ~Over(c) /\ ~Unwritten(c) /\ (Stores(d) => Stores(c))
    BY <2>1 DEF Over, Unwritten, Stores
  <2>4. Covers(c.found, c.ids, inStock) /\ (c.kind = "delete" => c.ids = {}) /\ c.kind \notin {"get", "build"}
    BY <1>2, <2>1 DEF Sound, Writers
  <2>5. CASE cart[c.who] = C!NoCart
    <3>1. C!Move(i, "failed")
      BY <1>8, <2>5 DEF C!ReadBack, c
    <3>2. /\ Steps(calls, calls', i) /\ d.at = "failed"
          /\ d.kind = c.kind /\ d.who = c.who /\ d.ids = c.ids
      BY <1>5, <2>3, <3>1 DEF C!Places
    <3>3. Sound(d, cart', inStock) /\ ~Unwritten(d)
      BY <2>4, <3>2 DEF Sound, Unwritten
    <3> QED BY <2>1, <2>3, <2>4, <3>2, <3>3 DEF c, d
  <2>6. CASE cart[c.who] # C!NoCart
    <3> DEFINE had == c.found \cap cart[c.who].ids
    <3>1. calls' = ServedTo(calls, i, had, "answered")
      BY <1>8, <2>6 DEF C!ReadBack, ServedTo, c
    <3>2. had = c.found /\ had \in SUBSET Variant
      BY <1>2, <2>2, <2>6
    <3> HIDE DEF had
    <3>3. /\ Steps(calls, calls', i) /\ d.at = "answered" /\ d.found = had
          /\ d.kind = c.kind /\ d.who = c.who /\ d.ids = c.ids
      BY <1>4, <2>3, <3>1, <3>2 DEF C!Places
    <3>4. Sound(d, cart', inStock) /\ ~Unwritten(d)
      BY <2>4, <3>2, <3>3 DEF Sound, Unwritten
    <3> QED BY <2>1, <2>3, <2>4, <3>3, <3>4 DEF c, d
  <2> QED BY <2>5, <2>6
<1>9. CASE C!GetCart(i) \/ C!BuildLinks(i)
  <2> DEFINE had == C!StoredItems(c.who)
             place == IF c.kind = "build" /\ had = {} THEN "failed" ELSE "answered"
  <2>1. c.kind \in {"get", "build"} /\ c.at \in {"sent", "counted"} /\ Turn(calls, i) /\ cart' = cart
    BY <1>3, <1>9 DEF C!GetCart, C!BuildLinks
  <2>2. calls' = ServedTo(calls, i, had, place)
    <3>1. CASE C!GetCart(i)
      <4>1. c.kind = "get"
        BY <1>3, <3>1 DEF C!GetCart
      <4> QED BY <3>1, <4>1 DEF C!GetCart, ServedTo, c
    <3>2. CASE C!BuildLinks(i)
      <4>1. c.kind = "build"
        BY <1>3, <3>2 DEF C!BuildLinks
      <4> QED BY <3>2, <4>1 DEF C!BuildLinks, ServedTo, c
    <3> QED BY <1>9, <3>1, <3>2
  <2>3. had \in SUBSET Variant /\ ~Over(c) /\ place \in C!Places /\ place \in {"failed", "answered"}
        /\ (place = "failed" => c.kind = "build")
        /\ (c.kind = "build" /\ place = "answered" => had # {})
    BY <1>2, <2>1 DEF Over, C!StoredItems, C!Places
  <2>4. /\ Steps(calls, calls', i) /\ d.at = place /\ d.found = had
        /\ d.kind = c.kind /\ d.who = c.who /\ d.ids = c.ids
    <3> HIDE DEF had, place
    <3> QED BY <1>4, <2>2, <2>3
  <2>5. d.found = C!StoredItems(d.who)
    BY <2>4
  <2> HIDE DEF had, place
  <2>6. Sound(d, cart', inStock)
    BY <2>1, <2>3, <2>4 DEF Sound, Writers
  <2>7. ~Unwritten(d) /\ ~Unwritten(c) /\ (d.kind # "get" /\ Stores(d) => Stores(c))
    BY <2>1, <2>4 DEF Unwritten, Writers, Stores
  <2> QED BY <2>1, <2>3, <2>4, <2>5, <2>6, <2>7 DEF c, d
<1>10. CASE C!Count(i) \/ C!SetExpiry(i)
  <2>1. c.kind = "build" /\ c.at \in {"sent", "first"} /\ Turn(calls, i) /\ cart' = cart
    BY <1>3, <1>10 DEF C!Count, C!SetExpiry
  <2>2. \E place \in {"first", "failed", "counted"} : C!Move(i, place)
    BY <1>10 DEF C!Count, C!SetExpiry
  <2>3. PICK place \in {"first", "failed", "counted"} : C!Move(i, place)
    BY <2>2
  <2>4. /\ Steps(calls, calls', i) /\ d.at = place
        /\ d.kind = c.kind /\ d.who = c.who /\ d.ids = c.ids
    BY <1>5, <2>1, <2>3 DEF C!Places, Over
  <2>5. Sound(d, cart', inStock)
    BY <2>1, <2>4 DEF Sound, Writers
  <2>6. ~Unwritten(d) /\ ~Unwritten(c) /\ Stores(c)
    BY <2>1, <2>4 DEF Unwritten, Writers, Stores
  <2> QED BY <2>1, <2>4, <2>5, <2>6 DEF c, d
<1> QED BY <1>6, <1>7, <1>8, <1>9, <1>10 DEF C!Serve

LEMMA TabServed ==
    ASSUME CartsInv, NEW i \in C!Indices, C!Serve(i), UNCHANGED <<cartItems, page, me, inStock>>
    PROVE  CartTab'
<1> DEFINE c == calls[i]
           d == calls'[i]
<1>1. ServeFact(i)
  BY ServeDoes
<1>2. /\ Steps(calls, calls', i) /\ Turn(calls, i) /\ Sound(d, cart', inStock)
      /\ CallsOK(calls, me, cart, inStock) /\ PageCalls(calls, me, cartItems, page.open, cart, inStock)
  BY <1>1 DEF ServeFact, CartsInv, CartTab, TabOK
<1>3. CallsOK(calls', me, cart', inStock)
  BY <1>2, CallServed
<1>4. i \in 1 .. Len(calls) /\ d.kind = c.kind /\ d.who = c.who /\ (d.live <=> c.live) /\ c.who \in Principal
  <2>1. c \in C!Calls /\ d.kind = c.kind /\ d.who = c.who /\ (d.live <=> c.live) /\ i \in 1 .. Len(calls)
    BY <1>2 DEF Steps, CallsOK
  <2> QED BY <2>1 DEF C!Calls
<1>5. CASE /\ Unwritten(c) /\ d.at = "written" /\ Covers(c.found, c.ids, inStock)
           /\ cart' = [cart EXCEPT ![c.who] = [ids |-> c.found, old |-> FALSE]]
  <2>1. cart'[c.who].ids = c.found /\ (c.who # me => cart'[me] = cart[me])
    BY <1>4, <1>5 DEF CartsInv, CartsRest
  <2>2. PageCalls(calls', me, cartItems, page.open, cart', inStock)
    <3> HIDE DEF d
    <3> QED BY <1>2, <1>5, <2>1, PageUpsert, ZenonT(60) DEF d
  <2> QED BY <1>3, <2>2 DEF CartTab, TabOK, CartsInv
<1>6. CASE /\ cart' = cart /\ (Unwritten(d) <=> Unwritten(c))
           /\ d.kind # "get" /\ Stores(d) => Stores(c)
  <2>1. Asks(d) /\ Stores(d) => Stores(c)
    BY <1>6 DEF Asks
  <2>2. ASSUME Asks(d), d.kind = "build", d.at = "answered"
        PROVE  Covers(d.found, cartItems, inStock)
    <3>1. Asks(c) /\ Stores(c) /\ c.who = me
      BY <1>2, <1>4, <2>2 DEF Asks, Stores, CallsOK
    <3>2. cart[me] = C!NoCart \/ Covers(cart[me].ids, cartItems, inStock)
      BY <1>2, <1>4, <3>1 DEF PageCalls
    <3>3. d.found = C!StoredItems(me)
      BY <1>1, <1>4, <2>2, <3>1 DEF ServeFact
    <3>4. CASE cart[me] # C!NoCart
      BY <3>2, <3>3, <3>4, <1>6 DEF C!StoredItems, Covers
    <3>5. CASE cart[me] = C!NoCart
      <4>1. d.found # {}
        BY <1>1, <2>2 DEF ServeFact
      <4> QED BY <3>3, <3>5, <4>1 DEF C!StoredItems
    <3> QED BY <3>4, <3>5
  <2>3. PageCalls(calls', me, cartItems, page.open, cart, inStock)
    BY <1>2, <1>6, <2>1, <2>2, PageServed
  <2> QED BY <1>3, <1>6, <2>3 DEF CartTab, TabOK, CartsInv
<1> QED BY <1>1, <1>5, <1>6 DEF ServeFact

LEMMA TabFacts ==
    ASSUME CartsInv
    PROVE  /\ calls \in Seq(C!Calls) /\ C!Indices = 1 .. Len(calls) /\ Len(calls) \in Nat
           /\ CallsOK(calls, me, cart, inStock) /\ me \in Principal
           /\ PageCalls(calls, me, cartItems, page.open, cart, inStock)
           /\ PageType(page) /\ PageOK(cartItems, page, inStock) /\ cartItems \subseteq Variant
           /\ version \in Nat
           /\ page.open \/ NoAsks(calls)
<1>1. /\ CallsOK(calls, me, cart, inStock) /\ me \in Principal /\ version \in Nat
      /\ PageCalls(calls, me, cartItems, page.open, cart, inStock)
      /\ PageType(page) /\ PageOK(cartItems, page, inStock) /\ cartItems \subseteq Variant
  BY DEF CartsInv, CartsRest, CartTab, TabOK
<1>2. calls \in Seq(C!Calls) /\ C!Indices = 1 .. Len(calls) /\ Len(calls) \in Nat
  BY <1>1 DEF CallsOK, C!Indices
<1>3. page.open \/ NoAsks(calls)
  BY <1>1 DEF PageCalls, NoAsks
<1> QED BY <1>1, <1>2, <1>3

\* What add, remove and clear have in common.
Alters(new, kind) ==
    /\ new \subseteq Variant /\ (new # cartItems \/ cartItems = {})
    /\ kind \in {"put", "delete"} /\ (kind = "delete" => new = {})
    /\ version' = version + 1
    /\ C!Shown(new, Append(calls, C!Call(kind, new, version + 1)))
    /\ C!Change

LEMMA ChangeDoes ==
    ASSUME CartsInv, (\E new \in SUBSET Variant : C!AddMany(new)) \/ (\E x \in Variant : C!RemoveItem(x)) \/ C!Clear
    PROVE  \E new \in SUBSET Variant, kind \in {"put", "delete"} : Alters(new, kind)
<1>1. cartItems \subseteq Variant
  BY TabFacts
<1>2. ASSUME NEW new \in SUBSET Variant, C!AddMany(new) PROVE Alters(cartItems \cup new, "put")
  BY <1>1, <1>2 DEF C!AddMany, Alters
<1>3. ASSUME NEW x \in Variant, C!RemoveItem(x) PROVE Alters(cartItems \ {x}, "put")
  BY <1>1, <1>3 DEF C!RemoveItem, Alters
<1>4. ASSUME C!Clear PROVE Alters({}, "delete")
  BY <1>4 DEF C!Clear, Alters
<1>5. \A new \in SUBSET Variant : cartItems \cup new \in SUBSET Variant
  BY <1>1
<1>6. \A x \in Variant : cartItems \ {x} \in SUBSET Variant
  BY <1>1
<1>7. CASE \E new \in SUBSET Variant : C!AddMany(new)
  <2>1. PICK new \in SUBSET Variant : C!AddMany(new)
    BY <1>7
  <2> QED BY <1>2, <1>5, <2>1
<1>8. CASE \E x \in Variant : C!RemoveItem(x)
  <2>1. PICK x \in Variant : C!RemoveItem(x)
    BY <1>8
  <2> QED BY <1>3, <1>6, <2>1
<1>9. CASE C!Clear
  BY <1>4, <1>9
<1> QED BY <1>7, <1>8, <1>9

LEMMA TabAltered ==
    ASSUME CartsInv, NEW new, NEW kind, Alters(new, kind)
    PROVE  CartTab'
<1> DEFINE c == C!Call(kind, new, version + 1)
           cs == Append(calls, c)
<1>1. /\ Fresh(c, me) /\ c \in C!Calls /\ c.kind = kind /\ c.ids = new /\ c.at = "sent"
  BY TabFacts, FreshCall DEF Alters, C!Kinds
<1>2. /\ new \in SUBSET Variant /\ C!Shown(new, cs) /\ (new # cartItems \/ cartItems = {})
      /\ kind \in {"put", "delete"} /\ UNCHANGED <<me, cart, inStock>>
  BY DEF Alters, C!Change
<1> HIDE DEF c
<1>3. CallsOK(cs, me, cart, inStock)
  BY <1>1, TabFacts, CallSent
<1>4. ~Asks(c)
  BY <1>1, <1>2 DEF Asks
<1>5. NoAsks(calls) => NoAsks(cs)
  BY <1>1, <1>4, TabFacts, AppendFacts DEF NoAsks
<1>6. new = cartItems => NoAsks(calls)
  BY <1>2, TabFacts DEF PageOK
<1>7. page.open \/ NoAsks(cs)
  BY <1>5, TabFacts
<1>8. new = cartItems => PageCalls(cs, me, cartItems, page.open, cart, inStock)
  BY <1>5, <1>6, PageNoAsks
<1> HIDE DEF cs
<1>9. TabOK(cartItems', page', calls', me, cart, inStock)
  BY <1>2, <1>3, <1>7, <1>8, TabFacts, ShownStep
<1> QED BY <1>2, <1>9 DEF CartTab

LEMMA TabAsked ==
    ASSUME CartsInv, C!OpenCheckout \/ C!Retry
    PROVE  CartTab'
<1> DEFINE c == C!Call("prepare", cartItems, 0)
           cs == IF C!OpenCheckout THEN calls ELSE C!Aborted(calls)
<1>1. /\ Fresh(c, me) /\ c \in C!Calls /\ c.kind = "prepare" /\ c.ids = cartItems /\ c.at = "sent"
  BY TabFacts, FreshCall DEF C!Kinds
<1>2. CallsOK(cs, me, cart, inStock) /\ NoAsks(cs) /\ cs \in Seq(C!Calls)
  <2>1. CASE C!OpenCheckout
    BY <2>1, TabFacts DEF C!OpenCheckout
  <2>2. CASE ~C!OpenCheckout
    BY <2>2, TabFacts, CallsAborted, PageAborted, AbortFacts
  <2> QED BY <2>1, <2>2
<1>3. calls' = Append(cs, c) /\ UNCHANGED <<cartItems, me, cart, inStock>>
  <2>1. CASE C!OpenCheckout
    BY <2>1 DEF C!OpenCheckout
  <2>2. CASE ~C!OpenCheckout
    BY <2>2 DEF C!Retry
  <2> QED BY <2>1, <2>2
<1>4. PageType(page') /\ PageOK(cartItems, page', inStock) /\ page'.open = TRUE
  <2>1. PageType(page) /\ PageOK(cartItems, page, inStock) /\ cartItems \subseteq Variant
    BY TabFacts
  <2>2. CASE C!OpenCheckout
    <3> DEFINE pg == [open |-> TRUE, asked |-> cartItems, state |-> "building", links |-> {}]
    <3>1. page' = pg /\ cartItems # {}
      BY <2>2 DEF C!OpenCheckout
    <3>2. PageType(pg) /\ PageOK(cartItems, pg, inStock) /\ pg.open = TRUE
      BY <2>1, <3>1 DEF PageType, PageOK
    <3> HIDE DEF pg
    <3> QED BY <3>1, <3>2
  <2>3. CASE C!Retry
    <3> DEFINE pg == [page EXCEPT !.state = "building", !.asked = cartItems]
    <3>1. page' = pg /\ page.open = TRUE /\ cartItems # {}
      BY <2>1, <2>3 DEF C!Retry, PageOK, PageType
    <3>2. PageType(pg) /\ PageOK(cartItems, pg, inStock) /\ pg.open = TRUE
      BY <2>1, <3>1 DEF PageType, PageOK
    <3> HIDE DEF pg
    <3> QED BY <3>1, <3>2
  <2> QED BY <2>2, <2>3
<1> HIDE DEF c, cs
<1>5. CallsOK(Append(cs, c), me, cart, inStock)
  BY <1>1, <1>2, CallSent
<1>6. PageCalls(Append(cs, c), me, cartItems, TRUE, cart, inStock)
  BY <1>1, <1>2, PageAsks
<1> QED BY <1>3, <1>4, <1>5, <1>6, TabFacts DEF CartTab, TabOK

LEMMA TabReloaded ==
    ASSUME CartsInv, NEW p \in Principal, C!Reload(p)
    PROVE  /\ CartTab'
           /\ calls' \in Seq(C!Calls) /\ Len(calls') = Len(calls) + 1 /\ me' = p
           /\ \A i \in 1 .. Len(calls) :
                /\ ~calls'[i].live /\ calls'[i].kind = calls[i].kind /\ calls'[i].who = calls[i].who
                /\ calls'[i].ids = calls[i].ids
                /\ calls'[i].at = calls[i].at /\ calls'[i].found = calls[i].found
           /\ calls'[Len(calls) + 1].kind = "get" /\ calls'[Len(calls) + 1].at = "sent"
           /\ calls'[Len(calls) + 1].who = p /\ calls'[Len(calls) + 1].ids = {}
<1> DEFINE cs == [i \in C!Indices |-> [calls[i] EXCEPT !.live = FALSE]]
           c == [C!Call("get", {}, 0) EXCEPT !.who = p]
           n == Len(calls)
<1>1. /\ calls' = Append(cs, c) /\ me' = p /\ page' = C!Closed
      /\ UNCHANGED <<cartItems, cart, inStock>>
  BY DEF C!Reload
<1>2. c \in C!Calls /\ Fresh(c, p) /\ c.kind = "get" /\ c.at = "sent" /\ c.who = p /\ c.ids = {}
  BY TabFacts DEF C!Call, C!Calls, Fresh, C!Kinds, C!Places
<1>3. /\ cs \in Seq(C!Calls) /\ Len(cs) = n /\ n \in Nat
      /\ \A i \in 1 .. n : /\ ~cs[i].live /\ cs[i].kind = calls[i].kind /\ cs[i].who = calls[i].who
                           /\ cs[i].ids = calls[i].ids
                           /\ cs[i].at = calls[i].at /\ cs[i].found = calls[i].found
  <2>1. calls \in Seq(C!Calls) /\ C!Indices = 1 .. n /\ n \in Nat /\ \A i \in 1 .. n : calls[i] \in C!Calls
    BY TabFacts
  <2> DEFINE dead(x) == [x EXCEPT !.live = FALSE]
  <2>2. \A x \in C!Calls : /\ dead(x) \in C!Calls /\ ~dead(x).live /\ dead(x).kind = x.kind
                           /\ dead(x).who = x.who /\ dead(x).ids = x.ids /\ dead(x).at = x.at
                           /\ dead(x).found = x.found
    BY DEF C!Calls
  <2>3. cs = [i \in 1 .. n |-> dead(calls[i])]
    BY <2>1
  <2> HIDE DEF dead, cs, n
  <2>4. cs \in Seq(C!Calls) /\ Len(cs) = n
    BY <2>1, <2>2, <2>3
  <2>5. \A i \in 1 .. n : cs[i] = dead(calls[i])
    BY <2>3
  <2> QED BY <2>1, <2>2, <2>4, <2>5
<1> HIDE DEF cs, c
<1>4. CallsOK(cs, p, cart, inStock) /\ NoAsks(cs)
  <2>1. CallsOK(calls, me, cart, inStock)
    BY TabFacts
  <2>2. \A i \in 1 .. n : (Sound(cs[i], cart, inStock) <=> Sound(calls[i], cart, inStock))
                          /\ (Over(cs[i]) <=> Over(calls[i]))
    BY <1>3 DEF Sound, Over
  <2> QED BY <1>3, <2>1, <2>2 DEF CallsOK, NoAsks, Asks
<1>5. CallsOK(calls', p, cart, inStock)
  BY <1>1, <1>2, <1>4, CallSent
<1>6. ~Asks(c)
  BY <1>2 DEF Asks
<1>7. PageCalls(calls', p, cartItems, page'.open, cart, inStock)
  BY <1>1, <1>2, <1>3, <1>4, <1>6, PageNoAsks, PageSent
<1>8. PageType(page') /\ PageOK(cartItems, page', inStock)
  BY <1>1 DEF PageType, PageOK, C!Closed
<1>9. CartTab'
  BY <1>1, <1>5, <1>7, <1>8, TabFacts DEF CartTab, TabOK
<1>10. /\ calls' \in Seq(C!Calls) /\ Len(calls') = n + 1 /\ calls'[n + 1] = c
       /\ \A i \in 1 .. n : calls'[i] = cs[i]
  BY <1>1, <1>2, <1>3, AppendFacts
<1> QED BY <1>1, <1>2, <1>3, <1>9, <1>10

\* An answer of request i is taken.
LEMMA TabAnswered ==
    ASSUME CartsInv, NEW i \in C!Indices, C!Answer(i)
    PROVE  CartTab'
<1> DEFINE c == calls[i]
           cs == C!Without(i)
<1>1. /\ calls \in Seq(C!Calls) /\ i \in 1 .. Len(calls) /\ c \in C!Calls
      /\ c.found \subseteq Variant /\ c.ids \subseteq Variant /\ c.who \in Principal
      /\ (c.live => c.who = me) /\ Sound(c, cart, inStock)
  <2>1. calls \in Seq(C!Calls) /\ i \in 1 .. Len(calls) /\ CallsOK(calls, me, cart, inStock)
    BY TabFacts
  <2>2. c \in C!Calls /\ (c.live => c.who = me) /\ Sound(c, cart, inStock)
    BY <2>1 DEF CallsOK
  <2> QED BY <2>1, <2>2 DEF C!Calls
<1>2. UNCHANGED <<me, cart, inStock>>
  BY DEF C!Answer, C!Ignore, C!Persisted, C!Hydrated, C!Pushed, C!Prepared, C!Built, C!CheckoutFails, C!Received
<1>3. /\ cs \in Seq(C!Calls) /\ CallsOK(cs, me, cart, inStock)
      /\ PageCalls(cs, me, cartItems, page.open, cart, inStock)
  BY <1>1, TabFacts, CallGone, PageGone, CartRemoval DEF C!Without
<1>4. page.open \/ NoAsks(cs)
  BY <1>3 DEF PageCalls, NoAsks
<1> HIDE DEF c, cs
<1>5. ASSUME NEW new \in SUBSET Variant, C!Shown(new, cs)
      PROVE  CartTab'
  <2>1. TabOK(cartItems', page', calls', me, cart, inStock)
    BY <1>3, <1>4, <1>5, TabFacts, ShownStep
  <2> QED BY <1>2, <2>1 DEF CartTab
<1>6. ASSUME calls' = cs, UNCHANGED <<cartItems, page>>
      PROVE  CartTab'
  BY <1>2, <1>3, <1>6, TabFacts DEF CartTab, TabOK
<1>7. CASE C!Ignore(i)
  BY <1>6, <1>7 DEF C!Ignore, cs
<1>8. CASE C!Persisted(i) \/ C!Pushed(i) \/ (C!Hydrated(i) /\ c.found # {})
  <2>1. C!Shown(c.found, cs) \/ (calls' = cs /\ UNCHANGED <<cartItems, page>>)
    BY <1>8 DEF C!Persisted, C!Pushed, C!Hydrated, c, cs
  <2> QED BY <1>1, <1>5, <1>6, <2>1
<1>9. CASE C!Hydrated(i) /\ c.found = {}
  <2> DEFINE p == C!Call("push", cartItems, 0)
  <2>1. calls' = (IF cartItems = {} THEN cs ELSE Append(cs, p)) /\ UNCHANGED <<cartItems, page>>
    BY <1>9 DEF C!Hydrated, c, cs
  <2>2. Fresh(p, me) /\ p \in C!Calls /\ p.kind = "push" /\ p.who = me /\ p.ids = cartItems
    BY TabFacts, FreshCall DEF C!Kinds
  <2> HIDE DEF p
  <2>3. CallsOK(Append(cs, p), me, cart, inStock)
    BY <1>3, <2>2, CallSent
  <2>4. PageCalls(Append(cs, p), me, cartItems, page.open, cart, inStock)
    BY <1>3, <2>2, PageSent DEF Asks
  <2> QED BY <1>2, <1>3, <1>6, <2>1, <2>3, <2>4, TabFacts DEF CartTab, TabOK
<1>10. CASE C!Prepared(i)
  <2> DEFINE b == [C!Call("build", c.ids, 0) EXCEPT !.who = c.who]
  <2>1. /\ calls' = Append(cs, b) /\ UNCHANGED <<cartItems, page>>
        /\ c.kind = "prepare" /\ c.at = "answered" /\ c.live
    BY <1>10 DEF C!Prepared, C!Arrives, c, cs
  <2>2. Fresh(b, me) /\ b \in C!Calls /\ b.kind = "build" /\ b.who = me /\ b.ids = c.ids /\ b.at = "sent"
    BY <1>1, <2>1 DEF C!Call, C!Calls, Fresh, C!Kinds, C!Places
  <2> HIDE DEF b
  <2>3. CallsOK(Append(cs, b), me, cart, inStock)
    BY <1>3, <2>2, CallSent
  <2>4. /\ page.open /\ c.ids = cartItems
        /\ \A j \in 1 .. Len(calls) : Unwritten(calls[j]) /\ i < j => calls[j].who = me /\ calls[j].ids = cartItems
        /\ cart[me] = C!NoCart \/ Covers(cart[me].ids, cartItems, inStock)
    BY <1>1, <2>1, TabFacts DEF PageCalls, Asks, Stores, c
  <2>5. \A j \in 1 .. Len(calls) : Unwritten(calls[j]) => calls[j].who = me /\ calls[j].ids = cartItems
    <3> SUFFICES ASSUME NEW j \in 1 .. Len(calls), Unwritten(calls[j])
                 PROVE  calls[j].who = me /\ calls[j].ids = cartItems
      OBVIOUS
    <3>1. CASE i < j
      BY <2>4, <3>1
    <3>2. CASE j < i
      <4>1. Over(calls[j])
        BY <1>1, <2>1, <3>2, TabFacts DEF CallsOK, c
      <4> QED BY <4>1 DEF Over, Unwritten
    <3>3. CASE i = j
      BY <2>1, <3>3 DEF Unwritten, c
    <3> QED BY <1>1, <3>1, <3>2, <3>3
  <2> DEFINE n == Len(cs)
             r == Append(cs, b)
  <2>6. \A j \in 1 .. n : Unwritten(cs[j]) => cs[j].who = me /\ cs[j].ids = cartItems
    <3>1. /\ Len(cs) = Len(calls) - 1 /\ Len(calls) \in Nat
          /\ \A j \in 1 .. n : cs[j] = calls[Moved(i, j)] /\ Moved(i, j) \in 1 .. Len(calls)
      <4>1. calls \in Seq(C!Calls) /\ Len(calls) \in Nat /\ cs = C!RemoveAt(calls, i)
        BY TabFacts DEF cs, C!Without
      <4>2. Len(cs) = Len(calls) - 1 /\ \A j \in 1 .. n : cs[j] = calls[Moved(i, j)]
        BY <1>1, <4>1, CartRemoval
      <4> QED BY <1>1, <4>1, <4>2, MovedFacts
    <3> QED BY <2>5, <3>1
  <2>7. /\ Len(r) = n + 1 /\ n \in Nat
        /\ \A j \in 1 .. n : r[j] = cs[j]
        /\ r[n + 1] = b
        /\ \A j \in 1 .. n + 1 : j \in 1 .. n \/ j = n + 1
    BY <1>3, <2>2, AppendFacts
  <2> HIDE DEF r, n
  <2>8. ~Unwritten(b)
    BY <2>2 DEF Unwritten, Writers
  <2>9. \A j \in 1 .. n + 1 : Unwritten(r[j]) => r[j].who = me /\ r[j].ids = cartItems
    BY <2>6, <2>7, <2>8
  <2>10. PageCalls(r, me, cartItems, page.open, cart, inStock)
    <3> SUFFICES ASSUME NEW a \in 1 .. n + 1, Asks(r[a])
                 PROVE  /\ page.open /\ r[a].ids = cartItems
                        /\ cart[me] = C!NoCart \/ Covers(cart[me].ids, cartItems, inStock)
                        /\ r[a].kind = "build" /\ r[a].at = "answered" => Covers(r[a].found, cartItems, inStock)
      BY <2>7, <2>9 DEF PageCalls
    <3>1. CASE a = n + 1
      BY <2>2, <2>4, <2>7, <3>1
    <3>2. CASE a \in 1 .. n
      BY <1>3, <2>4, <2>7, <3>2 DEF PageCalls, n
    <3> QED BY <2>7, <3>1, <3>2
  <2> QED BY <1>2, <2>1, <2>3, <2>10, TabFacts DEF CartTab, TabOK, r
<1>11. CASE C!Built(i)
  <2>1. /\ calls' = cs /\ UNCHANGED cartItems /\ c.kind = "build" /\ c.at = "answered" /\ c.live
        /\ page' = IF c.ids = cartItems THEN [page EXCEPT !.state = "ready", !.links = c.found]
                                        ELSE [page EXCEPT !.state = "idle"]
    BY <1>11 DEF C!Built, C!Arrives, c, cs
  <2>2. page.open /\ c.ids = cartItems /\ Covers(c.found, cartItems, inStock)
    BY <1>1, <2>1, TabFacts DEF PageCalls, Asks, c
  <2> DEFINE pg == [page EXCEPT !.state = "ready", !.links = c.found]
  <2>3. PageType(pg) /\ PageOK(cartItems, pg, inStock) /\ pg.open = page.open
    BY <1>1, <2>2, TabFacts DEF PageType, PageOK
  <2>4. page' = pg
    BY <2>1, <2>2
  <2> HIDE DEF pg
  <2> QED BY <1>2, <1>3, <2>1, <2>3, <2>4, TabFacts DEF CartTab, TabOK
<1>12. CASE C!CheckoutFails(i)
  <2> DEFINE pg == [page EXCEPT !.state = "error"]
  <2>1. page' = pg /\ calls' = cs /\ UNCHANGED cartItems /\ c.live /\ c.kind \in {"prepare", "build"}
    BY <1>12 DEF C!CheckoutFails, c, cs
  <2>2. page.open
    BY <1>1, <2>1, TabFacts DEF PageCalls, Asks, c
  <2>3. PageType(pg) /\ PageOK(cartItems, pg, inStock) /\ pg.open = page.open
    BY <2>2, TabFacts DEF PageType, PageOK
  <2> HIDE DEF pg
  <2> QED BY <1>2, <1>3, <2>1, <2>3, TabFacts DEF CartTab, TabOK
<1> QED BY <1>7, <1>8, <1>9, <1>10, <1>11, <1>12 DEF C!Answer

\* Stock, age, deletion and the user's patience.
LEMMA TabWorld ==
    ASSUME CartsInv,
           \/ \E i \in C!Indices : C!Break(i)
           \/ \E x \in Variant : C!SellOut(x)
           \/ \E p \in Principal : C!Age(p) \/ C!Register(p)
           \/ C!TimeOut \/ C!WindowEnds \/ C!SelectCandidates \/ C!ExcludeRegistered \/ C!DeleteCarts
    PROVE  CartTab'
<1>1. CASE \E i \in C!Indices : C!Break(i)
  <2>1. PICK i \in C!Indices : C!Break(i)
    BY <1>1
  <2>2. /\ UNCHANGED <<cartItems, page, me, cart, inStock>>
        /\ calls[i].at \in {"sent", "found", "written", "first", "counted"}
        /\ calls' = [calls EXCEPT ![i].at = "failed"]
    BY <2>1 DEF C!Break, C!Move, C!tab
  <2>3. i \in 1 .. Len(calls) /\ calls[i] \in C!Calls /\ ~Over(calls[i]) /\ calls \in Seq(C!Calls)
        /\ calls[i].found \in SUBSET Variant
    <3>1. i \in 1 .. Len(calls) /\ calls[i] \in C!Calls /\ ~Over(calls[i]) /\ calls \in Seq(C!Calls)
      BY <2>2, TabFacts DEF Over
    <3> QED BY <3>1 DEF C!Calls
  <2>4. calls' = ServedTo(calls, i, calls[i].found, "failed")
    <3>1. [calls[i] EXCEPT !.found = calls[i].found, !.at = "failed"] = [calls[i] EXCEPT !.at = "failed"]
      BY <2>3 DEF C!Calls
    <3> QED BY <2>2, <3>1 DEF ServedTo
  <2>5. Steps(calls, calls', i) /\ calls'[i].at = "failed"
    BY <2>3, <2>4, StepFacts DEF C!Places
  <2>6. CallsOK(calls', me, cart, inStock)
    BY <2>5, TabFacts, CallFails
  <2>7. calls'[i].kind = calls[i].kind /\ ~Unwritten(calls'[i]) /\ (Stores(calls'[i]) => Stores(calls[i]))
    BY <2>5 DEF Steps, Unwritten, Stores
  <2>8. PageCalls(calls', me, cartItems, page.open, cart, inStock)
    BY <2>5, <2>7, TabFacts, PageServed
  <2> QED BY <2>2, <2>6, <2>8, TabFacts DEF CartTab, TabOK
<1>2. CASE C!TimeOut
  <2> DEFINE pg == [page EXCEPT !.state = "error"]
  <2>1. page' = pg /\ calls' = C!Aborted(calls) /\ UNCHANGED <<cartItems, me, cart, inStock>> /\ page.state = "building"
    BY <1>2 DEF C!TimeOut
  <2>2. page.open
    BY <2>1, TabFacts DEF PageType, C!Closed
  <2>3. PageType(pg) /\ PageOK(cartItems, pg, inStock)
    BY <2>2, TabFacts DEF PageType, PageOK
  <2> HIDE DEF pg
  <2> QED BY <2>1, <2>3, TabFacts, CallsAborted, PageAborted, PageNoAsks DEF CartTab, TabOK
<1>3. CASE \/ \E x \in Variant : C!SellOut(x)
           \/ \E p \in Principal : C!Age(p)
           \/ C!DeleteCarts
  <2>1. /\ UNCHANGED <<cartItems, page, me, calls>> /\ inStock' \subseteq inStock
        /\ \A p \in Principal : cart'[p] = C!NoCart \/ (cart[p] # C!NoCart /\ cart'[p].ids = cart[p].ids)
    <3>1. CASE \E x \in Variant : C!SellOut(x)
      BY <3>1 DEF C!SellOut, C!tab
    <3>2. CASE \E p \in Principal : C!Age(p)
      <4>1. cart \in [Principal -> C!Carts]
        BY DEF CartsInv, CartsRest
      <4>2. PICK q \in Principal : C!Age(q)
        BY <3>2
      <4>3. /\ cart[q] # C!NoCart /\ cart' = [cart EXCEPT ![q] = [cart[q] EXCEPT !.old = TRUE]]
            /\ UNCHANGED <<cartItems, page, me, calls, inStock>>
        BY <4>2 DEF C!Age, C!tab
      <4>4. cart[q] \in [ids : SUBSET Variant, old : BOOLEAN]
        BY <4>1, <4>3 DEF C!Carts
      <4>5. [cart[q] EXCEPT !.old = TRUE].ids = cart[q].ids
        BY <4>4
      <4>6. \A p \in Principal : cart'[p] = IF p = q THEN [cart[q] EXCEPT !.old = TRUE] ELSE cart[p]
        BY <4>1, <4>3
      <4> QED BY <4>3, <4>5, <4>6
    <3>3. CASE C!DeleteCarts
      BY <3>3 DEF C!DeleteCarts, C!CleanupServed, C!tab
    <3> QED BY <1>3, <3>1, <3>2, <3>3
  <2>2. CallsOK(calls, me, cart', inStock')
    BY <2>1, TabFacts, CallsLater
  <2>3. PageCalls(calls, me, cartItems, page.open, cart', inStock')
    BY <2>1, TabFacts, PageLater
  <2>4. PageOK(cartItems, page, inStock')
    BY <2>1, TabFacts DEF PageOK, Covers
  <2> QED BY <2>1, <2>2, <2>3, <2>4, TabFacts DEF CartTab, TabOK
<1>4. CASE \/ \E p \in Principal : C!Register(p)
           \/ C!WindowEnds \/ C!SelectCandidates \/ C!ExcludeRegistered
  <2>1. UNCHANGED <<cartItems, page, me, calls, cart, inStock>>
    BY <1>4 DEF C!Register, C!WindowEnds, C!SelectCandidates, C!ExcludeRegistered, C!CleanupServed, C!tab
  <2> QED BY <2>1 DEF CartsInv, CartTab
<1> QED BY <1>1, <1>2, <1>3, <1>4

LEMMA RestStep == CartsInv /\ [C!Next]_(C!vars) => CartsRest'
<1> SUFFICES ASSUME CartsInv, [C!Next]_(C!vars)
             PROVE  CartsRest'
  OBVIOUS
<1> USE DEF CartsRest
<1>1. CASE UNCHANGED C!vars
  BY <1>1 DEF C!vars, C!tab, CartsInv
<1>2. CASE (\E new \in SUBSET Variant : C!AddMany(new)) \/ (\E x \in Variant : C!RemoveItem(x)) \/ C!Clear
  <2>1. /\ UNCHANGED <<me, cart, inStock, hits, ttl, registered, cleanup, broken, cartEvents>>
        /\ changes < MaxChanges /\ changes' = changes + 1 /\ version' = version + 1
    BY <1>2 DEF C!AddMany, C!RemoveItem, C!Clear, C!Change
  <2> QED BY <2>1, ShopperAssumption DEF CartsInv, C!BoundsAssumption
<1>3. CASE C!OpenCheckout \/ C!Retry
  BY <1>3, ShopperAssumption, SMTT(60) DEF C!OpenCheckout, C!Retry, CartsInv, C!BoundsAssumption
<1>4. ASSUME NEW p \in Principal, C!Reload(p)
      PROVE  CartsRest'
  BY <1>4, ShopperAssumption DEF C!Reload, CartsInv, C!BoundsAssumption
<1>5. ASSUME NEW p \in Principal, C!Age(p) \/ C!Register(p)
      PROVE  CartsRest'
  <2>1. CASE C!Age(p)
    <3>1. cart[p] \in [ids : SUBSET Variant, old : BOOLEAN] /\ cart \in [Principal -> C!Carts]
      BY <2>1 DEF C!Age, CartsInv, C!Carts
    <3>2. [cart[p] EXCEPT !.old = TRUE] \in C!Carts
      BY <3>1 DEF C!Carts
    <3>3. cart' \in [Principal -> C!Carts]
      BY <2>1, <3>1, <3>2 DEF C!Age
    <3> QED BY <2>1, <3>3, ShopperAssumption DEF C!Age, C!Event, CartsInv, C!BoundsAssumption, C!tab
  <2>2. CASE C!Register(p)
    BY <2>2, ShopperAssumption DEF C!Register, C!Event, CartsInv, C!BoundsAssumption, C!tab
  <2> QED BY <1>5, <2>1, <2>2
<1>6. ASSUME NEW i \in C!Indices, C!Serve(i)
      PROVE  CartsRest'
  <2>1. UNCHANGED <<version, me, inStock, registered, cleanup, broken, changes, cartEvents>>
    BY <1>6 DEF C!Serve, C!FindVariants, C!UpsertCart, C!ReadBack, C!GetCart, C!Count, C!SetExpiry, C!BuildLinks,
                C!UnlimitedServed, C!Served, C!tab
  <2>2. hits' \in Nat /\ ttl' \in BOOLEAN
    <3>1. (UNCHANGED hits \/ hits' = hits + 1) /\ (UNCHANGED ttl \/ ttl' = (hits > 0))
      BY <1>6 DEF C!Serve, C!FindVariants, C!UpsertCart, C!ReadBack, C!GetCart, C!Count, C!SetExpiry, C!BuildLinks,
                  C!UnlimitedServed, C!Served
    <3>2. (hits > 0) \in BOOLEAN
      OBVIOUS
    <3>3. hits' \in Nat
      BY <3>1 DEF CartsInv
    <3>4. ttl' \in BOOLEAN
      <4> DEFINE h == (hits > 0)
      <4>1. UNCHANGED ttl \/ ttl' = h
        BY <3>1
      <4> HIDE DEF h
      <4> QED BY <4>1, <3>2 DEF CartsInv, h
    <3> QED BY <3>3, <3>4
  <2>3. cart' \in [Principal -> C!Carts]
    <3>1. calls[i] \in C!Calls
      BY TabFacts
    <3>2. [ids |-> calls[i].found, old |-> FALSE] \in C!Carts
      BY <3>1 DEF C!Calls, C!Carts
    <3> QED BY <1>6, <3>2, ServeDoes DEF ServeFact, CartsInv
  <2> QED BY <2>1, <2>2, <2>3 DEF CartsInv
<1>7. ASSUME NEW i \in C!Indices, C!Answer(i)
      PROVE  CartsRest'
  BY <1>7 DEF C!Answer, C!Ignore, C!Persisted, C!Hydrated, C!Pushed, C!Prepared, C!Built, C!CheckoutFails, C!Received, CartsInv
<1>8. ASSUME NEW i \in C!Indices, C!Break(i)
      PROVE  CartsRest'
  BY <1>8, ShopperAssumption DEF C!Break, C!Event, CartsInv, C!BoundsAssumption, C!tab
<1>9. ASSUME NEW x \in Variant, C!SellOut(x)
      PROVE  CartsRest'
  BY <1>9, ShopperAssumption DEF C!SellOut, C!Event, CartsInv, C!BoundsAssumption, C!tab
<1>10. CASE C!TimeOut \/ C!WindowEnds
  <2>1. CASE C!TimeOut
    BY <2>1, ShopperAssumption DEF C!TimeOut, C!Event, CartsInv, C!BoundsAssumption
  <2>2. CASE C!WindowEnds
    BY <2>2, ShopperAssumption DEF C!WindowEnds, CartsInv, C!BoundsAssumption, C!tab
  <2> QED BY <1>10, <2>1, <2>2
<1>11. CASE C!SelectCandidates \/ C!ExcludeRegistered
  <2> DEFINE type == [at : {"idle", "selected", "checked"}, doomed : SUBSET Principal,
                      spared : SUBSET Principal]
  <2>1. UNCHANGED <<version, me, cart, inStock, hits, ttl, registered, broken, changes, cartEvents>>
    BY <1>11 DEF C!SelectCandidates, C!ExcludeRegistered, C!CleanupServed, C!tab
  <2>2. registered \subseteq Principal /\ cleanup \in type
    BY DEF CartsInv
  <2>3. CASE C!SelectCandidates
    <3> DEFINE spared == (Principal \ C!Candidates) \cup registered
               next == [at |-> "selected", doomed |-> C!Candidates, spared |-> spared]
    <3>1. cleanup' = next
      BY <2>3 DEF C!SelectCandidates
    <3>2. next \in type
      BY <2>2 DEF C!Candidates
    <3> HIDE DEF next
    <3> QED BY <2>1, <3>1, <3>2 DEF CartsInv
  <2>4. CASE C!ExcludeRegistered
    <3> DEFINE next == [cleanup EXCEPT !.at = "checked", !.doomed = @ \ C!FindRegistered(@)]
    <3>1. cleanup' = next
      BY <2>4 DEF C!ExcludeRegistered
    <3>2. next \in type
      BY <2>2
    <3> HIDE DEF next
    <3> QED BY <2>1, <3>1, <3>2 DEF CartsInv
  <2> QED BY <1>11, <2>3, <2>4
<1>12. CASE C!DeleteCarts
  BY <1>12 DEF C!DeleteCarts, C!CleanupServed, CartsInv, C!tab, C!Carts, C!NoCleanup
<1> QED BY <1>1, <1>2, <1>3, <1>4, <1>5, <1>6, <1>7, <1>8, <1>9, <1>10, <1>11, <1>12 DEF C!Next

LEMMA CartsInit == C!Init => CartsInv
<1> SUFFICES ASSUME C!Init
             PROVE  CartsInv
  OBVIOUS
<1> DEFINE c == [kind |-> "get", who |-> me, version |-> 0, ids |-> {}, at |-> "sent",
                 found |-> {}, live |-> TRUE]
<1>1. /\ cartItems \in SUBSET Variant /\ version = 0 /\ me \in Principal /\ page = C!Closed
      /\ cart = StoredCarts /\ inStock = Variant /\ calls = <<c>>
      /\ hits = 0 /\ ttl = FALSE /\ registered = {} /\ cleanup = C!NoCleanup
      /\ broken = FALSE /\ changes = 0 /\ cartEvents = 0
  BY DEF C!Init
<1>2. c \in C!Calls /\ ~Asks(c) /\ c.who = me /\ c.at = "sent" /\ Sound(c, cart, inStock)
  BY <1>1 DEF C!Calls, C!Kinds, C!Places, Asks, Sound
<1>3. CartsRest
  <2>1. MaxChanges \in Nat /\ MaxEvents \in Nat
    BY ShopperAssumption DEF C!BoundsAssumption
  <2>2. C!Carts = {[ids |-> None, old |-> FALSE]} \cup [ids : SUBSET Variant, old : BOOLEAN]
    BY DEF C!Carts, C!NoCart
  <2>3. cart \in [Principal -> C!Carts]
    <3>1. StoredCarts \in [Principal -> C!Carts]
      BY <2>2, ShopperAssumption, Zenon DEF C!BoundsAssumption
    <3>2. cart = StoredCarts
      BY Zenon DEF C!Init
    <3> QED BY <3>1, <3>2
  <2>4. C!NoCleanup \in [at : {"idle", "selected", "checked"}, doomed : SUBSET Principal,
                        spared : SUBSET Principal]
    BY DEF C!NoCleanup
  <2>5. /\ version = 0 /\ me \in Principal /\ inStock = Variant /\ hits = 0 /\ ttl = FALSE
        /\ registered = {} /\ cleanup = C!NoCleanup /\ broken = FALSE /\ changes = 0 /\ cartEvents = 0
    BY <1>1
  <2>6. version \in 0 .. changes /\ changes \in 0 .. MaxChanges /\ cartEvents \in 0 .. MaxEvents /\ hits \in Nat
    BY <2>1, <2>5
  <2> QED BY <2>3, <2>4, <2>5, <2>6, Zenon DEF CartsRest
<1> HIDE DEF c
<1>4. calls \in Seq(C!Calls) /\ Len(calls) = 1 /\ calls[1] = c
  BY <1>1, <1>2
<1>5. CallsOK(calls, me, cart, inStock)
  BY <1>2, <1>4 DEF CallsOK
<1>6. PageCalls(calls, me, cartItems, page.open, cart, inStock)
  BY <1>2, <1>4, PageNoAsks DEF NoAsks
<1>7. PageType(page) /\ PageOK(cartItems, page, inStock)
  BY <1>1 DEF PageType, PageOK, C!Closed
<1> QED BY <1>1, <1>3, <1>5, <1>6, <1>7 DEF CartsInv, CartTab, TabOK

LEMMA CartsNext == CartsInv /\ [C!Next]_(C!vars) => CartsInv'
<1> SUFFICES ASSUME CartsInv, [C!Next]_(C!vars)
             PROVE  CartTab'
  BY RestStep DEF CartsInv
<1>1. CASE UNCHANGED C!vars
  BY <1>1 DEF C!vars, C!tab, CartsInv, CartTab
<1>2. CASE (\E new \in SUBSET Variant : C!AddMany(new)) \/ (\E x \in Variant : C!RemoveItem(x)) \/ C!Clear
  BY <1>2, ChangeDoes, TabAltered
<1>3. CASE C!OpenCheckout \/ C!Retry
  BY <1>3, TabAsked
<1>4. CASE \E p \in Principal : C!Reload(p)
  BY <1>4, TabReloaded
<1>5. ASSUME NEW i \in C!Indices, C!Serve(i)
      PROVE  CartTab'
  <2>1. UNCHANGED <<cartItems, page, me, inStock>>
    BY <1>5 DEF C!Serve, C!FindVariants, C!UpsertCart, C!ReadBack, C!GetCart, C!Count, C!SetExpiry, C!BuildLinks,
                C!UnlimitedServed, C!Served, C!tab
  <2> QED BY <1>5, <2>1, TabServed
<1>6. ASSUME NEW i \in C!Indices, C!Answer(i)
      PROVE  CartTab'
  BY <1>6, TabAnswered
<1>7. CASE \/ \E i \in C!Indices : C!Break(i)
           \/ \E x \in Variant : C!SellOut(x)
           \/ \E p \in Principal : C!Age(p) \/ C!Register(p)
           \/ C!TimeOut \/ C!WindowEnds \/ C!SelectCandidates \/ C!ExcludeRegistered \/ C!DeleteCarts
  BY <1>7, TabWorld
<1> QED BY <1>1, <1>2, <1>3, <1>4, <1>5, <1>6, <1>7 DEF C!Next

LEMMA CartsTypes == CartsInv => C!TypeOK
<1> SUFFICES ASSUME CartsInv
             PROVE  C!TypeOK
  OBVIOUS
<1>1. version \in 0 .. MaxChanges
  BY ShopperAssumption DEF CartsInv, CartsRest, C!BoundsAssumption
<1> QED BY <1>1 DEF CartsInv, CartsRest, CartTab, TabOK, CallsOK, PageType, C!TypeOK

\* The links of the checkout page lead to the cart it shows, whatever requests of the
\* tab and of pages that were left are served and answered meanwhile (CheckoutService).
THEOREM LinksLeadToTheCart == C!Spec => []LinksMatchCart
<1>1. CartsInv => LinksMatchCart
  <2> SUFFICES ASSUME CartsInv, page.state = "ready"
               PROVE  page.links \subseteq cartItems /\ cartItems \ page.links \subseteq Variant \ inStock
    BY DEF LinksMatchCart, C!LinksMatchCart
  <2>1. Covers(page.links, cartItems, inStock) /\ cartItems \subseteq Variant
    BY TabFacts DEF PageOK
  <2> QED BY <2>1 DEF Covers
<1> QED BY <1>1, CartsInit, CartsNext, PTL DEF C!Spec

-----------------------------------------------------------------------------
(* Carts: SparedCartsKept.  Whoever the clean-up spares has left its batch  *)
(* by the time it deletes. *)

\* Of the batch, the spared ones have registered since; once checked there are none.
BatchOK ==
    /\ cleanup.at = "selected" => cleanup.doomed \cap cleanup.spared \subseteq registered
    /\ cleanup.at = "checked" => cleanup.doomed \cap cleanup.spared = {}

LEMMA BatchInit == C!Init => BatchOK
BY DEF C!Init, BatchOK, C!NoCleanup

LEMMA BatchNext == CartsInv /\ BatchOK /\ [C!Next]_(C!vars) => BatchOK'
<1> SUFFICES ASSUME CartsInv, BatchOK, [C!Next]_(C!vars)
             PROVE  BatchOK'
  OBVIOUS
<1>1. cleanup \in [at : {"idle", "selected", "checked"}, doomed : SUBSET Principal,
                   spared : SUBSET Principal]
  BY DEF CartsInv, CartsRest
<1>2. CASE C!SelectCandidates
  <2> DEFINE spared == (Principal \ C!Candidates) \cup registered
             next == [at |-> "selected", doomed |-> C!Candidates, spared |-> spared]
  <2>1. cleanup' = next /\ UNCHANGED registered
    BY <1>2 DEF C!SelectCandidates, C!CleanupServed
  <2>2. next.at = "selected" /\ next.doomed \cap next.spared \subseteq registered
    OBVIOUS
  <2> HIDE DEF next
  <2> QED BY <2>1, <2>2 DEF BatchOK
<1>3. CASE C!ExcludeRegistered
  <2> DEFINE next == [cleanup EXCEPT !.at = "checked", !.doomed = @ \ C!FindRegistered(@)]
  <2>1. cleanup' = next /\ UNCHANGED registered /\ cleanup.at = "selected"
    BY <1>3 DEF C!ExcludeRegistered, C!CleanupServed
  <2>2. next.at = "checked" /\ next.doomed = cleanup.doomed \ registered /\ next.spared = cleanup.spared
    BY <1>1 DEF C!FindRegistered
  <2> HIDE DEF next
  <2> QED BY <2>1, <2>2 DEF BatchOK
<1>4. CASE C!DeleteCarts
  BY <1>4 DEF C!DeleteCarts, C!NoCleanup, BatchOK
<1>5. \/ UNCHANGED cleanup /\ registered \subseteq registered'
      \/ C!SelectCandidates \/ C!ExcludeRegistered \/ C!DeleteCarts
  BY ZenonT(60) DEF C!Next, C!vars, C!tab, C!AddMany, C!RemoveItem, C!Clear, C!Change, C!OpenCheckout, C!Retry, C!Reload, C!Age, C!Register,
         C!Serve, C!FindVariants, C!UpsertCart, C!ReadBack, C!GetCart, C!Count, C!SetExpiry, C!BuildLinks,
         C!UnlimitedServed, C!Served, C!Answer, C!Ignore, C!Persisted, C!Hydrated, C!Pushed, C!Prepared, C!Built,
         C!CheckoutFails, C!Received, C!Break, C!SellOut, C!TimeOut, C!WindowEnds
<1> QED BY <1>2, <1>3, <1>4, <1>5 DEF BatchOK

\* A cart in use, or of a registered principal, when a clean-up begins survives it, however
\* often carts are written and principals register meanwhile (deleteExpiredAnonymousCarts).
THEOREM SparedSurvive == C!Spec => SparedCartsKept
<1> DEFINE Kept == \A p \in cleanup.spared : cart[p] # C!NoCart => cart'[p] # C!NoCart
<1>1. ASSUME CartsInv, BatchOK, [C!Next]_(C!vars)
      PROVE  Kept
  <2>1. /\ cleanup.spared \subseteq Principal /\ cart \in [Principal -> C!Carts]
        /\ cleanup.at \in {"idle", "selected", "checked"}
    BY <1>1 DEF CartsInv, CartsRest
  <2>2. CASE UNCHANGED cart
    BY <2>2
  <2>3. ASSUME NEW q \in Principal, C!Age(q)
        PROVE  Kept
    <3>1. [cart[q] EXCEPT !.old = TRUE] # C!NoCart
      <4>1. cart[q] \in [ids : SUBSET Variant, old : BOOLEAN]
        BY <2>1, <2>3 DEF C!Age, C!Carts
      <4>2. [cart[q] EXCEPT !.old = TRUE].old = TRUE /\ C!NoCart.old = FALSE
        BY <4>1 DEF C!NoCart
      <4> QED BY <4>2
    <3> QED BY <2>1, <2>3, <3>1 DEF C!Age
  <2>4. ASSUME NEW i \in C!Indices, C!Serve(i)
        PROVE  Kept
    <3> DEFINE w == [ids |-> calls[i].found, old |-> FALSE]
    <3>1. cart' = cart \/ cart' = [cart EXCEPT ![calls[i].who] = w]
      BY <1>1, <2>4, ServeDoes DEF ServeFact
    <3>2. w.ids \in SUBSET Variant /\ C!NoCart.ids = None
      <4>1. calls[i] \in C!Calls
        BY <1>1, TabFacts
      <4>2. calls[i].found \in SUBSET Variant
        BY <4>1 DEF C!Calls
      <4> QED BY <4>2 DEF C!NoCart
    <3>3. w # C!NoCart
      <4> HIDE DEF w
      <4> QED BY <3>2, ShopperAssumption DEF C!BoundsAssumption
    <3> HIDE DEF w
    <3> QED BY <2>1, <3>1, <3>3
  <2>5. CASE C!DeleteCarts
    <3>1. cleanup.at = "checked" /\ cart' = [p \in Principal |-> IF p \in cleanup.doomed THEN C!NoCart ELSE cart[p]]
      BY <2>5 DEF C!DeleteCarts
    <3> QED BY <1>1, <2>1, <3>1 DEF BatchOK
  <2>6. UNCHANGED cart \/ (\E q \in Principal : C!Age(q)) \/ (\E i \in C!Indices : C!Serve(i)) \/ C!DeleteCarts
    BY <1>1, ZenonT(60) DEF C!Next, C!vars, C!tab, C!AddMany, C!RemoveItem, C!Clear, C!Change, C!OpenCheckout, C!Retry, C!Reload, C!Register,
         C!Answer, C!Ignore, C!Persisted, C!Hydrated, C!Pushed, C!Prepared, C!Built,
         C!CheckoutFails, C!Received, C!Break, C!SellOut, C!TimeOut, C!WindowEnds, C!SelectCandidates,
         C!ExcludeRegistered, C!CleanupServed
  <2> QED BY <2>2, <2>3, <2>4, <2>5, <2>6
<1>2. C!Init /\ [][C!Next]_(C!vars) => [][Kept]_(C!vars)
  BY <1>1, CartsInit, CartsNext, BatchInit, BatchNext, PTL
<1> QED BY <1>2 DEF C!Spec, SparedCartsKept, C!SparedCartsKept

-----------------------------------------------------------------------------
(* Carts: QuietAgreement.  Among the writes of the tab's principal that are *)
(* still to come, the last one carries the shown cart (SameNow: up to what  *)
(* has sold out); with none to come the row has it.  While a stored cart is *)
(* loaded this may not be so: then nothing is sent after that request.      *)

SameNow(A, B, stock) == A \cap stock = B \cap stock
OfTab(c, m) == Unwritten(c) /\ c.who = m
Final(cs, m, i) == OfTab(cs[i], m) /\ \A j \in 1 .. Len(cs) : OfTab(cs[j], m) => j <= i
Agreeing(cs, m, rows, stock, its) ==
    /\ \A i \in 1 .. Len(cs) : Final(cs, m, i) => SameNow(cs[i].ids, its, stock)
    /\ (\A i \in 1 .. Len(cs) : ~OfTab(cs[i], m)) =>
           rows[m] = C!NoCart \/ SameNow(rows[m].ids, its, stock)

Loads(c) == c.live /\ c.kind = "get"
NoLoads(cs) == \A i \in 1 .. Len(cs) : ~Loads(cs[i])
\* A stored cart that is loaded is the last request, and brings what the row has.
LoadOK(cs, m, rows, stock, open) ==
    \A i \in 1 .. Len(cs) : Loads(cs[i]) =>
       /\ cs[i].at # "failed"
       /\ ~open => /\ i = Len(cs)
                   /\ cs[i].at = "answered" => rows[m] = C!NoCart \/ SameNow(rows[m].ids, cs[i].found, stock)

\* What an answer that is waited for brings: the shown cart, unless it was loaded.
LiveOK(cs, its, ver, stock) ==
    \A i \in 1 .. Len(cs) : cs[i].live =>
       /\ cs[i].kind = "push" => SameNow(cs[i].ids, its, stock)
       /\ cs[i].kind \in {"put", "delete"} =>
             /\ cs[i].version <= ver
             /\ cs[i].version = ver => SameNow(cs[i].ids, its, stock)
       /\ cs[i].kind = "get" =>
             \A j \in 1 .. Len(cs) : cs[j].live /\ cs[j].kind \in {"push", "put", "delete", "get"} => j = i
       /\ cs[i].kind = "push" =>
             \A j \in 1 .. Len(cs) : cs[j].live => cs[j].kind \notin {"put", "delete"}

Agreement(cs, m, rows, stock, its, ver, open) ==
    /\ LiveOK(cs, its, ver, stock)
    /\ LoadOK(cs, m, rows, stock, open)
    /\ open \/ NoLoads(cs) => Agreeing(cs, m, rows, stock, its)
Agreed == ~broken => Agreement(calls, me, cart, inStock, cartItems, version, page.open)

\* A write of the shown cart is sent.
LEMMA SettledSent ==
    ASSUME NEW cs \in Seq(C!Calls), NEW c \in C!Calls, NEW m, OfTab(c, m), NEW rows, NEW stock, NEW its,
           SameNow(c.ids, its, stock)
    PROVE  Agreeing(Append(cs, c), m, rows, stock, its)
<1> DEFINE r == Append(cs, c)
           n == Len(cs)
<1>1. /\ Len(r) = n + 1 /\ n \in Nat
      /\ r[n + 1] = c
      /\ \A j \in 1 .. n + 1 : j \in 1 .. n \/ j = n + 1
  BY AppendFacts
<1> HIDE DEF r, n
<1>2. n + 1 \in 1 .. n + 1
  BY <1>1
<1>3. \A i \in 1 .. n + 1 : Final(r, m, i) => i = n + 1
  BY <1>1, <1>2 DEF Final
<1>4. \A i \in 1 .. n + 1 : Final(r, m, i) => SameNow(r[i].ids, its, stock)
  BY <1>1, <1>3
<1>5. ~(\A i \in 1 .. n + 1 : ~OfTab(r[i], m))
  BY <1>1, <1>2
<1> QED BY <1>1, <1>4, <1>5 DEF Agreeing, r

\* Another request is sent.
LEMMA SettledKept ==
    ASSUME NEW cs \in Seq(C!Calls), NEW c \in C!Calls, NEW m, ~OfTab(c, m), NEW rows, NEW stock, NEW its,
           Agreeing(cs, m, rows, stock, its)
    PROVE  Agreeing(Append(cs, c), m, rows, stock, its)
<1> DEFINE r == Append(cs, c)
           n == Len(cs)
<1>1. /\ Len(r) = n + 1 /\ n \in Nat
      /\ \A j \in 1 .. n : r[j] = cs[j]
      /\ r[n + 1] = c
      /\ \A j \in 1 .. n + 1 : j \in 1 .. n \/ j = n + 1
      /\ \A j \in 1 .. n : j \in 1 .. n + 1
  BY AppendFacts
<1> HIDE DEF r
<1>2. \A i \in 1 .. n + 1 : Final(r, m, i) => i \in 1 .. n /\ Final(cs, m, i)
  BY <1>1 DEF Final
<1> HIDE DEF n
<1>3. \A i \in 1 .. n + 1 : Final(r, m, i) => SameNow(r[i].ids, its, stock)
  BY <1>1, <1>2 DEF Agreeing, n
<1>4. (\A i \in 1 .. n + 1 : ~OfTab(r[i], m)) => \A i \in 1 .. n : ~OfTab(cs[i], m)
  BY <1>1
<1> QED BY <1>1, <1>3, <1>4 DEF Agreeing, r, n

\* A request that is through is dropped.
LEMMA SettledGone ==
    ASSUME NEW cs \in Seq(C!Calls), NEW i \in 1 .. Len(cs), NEW m, ~OfTab(cs[i], m),
           NEW rows, NEW stock, NEW its, Agreeing(cs, m, rows, stock, its)
    PROVE  Agreeing(C!RemoveAt(cs, i), m, rows, stock, its)
<1> DEFINE r == C!RemoveAt(cs, i)
           n == Len(cs)
<1>1. Len(r) = n - 1 /\ n \in Nat /\ \A j \in 1 .. n - 1 : r[j] = cs[Moved(i, j)]
  BY CartRemoval
<1>2. /\ \A j \in 1 .. n - 1 : Moved(i, j) \in 1 .. n
      /\ \A j, k \in 1 .. n - 1 : j < k <=> Moved(i, j) < Moved(i, k)
      /\ \A k \in 1 .. n : k # i => \E j \in 1 .. n - 1 : Moved(i, j) = k
  BY <1>1, MovedFacts
<1> HIDE DEF r, n
<1>3. ASSUME NEW j \in 1 .. n - 1, Final(r, m, j)
      PROVE  SameNow(r[j].ids, its, stock)
  <2>1. ASSUME NEW k \in 1 .. n, OfTab(cs[k], m) PROVE k <= Moved(i, j)
    <3>1. PICK a \in 1 .. n - 1 : Moved(i, a) = k
      BY <1>2, <2>1
    <3>2. OfTab(r[a], m)
      BY <1>1, <2>1, <3>1
    <3>3. a <= j
      BY <1>1, <1>3, <3>2 DEF Final
    <3>4. ~(j < a) /\ ~(Moved(i, j) < Moved(i, a))
      BY <1>2, <3>3
    <3> QED BY <1>2, <3>1, <3>4
  <2>2. Final(cs, m, Moved(i, j))
    BY <1>1, <1>3, <2>1 DEF Final, n
  <2> QED BY <1>1, <1>2, <2>2 DEF Agreeing, n
<1>4. ASSUME \A j \in 1 .. n - 1 : ~OfTab(r[j], m), NEW k \in 1 .. n
      PROVE  ~OfTab(cs[k], m)
  <2>1. CASE k # i
    BY <1>1, <1>2, <1>4, <2>1
  <2>2. CASE k = i
    BY <2>2
  <2> QED BY <2>1, <2>2
<1> QED BY <1>1, <1>3, <1>4 DEF Agreeing, r, n

LEMMA MineAborted ==
    ASSUME NEW cs \in Seq(C!Calls), NEW m, NEW rows, NEW stock, NEW its, Agreeing(cs, m, rows, stock, its)
    PROVE  Agreeing(C!Aborted(cs), m, rows, stock, its)
<1> DEFINE r == C!Aborted(cs)
<1>1. /\ Len(r) = Len(cs)
      /\ \A i \in 1 .. Len(cs) : r[i].kind = cs[i].kind /\ r[i].who = cs[i].who
                                  /\ r[i].ids = cs[i].ids /\ r[i].at = cs[i].at
  BY AbortFacts
<1> HIDE DEF r
<1>2. \A i \in 1 .. Len(cs) : OfTab(r[i], m) <=> OfTab(cs[i], m)
  BY <1>1 DEF OfTab, Unwritten
<1>3. \A i \in 1 .. Len(cs) : Final(r, m, i) <=> Final(cs, m, i)
  BY <1>1, <1>2 DEF Final
<1> QED BY <1>1, <1>2, <1>3 DEF Agreeing, r

\* The shown cart changes by what has sold out; rows disappear, get old.
LEMMA SettledLater ==
    ASSUME NEW cs, NEW m, NEW rows, NEW stock, NEW its, Agreeing(cs, m, rows, stock, its),
           NEW its2, NEW rows2, NEW stock2, stock2 \subseteq stock, SameNow(its, its2, stock),
           rows2[m] = C!NoCart \/ (rows[m] # C!NoCart /\ rows2[m].ids = rows[m].ids)
    PROVE  Agreeing(cs, m, rows2, stock2, its2)
<1>1. \A A : SameNow(A, its, stock) => SameNow(A, its2, stock2)
  BY DEF SameNow
<1> QED BY <1>1 DEF Agreeing

\* Request i makes a step that is not its write, or its write.
LEMMA SettledServed ==
    ASSUME NEW cs \in Seq(C!Calls), NEW ds, NEW i, Steps(cs, ds, i), NEW m, NEW rows, NEW stock, NEW its,
           Agreeing(cs, m, rows, stock, its), NEW rows2,
           \/ rows2 = rows /\ (Unwritten(ds[i]) <=> Unwritten(cs[i]))
           \/ /\ Unwritten(cs[i]) /\ ~Unwritten(ds[i]) /\ SameNow(rows2[cs[i].who].ids, cs[i].ids, stock)
              /\ cs[i].who # m => rows2[m] = rows[m]
              /\ Turn(cs, i)
    PROVE  Agreeing(ds, m, rows2, stock, its)
<1> DEFINE n == Len(cs)
<1>1. /\ Len(ds) = n /\ n \in Nat /\ i \in 1 .. n
      /\ \A j \in 1 .. n : j # i => ds[j] = cs[j]
      /\ ds[i].who = cs[i].who /\ ds[i].ids = cs[i].ids
  BY DEF Steps
<1>2. CASE rows2 = rows /\ (Unwritten(ds[i]) <=> Unwritten(cs[i]))
  <2>1. \A j \in 1 .. n : (OfTab(ds[j], m) <=> OfTab(cs[j], m)) /\ ds[j].ids = cs[j].ids
    BY <1>1, <1>2 DEF OfTab
  <2>2. \A j \in 1 .. n : Final(ds, m, j) <=> Final(cs, m, j)
    BY <1>1, <2>1 DEF Final
  <2> QED BY <1>1, <1>2, <2>1, <2>2 DEF Agreeing
<1>3. CASE /\ Unwritten(cs[i]) /\ ~Unwritten(ds[i]) /\ SameNow(rows2[cs[i].who].ids, cs[i].ids, stock)
           /\ cs[i].who # m
           /\ rows2[m] = rows[m]
  <2>1. \A j \in 1 .. n : (OfTab(ds[j], m) <=> OfTab(cs[j], m)) /\ ds[j].ids = cs[j].ids
    BY <1>1, <1>3 DEF OfTab
  <2>2. \A j \in 1 .. n : Final(ds, m, j) <=> Final(cs, m, j)
    BY <1>1, <2>1 DEF Final
  <2> QED BY <1>1, <1>3, <2>1, <2>2 DEF Agreeing
<1>4. CASE /\ Unwritten(cs[i]) /\ ~Unwritten(ds[i]) /\ SameNow(rows2[cs[i].who].ids, cs[i].ids, stock)
           /\ cs[i].who = m /\ Turn(cs, i)
  <2>1. OfTab(cs[i], m) /\ ~OfTab(ds[i], m)
    BY <1>4 DEF OfTab
  <2>2. ASSUME NEW j \in 1 .. n, Final(ds, m, j)
        PROVE  SameNow(ds[j].ids, its, stock)
    <3>1. j # i /\ OfTab(cs[j], m) /\ ds[j] = cs[j]
      BY <1>1, <2>1, <2>2 DEF Final
    <3>2. CASE i <= j
      <4>1. \A k \in 1 .. n : OfTab(cs[k], m) => k <= j
        BY <1>1, <2>2, <3>2 DEF Final
      <4> QED BY <3>1, <4>1 DEF Final, Agreeing
    <3>3. CASE j < i
      BY <1>1, <1>4, <3>1, <3>3 DEF Turn, Over, OfTab, Unwritten
    <3> QED BY <1>1, <3>2, <3>3
  <2>3. ASSUME \A j \in 1 .. n : ~OfTab(ds[j], m)
        PROVE  SameNow(rows2[m].ids, its, stock)
    <3>1. \A j \in 1 .. n : OfTab(cs[j], m) => j = i
      BY <1>1, <2>3
    <3>2. Final(cs, m, i)
      BY <1>1, <2>1, <3>1 DEF Final
    <3>3. SameNow(cs[i].ids, its, stock)
      BY <1>1, <3>2 DEF Agreeing
    <3> QED BY <1>4, <3>3 DEF SameNow
  <2> QED BY <1>1, <2>2, <2>3 DEF Agreeing
<1> QED BY <1>2, <1>3, <1>4

\* The same for the answers that are waited for.
LEMMA LiveSent ==
    ASSUME NEW cs \in Seq(C!Calls), NEW c \in C!Calls, NEW its, NEW ver, NEW stock, LiveOK(cs, its, ver, stock),
           \/ c.kind \in {"prepare", "build"}
           \/ /\ c.kind = "push" /\ SameNow(c.ids, its, stock)
              /\ \A i \in 1 .. Len(cs) : cs[i].live => cs[i].kind \notin {"get", "put", "delete"}
           \/ /\ c.kind \in {"put", "delete"} /\ SameNow(c.ids, its, stock) /\ c.version = ver /\ ver \in Nat
              /\ \A i \in 1 .. Len(cs) : cs[i].live => cs[i].kind \notin {"get", "push"}
    PROVE  LiveOK(Append(cs, c), its, ver, stock)
<1> DEFINE r == Append(cs, c)
           n == Len(cs)
<1>1. /\ Len(r) = n + 1 /\ n \in Nat
      /\ \A j \in 1 .. n : r[j] = cs[j]
      /\ r[n + 1] = c
      /\ \A j \in 1 .. n + 1 : j \in 1 .. n \/ j = n + 1
  BY AppendFacts
<1> HIDE DEF r
<1>2. LiveOK(cs, its, ver, stock) /\ (ver \in Nat => ver <= ver)
  OBVIOUS
<1>3. LiveOK(r, its, ver, stock)
  <2> SUFFICES ASSUME NEW i \in 1 .. n + 1, r[i].live
               PROVE  /\ r[i].kind = "push" => SameNow(r[i].ids, its, stock)
                      /\ r[i].kind \in {"put", "delete"} =>
                            /\ r[i].version <= ver
                            /\ r[i].version = ver => SameNow(r[i].ids, its, stock)
                      /\ r[i].kind = "get" =>
                            \A j \in 1 .. n + 1 :
                               r[j].live /\ r[j].kind \in {"push", "put", "delete", "get"} => j = i
                      /\ r[i].kind = "push" =>
                            \A j \in 1 .. n + 1 : r[j].live => r[j].kind \notin {"put", "delete"}
    BY <1>1 DEF LiveOK
  <2>1. CASE i \in 1 .. n
    BY <1>1, <1>2, <2>1 DEF LiveOK
  <2>2. CASE i = n + 1
    BY <1>1, <1>2, <2>2
  <2> QED BY <1>1, <2>1, <2>2
<1> QED BY <1>3 DEF r

LEMMA LiveGone ==
    ASSUME NEW cs \in Seq(C!Calls), NEW i \in 1 .. Len(cs), NEW its, NEW ver, NEW stock,
           LiveOK(cs, its, ver, stock)
    PROVE  LiveOK(C!RemoveAt(cs, i), its, ver, stock)
<1> DEFINE r == C!RemoveAt(cs, i)
           n == Len(cs)
<1>1. Len(r) = n - 1 /\ n \in Nat /\ \A j \in 1 .. n - 1 : r[j] = cs[Moved(i, j)]
  BY CartRemoval
<1>2. /\ \A j \in 1 .. n - 1 : Moved(i, j) \in 1 .. n
      /\ \A j, k \in 1 .. n - 1 : j < k <=> Moved(i, j) < Moved(i, k)
  BY <1>1, MovedFacts
<1> HIDE DEF r, n
<1>3. \A j, k \in 1 .. n - 1 : Moved(i, j) = Moved(i, k) => j = k
  <2> TAKE j, k \in 1 .. n - 1
  <2>1. ~(Moved(i, j) < Moved(i, j)) /\ ~(Moved(i, k) < Moved(i, k))
    BY <1>2
  <2> QED BY <1>1, <1>2, <2>1
<1>4. LiveOK(r, its, ver, stock)
  <2> SUFFICES ASSUME NEW j \in 1 .. n - 1, r[j].live
               PROVE  /\ r[j].kind = "push" => SameNow(r[j].ids, its, stock)
                      /\ r[j].kind \in {"put", "delete"} =>
                            /\ r[j].version <= ver
                            /\ r[j].version = ver => SameNow(r[j].ids, its, stock)
                      /\ r[j].kind = "get" =>
                            \A k \in 1 .. n - 1 :
                               r[k].live /\ r[k].kind \in {"push", "put", "delete", "get"} => k = j
                      /\ r[j].kind = "push" =>
                            \A k \in 1 .. n - 1 : r[k].live => r[k].kind \notin {"put", "delete"}
    BY <1>1 DEF LiveOK
  <2>1. r[j] = cs[Moved(i, j)] /\ Moved(i, j) \in 1 .. Len(cs)
    BY <1>1, <1>2 DEF n
  <2>2. \A k \in 1 .. n - 1 : r[k] = cs[Moved(i, k)] /\ Moved(i, k) \in 1 .. Len(cs)
                              /\ (Moved(i, k) = Moved(i, j) => k = j)
    BY <1>1, <1>2, <1>3 DEF n
  <2> HIDE DEF n
  <2> QED BY <2>1, <2>2 DEF LiveOK
<1> QED BY <1>4 DEF r

LEMMA LiveSteps ==
    ASSUME NEW cs, NEW ds, Len(ds) = Len(cs),
           \A i \in 1 .. Len(cs) :
              /\ ds[i].live => cs[i].live
              /\ ds[i].kind = cs[i].kind /\ ds[i].ids = cs[i].ids /\ ds[i].version = cs[i].version,
           NEW its, NEW ver, NEW stock, LiveOK(cs, its, ver, stock)
    PROVE  LiveOK(ds, its, ver, stock)
BY DEF LiveOK

LEMMA LiveLater ==
    ASSUME NEW cs, NEW its, NEW its2, NEW ver, NEW stock, NEW stock2, LiveOK(cs, its, ver, stock),
           stock2 \subseteq stock, SameNow(its, its2, stock)
    PROVE  LiveOK(cs, its2, ver, stock2)
<1>1. \A A : SameNow(A, its, stock) => SameNow(A, its2, stock2)
  BY DEF SameNow
<1> QED BY <1>1 DEF LiveOK

LEMMA LoadsGone ==
    ASSUME NEW cs \in Seq(C!Calls), NEW i \in 1 .. Len(cs)
    PROVE  /\ NoLoads(cs) => NoLoads(C!RemoveAt(cs, i))
           /\ NoLoads(C!RemoveAt(cs, i)) /\ ~Loads(cs[i]) => NoLoads(cs)
<1> DEFINE r == C!RemoveAt(cs, i)
           n == Len(cs)
<1>1. Len(r) = n - 1 /\ n \in Nat /\ \A j \in 1 .. n - 1 : r[j] = cs[Moved(i, j)]
  BY CartRemoval
<1>2. /\ \A j \in 1 .. n - 1 : Moved(i, j) \in 1 .. n
      /\ \A k \in 1 .. n : k # i => \E j \in 1 .. n - 1 : Moved(i, j) = k
  BY <1>1, MovedFacts
<1> HIDE DEF r, n
<1> QED BY <1>1, <1>2 DEF NoLoads, r, n

\* The tab shows another cart, nothing being loaded.
LEMMA ShownSettles ==
    ASSUME me \in Principal, NEW cs \in Seq(C!Calls), NEW new \in SUBSET Variant, C!Shown(new, cs),
           NoLoads(cs), NEW ver, LiveOK(cs, new, ver, inStock),
           Agreeing(cs, me, cart, inStock, new) \/ (page.open /\ new # {} /\ page.asked # new)
    PROVE  Agreement(calls', me, cart, inStock, cartItems', ver, page'.open)
<1> DEFINE c == C!Call("prepare", new, 0)
           ab == C!Aborted(cs)
           r == Append(ab, c)
<1>1. cartItems' = new
  BY DEF C!Shown
<1>2. /\ ab \in Seq(C!Calls) /\ Len(ab) = Len(cs)
      /\ \A i \in 1 .. Len(cs) :
            /\ ab[i].live => cs[i].live
            /\ ab[i].kind = cs[i].kind /\ ab[i].ids = cs[i].ids /\ ab[i].version = cs[i].version
  BY AbortFacts
<1>3. LiveOK(ab, new, ver, inStock) /\ NoLoads(ab)
  BY <1>2, LiveSteps DEF NoLoads, Loads
<1>4. /\ c \in C!Calls /\ c.kind = "prepare" /\ c.ids = new /\ c.at = "sent" /\ c.who = me
  BY FreshCall DEF C!Kinds
<1> HIDE DEF c, ab
<1>5. CASE page.open /\ new # {} /\ page.asked # new
  <2>1. calls' = r
    BY <1>5 DEF C!Shown, c, ab
  <2>2. OfTab(c, me) /\ SameNow(c.ids, new, inStock)
    BY <1>4 DEF OfTab, Unwritten, Writers, SameNow
  <2>3. Agreeing(r, me, cart, inStock, new)
    BY <1>2, <1>4, <2>2, SettledSent
  <2>4. LiveOK(r, new, ver, inStock)
    BY <1>2, <1>3, <1>4, LiveSent
  <2>5. NoLoads(r)
    BY <1>2, <1>3, <1>4, AppendFacts DEF NoLoads, Loads
  <2> HIDE DEF r
  <2> QED BY <1>1, <2>1, <2>3, <2>4, <2>5 DEF Agreement, LoadOK, NoLoads
<1>6. CASE ~(page.open /\ new # {} /\ page.asked # new)
  <2>1. calls' = ab \/ calls' = cs
    BY <1>6 DEF C!Shown, ab
  <2>2. Agreeing(ab, me, cart, inStock, new)
    BY <1>6, MineAborted DEF ab
  <2>3. LoadOK(ab, me, cart, inStock, page'.open) /\ LoadOK(cs, me, cart, inStock, page'.open)
    BY <1>3 DEF LoadOK, NoLoads
  <2> QED BY <1>1, <1>3, <1>6, <2>1, <2>2, <2>3 DEF Agreement
<1> QED BY <1>5, <1>6

\* An answer is dropped.
LEMMA AgreementGone ==
    ASSUME NEW cs \in Seq(C!Calls), NEW i \in 1 .. Len(cs), NEW m, NEW rows, NEW stock, NEW its, NEW ver,
           NEW open, Agreement(cs, m, rows, stock, its, ver, open), ~Loads(cs[i]), ~OfTab(cs[i], m)
    PROVE  Agreement(C!RemoveAt(cs, i), m, rows, stock, its, ver, open)
<1> DEFINE r == C!RemoveAt(cs, i)
           n == Len(cs)
<1>1. Len(r) = n - 1 /\ n \in Nat /\ \A j \in 1 .. n - 1 : r[j] = cs[Moved(i, j)]
  BY CartRemoval
<1>2. \A j \in 1 .. n - 1 : Moved(i, j) \in 1 .. n /\ (Moved(i, j) = n => j = n - 1)
  BY <1>1, MovedFacts DEF Moved
<1>3. LiveOK(r, its, ver, stock) /\ (NoLoads(r) => NoLoads(cs))
  BY LiveGone, LoadsGone DEF Agreement
<1>4. Agreeing(cs, m, rows, stock, its) => Agreeing(r, m, rows, stock, its)
  BY SettledGone
<1> HIDE DEF r, n
<1>5. LoadOK(r, m, rows, stock, open)
  BY <1>1, <1>2 DEF Agreement, LoadOK, n
<1> QED BY <1>3, <1>4, <1>5 DEF Agreement, r

LEMMA AgreedChanged ==
    ASSUME CartsInv, NEW new, NEW kind, Alters(new, kind), ~broken, Agreed
    PROVE  Agreed'
<1> DEFINE c == C!Call(kind, new, version + 1)
           cs == Append(calls, c)
<1>1. version \in Nat /\ calls \in Seq(C!Calls) /\ me \in Principal /\ C!Indices = 1 .. Len(calls)
  BY TabFacts
<1>2. /\ new \in SUBSET Variant /\ C!Shown(new, cs) /\ version' = version + 1
      /\ kind \in {"put", "delete"} /\ UNCHANGED <<me, cart, inStock, broken>>
      /\ \A i \in 1 .. Len(calls) : calls[i].live => calls[i].kind \notin {"get", "push"}
  BY <1>1 DEF Alters, C!Change, C!Loading
<1>3. /\ c \in C!Calls /\ c.kind = kind /\ c.ids = new /\ c.at = "sent" /\ c.who = me /\ c.version = version + 1
  BY <1>1, <1>2, FreshCall DEF C!Kinds, Alters
<1> HIDE DEF c
<1>4. LiveOK(calls, new, version + 1, inStock)
  <2>1. LiveOK(calls, cartItems, version, inStock)
    BY DEF Agreed, Agreement
  <2>2. \A i \in 1 .. Len(calls) : calls[i] \in C!Calls
    BY <1>1
  <2>3. \A i \in 1 .. Len(calls) : calls[i].version \in Nat
    BY <2>2 DEF C!Calls
  <2>4. \A v \in Nat : v <= version => v <= version + 1 /\ v # version + 1
    BY <1>1
  <2> QED BY <1>2, <2>1, <2>3, <2>4 DEF LiveOK
<1>5. SameNow(c.ids, new, inStock) /\ OfTab(c, me) /\ version + 1 \in Nat
  BY <1>1, <1>2, <1>3 DEF SameNow, OfTab, Unwritten, Writers
<1>6. LiveOK(cs, new, version + 1, inStock)
  BY <1>1, <1>2, <1>3, <1>4, <1>5, LiveSent
<1>7. Agreeing(cs, me, cart, inStock, new)
  BY <1>1, <1>3, <1>5, SettledSent
<1>8. cs \in Seq(C!Calls) /\ NoLoads(cs)
  BY <1>1, <1>2, <1>3, AppendFacts DEF NoLoads, Loads
<1> HIDE DEF cs
<1>9. Agreement(calls', me, cart, inStock, cartItems', version + 1, page'.open)
  BY <1>1, <1>2, <1>6, <1>7, <1>8, ShownSettles
<1> QED BY <1>2, <1>9 DEF Agreed

LEMMA AgreedAsked ==
    ASSUME CartsInv, C!OpenCheckout \/ C!Retry, ~broken, Agreed
    PROVE  Agreed'
<1> DEFINE c == C!Call("prepare", cartItems, 0)
           cs == IF C!OpenCheckout THEN calls ELSE C!Aborted(calls)
           r == Append(cs, c)
<1>1. calls \in Seq(C!Calls) /\ me \in Principal /\ cartItems \in SUBSET Variant /\ PageType(page)
      /\ LiveOK(calls, cartItems, version, inStock) /\ LoadOK(calls, me, cart, inStock, page.open)
  BY TabFacts DEF Agreed, Agreement
<1>2. /\ c \in C!Calls /\ c.kind = "prepare" /\ c.ids = cartItems /\ c.at = "sent" /\ c.who = me
  BY <1>1, FreshCall DEF C!Kinds
<1>3. calls' = r /\ UNCHANGED <<cartItems, version, me, cart, inStock, broken>>
  <2>1. CASE C!OpenCheckout
    BY <2>1 DEF C!OpenCheckout
  <2>2. CASE ~C!OpenCheckout
    BY <2>2 DEF C!Retry
  <2> QED BY <2>1, <2>2
<1>4. page'.open = TRUE
  <2>1. CASE C!OpenCheckout
    BY <2>1 DEF C!OpenCheckout
  <2>2. CASE ~C!OpenCheckout
    BY <1>1, <2>2 DEF C!Retry, PageType
  <2> QED BY <2>1, <2>2
<1>5. /\ cs \in Seq(C!Calls) /\ Len(cs) = Len(calls)
      /\ \A i \in 1 .. Len(calls) :
            /\ cs[i].live => calls[i].live
            /\ cs[i].kind = calls[i].kind /\ cs[i].ids = calls[i].ids /\ cs[i].version = calls[i].version
            /\ cs[i].at = calls[i].at
  BY <1>1, AbortFacts
<1> HIDE DEF c, cs
<1>6. LiveOK(cs, cartItems, version, inStock)
  BY <1>1, <1>5, LiveSteps
<1>7. LiveOK(r, cartItems, version, inStock)
  BY <1>2, <1>5, <1>6, LiveSent
<1>8. OfTab(c, me) /\ SameNow(c.ids, cartItems, inStock)
  BY <1>2 DEF OfTab, Unwritten, Writers, SameNow
<1>9. Agreeing(r, me, cart, inStock, cartItems)
  BY <1>2, <1>5, <1>8, SettledSent
<1>10. LoadOK(r, me, cart, inStock, TRUE)
  <2>1. \A i \in 1 .. Len(calls) : Loads(cs[i]) => cs[i].at # "failed"
    BY <1>1, <1>5 DEF LoadOK, Loads
  <2>2. \A i \in 1 .. Len(r) : Loads(r[i]) => r[i].at # "failed"
    BY <1>2, <1>5, <2>1, AppendFacts DEF Loads
  <2> QED BY <2>2 DEF LoadOK
<1> HIDE DEF r
<1> QED BY <1>3, <1>4, <1>7, <1>9, <1>10 DEF Agreed, Agreement

LEMMA AgreedReloaded ==
    ASSUME CartsInv, NEW p \in Principal, C!Reload(p)
    PROVE  Agreed'
<1> DEFINE c == [C!Call("get", {}, 0) EXCEPT !.who = p]
           cs == [i \in C!Indices |-> [calls[i] EXCEPT !.live = FALSE]]
           r == Append(cs, c)
<1>1. calls \in Seq(C!Calls) /\ me \in Principal /\ C!Indices = 1 .. Len(calls) /\ Len(calls) \in Nat
  BY TabFacts
<1>2. /\ c \in C!Calls /\ c.kind = "get" /\ c.at = "sent" /\ c.live
  BY <1>1 DEF C!Call, C!Calls, C!Kinds, C!Places
<1>3. calls' = r /\ page'.open = FALSE /\ UNCHANGED <<cartItems, cart, inStock, broken>> /\ me' = p /\ version' = 0
  BY DEF C!Reload, C!Closed
<1>4. cs \in Seq(C!Calls) /\ Len(cs) = Len(calls) /\ \A i \in 1 .. Len(calls) : ~cs[i].live
  <2> DEFINE dead(d) == [d EXCEPT !.live = FALSE]
  <2>1. \A d \in C!Calls : dead(d) \in C!Calls /\ ~dead(d).live
    BY DEF C!Calls
  <2>2. \A i \in 1 .. Len(calls) : calls[i] \in C!Calls
    BY <1>1
  <2>3. cs = [i \in 1 .. Len(calls) |-> dead(calls[i])]
    BY <1>1
  <2> HIDE DEF dead, cs
  <2>4. \A i \in 1 .. Len(calls) : cs[i] = dead(calls[i])
    BY <2>3
  <2>5. cs \in Seq(C!Calls) /\ Len(cs) = Len(calls)
    BY <1>1, <2>1, <2>2, <2>3
  <2> QED BY <2>1, <2>2, <2>4, <2>5
<1> HIDE DEF c, cs
<1>5. /\ Len(r) = Len(cs) + 1 /\ r[Len(cs) + 1] = c /\ Len(cs) \in Nat
      /\ \A j \in 1 .. Len(cs) + 1 : r[j].live => j = Len(cs) + 1
  BY <1>2, <1>4, AppendFacts
<1> HIDE DEF r
<1>6. LiveOK(r, cartItems, 0, inStock)
  BY <1>2, <1>5 DEF LiveOK
<1>7. LoadOK(r, p, cart, inStock, FALSE)
  BY <1>2, <1>5 DEF LoadOK, Loads
<1>8. ~NoLoads(r)
  <2>1. Len(cs) + 1 \in 1 .. Len(r)
    BY <1>5
  <2> QED BY <1>2, <1>5, <2>1 DEF NoLoads, Loads
<1> QED BY <1>3, <1>6, <1>7, <1>8 DEF Agreed, Agreement

LEMMA AgreedServed ==
    ASSUME CartsInv, NEW i \in C!Indices, C!Serve(i), ~broken, Agreed
    PROVE  Agreed'
<1> DEFINE c == calls[i]
           d == calls'[i]
           n == Len(calls)
<1>1. UNCHANGED <<cartItems, version, page, me, inStock, broken>>
  BY DEF C!Serve, C!FindVariants, C!UpsertCart, C!ReadBack, C!GetCart, C!Count, C!SetExpiry, C!BuildLinks,
         C!UnlimitedServed, C!Served, C!tab
<1>2. /\ ServeFact(i) /\ Steps(calls, calls', i) /\ Turn(calls, i) /\ CallsOK(calls, me, cart, inStock)
      /\ calls \in Seq(C!Calls) /\ n \in Nat
  BY ServeDoes, TabFacts DEF ServeFact
<1>3. /\ i \in 1 .. n /\ d.kind = c.kind /\ d.who = c.who /\ (d.live <=> c.live) /\ c \in C!Calls
      /\ Len(calls') = n /\ \A j \in 1 .. n : j # i => calls'[j] = calls[j]
      /\ d.ids = c.ids /\ d.version = c.version
  BY <1>2 DEF Steps
<1>4. /\ LiveOK(calls, cartItems, version, inStock) /\ LoadOK(calls, me, cart, inStock, page.open)
      /\ page.open \/ NoLoads(calls) => Agreeing(calls, me, cart, inStock, cartItems)
  BY DEF Agreed, Agreement
<1>5. LiveOK(calls', cartItems, version, inStock)
  BY <1>3, <1>4, LiveSteps
<1>6. NoLoads(calls') => NoLoads(calls)
  BY <1>3 DEF NoLoads, Loads
<1>7. Agreeing(calls, me, cart, inStock, cartItems) => Agreeing(calls', me, cart', inStock, cartItems)
  <2>1. CASE /\ Unwritten(c) /\ d.at = "written" /\ Covers(c.found, c.ids, inStock)
             /\ cart' = [cart EXCEPT ![c.who] = [ids |-> c.found, old |-> FALSE]]
    <3>1. c.who \in Principal /\ cart \in [Principal -> C!Carts]
      BY <1>3 DEF C!Calls, CartsInv, CartsRest
    <3>2. cart'[c.who].ids = c.found /\ (c.who # me => cart'[me] = cart[me])
      BY <2>1, <3>1
    <3>3. SameNow(c.found, c.ids, inStock) /\ ~Unwritten(d)
      BY <2>1 DEF Covers, SameNow, Unwritten
    <3>4. /\ Unwritten(calls[i]) /\ ~Unwritten(calls'[i])
          /\ SameNow(cart'[calls[i].who].ids, calls[i].ids, inStock)
          /\ calls[i].who # me => cart'[me] = cart[me]
          /\ Turn(calls, i)
      BY <1>2, <2>1, <3>2, <3>3, Zenon
    <3> QED BY <1>2, <3>4, SettledServed
  <2>2. CASE cart' = cart /\ (Unwritten(d) <=> Unwritten(c))
    BY <1>2, <2>2, SettledServed
  <2> QED BY <1>2, <2>1, <2>2 DEF ServeFact
<1>8. LoadOK(calls', me, cart', inStock, page.open)
  <2> SUFFICES ASSUME NEW j \in 1 .. n, Loads(calls'[j])
               PROVE  /\ calls'[j].at # "failed"
                      /\ ~page.open =>
                            /\ j = n
                            /\ calls'[j].at = "answered" =>
                                  cart'[me] = C!NoCart \/ SameNow(cart'[me].ids, calls'[j].found, inStock)
    BY <1>3 DEF LoadOK
  <2>1. CASE j = i
    <3>1. c.kind = "get" /\ c.live /\ Loads(c) /\ c.who = me
      BY <1>2, <1>3, <2>1 DEF Loads, CallsOK
    <3>2. d.at # "failed" /\ (~page.open => i = n)
      BY <1>2, <1>3, <1>4, <3>1 DEF ServeFact, LoadOK
    <3>3. cart' = cart
      BY <1>2, <3>1 DEF ServeFact, Unwritten, Writers
    <3>4. d.at = "answered" => d.found = C!StoredItems(me)
      BY <1>2, <1>3, <3>1 DEF ServeFact
    <3>5. d.at = "answered" => cart[me] = C!NoCart \/ SameNow(cart[me].ids, d.found, inStock)
      BY <3>4 DEF C!StoredItems, SameNow
    <3> QED BY <2>1, <3>2, <3>3, <3>5
  <2>2. CASE j # i
    <3>1. calls'[j] = calls[j] /\ Loads(calls[j])
      BY <1>3, <2>2
    <3>2. calls[j].at # "failed" /\ (~page.open => j = n)
      BY <1>4, <3>1 DEF LoadOK
    <3>3. j = n => calls[j].at # "answered"
      <4> SUFFICES ASSUME j = n, calls[j].at = "answered" PROVE FALSE
        OBVIOUS
      <4>1. i < j
        BY <1>3, <2>2
      <4>2. Over(calls[i])
        BY <1>2, <1>3, <4>1 DEF CallsOK
      <4> QED BY <1>2, <4>2 DEF Steps
    <3> QED BY <3>1, <3>2, <3>3
  <2> QED BY <2>1, <2>2
<1> HIDE DEF n
<1> QED BY <1>1, <1>4, <1>5, <1>6, <1>7, <1>8 DEF Agreed, Agreement

LEMMA AgreedAnswered ==
    ASSUME CartsInv, NEW i \in C!Indices, C!Answer(i), ~broken, Agreed
    PROVE  Agreed'
<1> DEFINE c == calls[i]
           cs == C!Without(i)
<1>1. /\ calls \in Seq(C!Calls) /\ i \in 1 .. Len(calls) /\ CallsOK(calls, me, cart, inStock)
      /\ me \in Principal /\ version \in Nat /\ cartItems \in SUBSET Variant
      /\ PageType(page) /\ PageOK(cartItems, page, inStock)
      /\ PageCalls(calls, me, cartItems, page.open, cart, inStock)
      /\ c \in C!Calls /\ cs = C!RemoveAt(calls, i) /\ cs \in Seq(C!Calls)
  BY TabFacts, CartRemoval DEF C!Without
<1>2. UNCHANGED <<version, me, cart, inStock, broken>>
  BY DEF C!Answer, C!Ignore, C!Persisted, C!Hydrated, C!Pushed, C!Prepared, C!Built, C!CheckoutFails, C!Received
<1>3. Agreement(calls, me, cart, inStock, cartItems, version, page.open)
  BY DEF Agreed
<1>4. /\ LiveOK(calls, cartItems, version, inStock) /\ LoadOK(calls, me, cart, inStock, page.open)
      /\ page.open \/ NoLoads(calls) => Agreeing(calls, me, cart, inStock, cartItems)
  BY <1>3 DEF Agreement
<1>5. Over(c) /\ ~OfTab(c, me)
  BY DEF C!Answer, C!Ignore, C!Persisted, C!Hydrated, C!Pushed, C!Prepared, C!Built, C!CheckoutFails, C!Arrives, Over,
         OfTab, Unwritten
<1>6. c.found \in SUBSET Variant
  BY <1>1 DEF C!Calls
<1>7. LiveOK(cs, cartItems, version, inStock)
  BY <1>1, <1>4, LiveGone
<1> HIDE DEF c, cs
<1>8. ASSUME calls' = cs, UNCHANGED cartItems, page'.open = page.open, ~Loads(c)
      PROVE  Agreed'
  <2>1. Agreement(cs, me, cart, inStock, cartItems, version, page.open)
    BY <1>1, <1>3, <1>5, <1>8, AgreementGone DEF c
  <2> QED BY <1>2, <1>8, <2>1 DEF Agreed
<1>9. ASSUME NEW new \in SUBSET Variant, SameNow(cartItems, new, inStock), C!Shown(new, cs), NoLoads(calls)
      PROVE  Agreed'
  <2>1. Agreeing(calls, me, cart, inStock, cartItems)
    BY <1>4, <1>9
  <2>2. Agreeing(cs, me, cart, inStock, cartItems)
    BY <1>1, <1>5, <2>1, SettledGone DEF c
  <2>3. Agreeing(cs, me, cart, inStock, new)
    BY <1>9, <2>2, SettledLater
  <2>4. LiveOK(cs, new, version, inStock) /\ NoLoads(cs)
    BY <1>1, <1>7, <1>9, LiveLater, LoadsGone
  <2>5. Agreement(calls', me, cart, inStock, cartItems', version, page'.open)
    BY <1>1, <1>9, <2>3, <2>4, ShownSettles
  <2> QED BY <1>2, <2>5 DEF Agreed
<1>10. CASE C!Ignore(i)
  <2>1. calls' = cs /\ UNCHANGED <<cartItems, page>>
    BY <1>10 DEF C!Ignore, cs
  <2>2. ~Loads(c)
    BY <1>1, <1>4, <1>10 DEF C!Ignore, Loads, LoadOK, c
  <2> QED BY <1>8, <2>1, <2>2
<1>11. CASE C!Persisted(i) \/ C!Pushed(i)
  <2>1. /\ c.live /\ c.kind \in {"put", "delete", "push"} /\ c.at = "answered"
        /\ \/ C!Shown(c.found, cs) /\ (c.kind = "push" \/ c.version = version)
           \/ calls' = cs /\ UNCHANGED <<cartItems, page>>
    BY <1>11 DEF C!Persisted, C!Pushed, C!Arrives, C!Latest, c, cs
  <2>2. CASE C!Shown(c.found, cs) /\ (c.kind = "push" \/ c.version = version)
    <3>1. Covers(c.found, c.ids, inStock)
      BY <1>1, <2>1 DEF CallsOK, Sound, Writers, c
    <3>2. SameNow(c.ids, cartItems, inStock)
      BY <1>1, <1>4, <2>1, <2>2 DEF LiveOK, c
    <3>3. SameNow(cartItems, c.found, inStock)
      BY <3>1, <3>2 DEF Covers, SameNow
    <3>4. NoLoads(calls)
      BY <1>1, <1>4, <2>1 DEF LiveOK, NoLoads, Loads, c
    <3> QED BY <1>6, <1>9, <2>2, <3>3, <3>4
  <2>3. CASE calls' = cs /\ UNCHANGED <<cartItems, page>>
    BY <1>8, <2>1, <2>3 DEF Loads
  <2> QED BY <2>1, <2>2, <2>3
<1>12. CASE C!Hydrated(i)
  <2>1. /\ c.live /\ c.kind = "get" /\ c.at = "answered"
    BY <1>12 DEF C!Hydrated, C!Arrives, c
  <2>2. \A j \in 1 .. Len(calls) : calls[j].live /\ calls[j].kind \in {"push", "put", "delete", "get"} => j = i
    BY <1>1, <1>4, <2>1 DEF LiveOK, c
  <2>3. \A j \in 1 .. Len(cs) : cs[j].live => cs[j].kind \notin {"push", "put", "delete", "get"}
    <3>1. Len(cs) = Len(calls) - 1 /\ Len(calls) \in Nat /\ \A j \in 1 .. Len(cs) : cs[j] = calls[Moved(i, j)]
      BY <1>1, CartRemoval
    <3>2. \A j \in 1 .. Len(cs) : Moved(i, j) \in 1 .. Len(calls) /\ Moved(i, j) # i
      BY <1>1, <3>1, MovedFacts
    <3> QED BY <2>2, <3>1, <3>2
  <2>4. NoLoads(cs) /\ \A new : LiveOK(cs, new, version, inStock)
    BY <2>3 DEF NoLoads, Loads, LiveOK
  <2>7. ASSUME c.found = {}, cartItems # {}
        PROVE  Agreed'
    <3> DEFINE p == C!Call("push", cartItems, 0)
               r == Append(cs, p)
    <3>1. calls' = r /\ UNCHANGED <<cartItems, page>>
      BY <1>12, <2>7 DEF C!Hydrated, c, cs
    <3>2. /\ p \in C!Calls /\ p.kind = "push" /\ p.who = me /\ p.ids = cartItems /\ p.at = "sent"
      BY <1>1, FreshCall DEF C!Kinds
    <3> HIDE DEF p
    <3>3. OfTab(p, me) /\ SameNow(p.ids, cartItems, inStock)
      BY <3>2 DEF OfTab, Unwritten, Writers, SameNow
    <3>4. Agreeing(r, me, cart, inStock, cartItems)
      BY <1>1, <3>2, <3>3, SettledSent
    <3>5. LiveOK(r, cartItems, version, inStock)
      BY <1>1, <1>7, <2>3, <3>2, <3>3, LiveSent
    <3>6. NoLoads(r)
      BY <1>1, <2>4, <3>2, AppendFacts DEF NoLoads, Loads
    <3> HIDE DEF r
    <3>7. LoadOK(r, me, cart, inStock, page.open)
      BY <3>6 DEF LoadOK, NoLoads
    <3> QED BY <1>2, <3>1, <3>4, <3>5, <3>7 DEF Agreed, Agreement
  <2>5. CASE page.open
    <3>1. Agreeing(cs, me, cart, inStock, cartItems)
      BY <1>1, <1>4, <1>5, <2>5, SettledGone DEF c
    <3>2. page.asked = cartItems /\ cartItems # {}
      BY <1>1, <2>5 DEF PageOK
    <3>3. CASE c.found # {}
      <4>1. C!Shown(c.found, cs)
        BY <1>12, <3>3 DEF C!Hydrated, c, cs
      <4>2. Agreeing(cs, me, cart, inStock, c.found) \/ (page.open /\ c.found # {} /\ page.asked # c.found)
        BY <2>5, <3>1, <3>2, <3>3
      <4>3. Agreement(calls', me, cart, inStock, cartItems', version, page'.open)
        BY <1>1, <1>6, <2>4, <4>1, <4>2, ShownSettles
      <4> QED BY <1>2, <4>3 DEF Agreed
    <3>4. CASE c.found = {}
      BY <2>7, <3>2, <3>4
    <3> QED BY <3>3, <3>4
  <2>6. CASE ~page.open
    <3>1. i = Len(calls) /\ (cart[me] = C!NoCart \/ SameNow(cart[me].ids, c.found, inStock))
      BY <1>1, <1>4, <2>1, <2>6 DEF LoadOK, Loads, c
    <3>2. \A j \in 1 .. Len(cs) : ~OfTab(cs[j], me)
      <4>1. Len(cs) = Len(calls) - 1 /\ Len(calls) \in Nat /\ \A j \in 1 .. Len(cs) : cs[j] = calls[Moved(i, j)]
        BY <1>1, CartRemoval
      <4>2. \A j \in 1 .. Len(cs) : j \in 1 .. Len(calls) /\ j < i /\ cs[j] = calls[j]
        BY <3>1, <4>1 DEF Moved
      <4>3. \A j \in 1 .. Len(cs) : Over(calls[j])
        BY <1>1, <2>1, <4>2 DEF CallsOK, c
      <4> QED BY <4>2, <4>3 DEF OfTab, Unwritten, Over
    <3>3. Agreeing(cs, me, cart, inStock, c.found)
      BY <3>1, <3>2 DEF Agreeing, Final
    <3>4. CASE c.found # {}
      <4>1. C!Shown(c.found, cs)
        BY <1>12, <3>4 DEF C!Hydrated, c, cs
      <4>2. Agreement(calls', me, cart, inStock, cartItems', version, page'.open)
        BY <1>1, <1>6, <2>4, <3>3, <4>1, ShownSettles
      <4> QED BY <1>2, <4>2 DEF Agreed
    <3>5. CASE c.found = {} /\ cartItems # {}
      BY <2>7, <3>5
    <3>6. CASE c.found = {} /\ cartItems = {}
      <4>1. calls' = cs /\ UNCHANGED <<cartItems, page>>
        BY <1>12, <3>6 DEF C!Hydrated, c, cs
      <4>2. LoadOK(cs, me, cart, inStock, page.open)
        BY <2>4 DEF LoadOK, NoLoads
      <4> QED BY <1>2, <2>4, <3>3, <3>6, <4>1, <4>2 DEF Agreed, Agreement
    <3> QED BY <3>4, <3>5, <3>6
  <2> QED BY <2>5, <2>6
<1>13. CASE C!Prepared(i)
  <2> DEFINE b == [C!Call("build", c.ids, 0) EXCEPT !.who = c.who]
             r == Append(cs, b)
  <2>1. /\ calls' = r /\ UNCHANGED <<cartItems, page>>
        /\ c.kind = "prepare" /\ c.at = "answered" /\ c.live
    BY <1>13 DEF C!Prepared, C!Arrives, c, cs
  <2>2. b \in C!Calls /\ b.kind = "build"
    BY <1>1, <2>1 DEF C!Call, C!Calls, C!Kinds, C!Places
  <2>3. page.open
    BY <1>1, <2>1 DEF PageCalls, Asks, c
  <2>4. Agreement(cs, me, cart, inStock, cartItems, version, page.open)
    BY <1>1, <1>3, <1>5, <2>1, AgreementGone DEF c, Loads
  <2> HIDE DEF b
  <2>5. Agreeing(r, me, cart, inStock, cartItems)
    <3>1. ~OfTab(b, me)
      BY <2>2 DEF OfTab, Unwritten, Writers
    <3> QED BY <1>1, <2>2, <2>3, <2>4, <3>1, SettledKept DEF Agreement
  <2>6. LiveOK(r, cartItems, version, inStock)
    BY <1>1, <2>2, <2>4, LiveSent DEF Agreement
  <2>7. LoadOK(r, me, cart, inStock, page.open)
    <3>1. \A j \in 1 .. Len(cs) : Loads(cs[j]) => cs[j].at # "failed"
      BY <2>4 DEF Agreement, LoadOK
    <3>2. \A j \in 1 .. Len(r) : Loads(r[j]) => r[j].at # "failed"
      BY <1>1, <2>2, <3>1, AppendFacts DEF Loads
    <3> QED BY <2>3, <3>2 DEF LoadOK
  <2> HIDE DEF r
  <2> QED BY <1>2, <2>1, <2>5, <2>6, <2>7 DEF Agreed, Agreement
<1>14. CASE C!Built(i) \/ C!CheckoutFails(i)
  <2>1. /\ calls' = cs /\ UNCHANGED cartItems /\ c.kind \in {"prepare", "build"}
    BY <1>14 DEF C!Built, C!CheckoutFails, C!Arrives, c, cs
  <2>2. page'.open = page.open
    <3>1. CASE C!Built(i)
      BY <1>1, <3>1 DEF C!Built, PageType
    <3>2. CASE C!CheckoutFails(i)
      BY <1>1, <3>2 DEF C!CheckoutFails, PageType
    <3> QED BY <1>14, <3>1, <3>2
  <2> QED BY <1>8, <2>1, <2>2 DEF Loads
<1> QED BY <1>10, <1>11, <1>12, <1>13, <1>14 DEF C!Answer

LEMMA AgreedWorld ==
    ASSUME CartsInv,
           \/ \E x \in Variant : C!SellOut(x)
           \/ \E p \in Principal : C!Age(p) \/ C!Register(p)
           \/ C!TimeOut \/ C!WindowEnds \/ C!SelectCandidates \/ C!ExcludeRegistered \/ C!DeleteCarts,
           ~broken, Agreed
    PROVE  Agreed'
<1>1. /\ calls \in Seq(C!Calls) /\ me \in Principal /\ PageType(page) /\ cart \in [Principal -> C!Carts]
  BY TabFacts DEF CartsInv, CartsRest
<1>2. /\ LiveOK(calls, cartItems, version, inStock) /\ LoadOK(calls, me, cart, inStock, page.open)
      /\ page.open \/ NoLoads(calls) => Agreeing(calls, me, cart, inStock, cartItems)
  BY DEF Agreed, Agreement
<1>3. CASE C!TimeOut
  <2> DEFINE ab == C!Aborted(calls)
  <2>1. calls' = ab /\ UNCHANGED <<cartItems, version, me, cart, inStock, broken>> /\ page.state = "building"
        /\ page' = [page EXCEPT !.state = "error"]
    BY <1>3 DEF C!TimeOut
  <2>2. page.open /\ page'.open
    BY <1>1, <2>1 DEF PageType, C!Closed
  <2>3. /\ ab \in Seq(C!Calls) /\ Len(ab) = Len(calls)
        /\ \A i \in 1 .. Len(calls) :
              /\ ab[i].live => calls[i].live
              /\ ab[i].kind = calls[i].kind /\ ab[i].ids = calls[i].ids /\ ab[i].version = calls[i].version
              /\ ab[i].at = calls[i].at
    BY <1>1, AbortFacts
  <2>4. Agreeing(ab, me, cart, inStock, cartItems)
    BY <1>1, <1>2, <2>2, MineAborted
  <2> HIDE DEF ab
  <2>5. LiveOK(ab, cartItems, version, inStock)
    BY <1>2, <2>3, LiveSteps
  <2>6. LoadOK(ab, me, cart, inStock, page'.open)
    BY <1>2, <2>2, <2>3 DEF LoadOK, Loads
  <2> QED BY <2>1, <2>4, <2>5, <2>6 DEF Agreed, Agreement
<1>4. CASE \/ \E x \in Variant : C!SellOut(x)
           \/ \E p \in Principal : C!Age(p) \/ C!Register(p)
           \/ C!WindowEnds \/ C!SelectCandidates \/ C!ExcludeRegistered \/ C!DeleteCarts
  <2>1. /\ UNCHANGED <<cartItems, version, page, me, calls, broken>> /\ inStock' \subseteq inStock
        /\ cart'[me] = C!NoCart \/ (cart[me] # C!NoCart /\ cart'[me].ids = cart[me].ids)
    <3>1. CASE \/ \E x \in Variant : C!SellOut(x)
               \/ \E p \in Principal : C!Register(p)
               \/ C!WindowEnds \/ C!SelectCandidates \/ C!ExcludeRegistered
      BY <3>1 DEF C!SellOut, C!Register, C!WindowEnds, C!SelectCandidates, C!ExcludeRegistered, C!CleanupServed, C!tab
    <3>2. CASE \E p \in Principal : C!Age(p)
      <4>1. PICK q \in Principal : C!Age(q)
        BY <3>2
      <4>2. /\ cart[q] # C!NoCart /\ cart' = [cart EXCEPT ![q] = [cart[q] EXCEPT !.old = TRUE]]
            /\ UNCHANGED <<cartItems, version, page, me, calls, inStock, broken>>
        BY <4>1 DEF C!Age, C!tab
      <4>3. cart[q] \in [ids : SUBSET Variant, old : BOOLEAN]
        BY <1>1, <4>2 DEF C!Carts
      <4>4. [cart[q] EXCEPT !.old = TRUE].ids = cart[q].ids
        BY <4>3
      <4>5. \A p \in Principal : cart'[p] = IF p = q THEN [cart[q] EXCEPT !.old = TRUE] ELSE cart[p]
        BY <1>1, <4>2
      <4> QED BY <1>1, <4>2, <4>4, <4>5
    <3>3. CASE C!DeleteCarts
      BY <1>1, <3>3 DEF C!DeleteCarts, C!CleanupServed, C!tab
    <3> QED BY <1>4, <3>1, <3>2, <3>3
  <2>2. Agreeing(calls, me, cart, inStock, cartItems) => Agreeing(calls, me, cart', inStock', cartItems)
    BY <2>1, SettledLater DEF SameNow
  <2>3. LiveOK(calls, cartItems, version, inStock')
    BY <1>2, <2>1, LiveLater DEF SameNow
  <2>4. LoadOK(calls, me, cart', inStock', page.open)
    BY <1>2, <2>1 DEF LoadOK, SameNow
  <2> QED BY <1>2, <2>1, <2>2, <2>3, <2>4 DEF Agreed, Agreement
<1> QED BY <1>3, <1>4

LEMMA AgreedInit == C!Init => Agreed
<1> SUFFICES ASSUME C!Init
             PROVE  Agreed
  OBVIOUS
<1> DEFINE c == [kind |-> "get", who |-> me, version |-> 0, ids |-> {}, at |-> "sent",
                 found |-> {}, live |-> TRUE]
<1>1. calls = <<c>> /\ page.open = FALSE
  BY DEF C!Init, C!Closed
<1>2. c.kind = "get" /\ c.at = "sent" /\ c.live
  OBVIOUS
<1> HIDE DEF c
<1>3. Len(calls) = 1 /\ calls[1] = c
  BY <1>1
<1>4. LiveOK(calls, cartItems, version, inStock) /\ LoadOK(calls, me, cart, inStock, FALSE) /\ ~NoLoads(calls)
  BY <1>2, <1>3 DEF LiveOK, LoadOK, NoLoads, Loads
<1> QED BY <1>1, <1>4 DEF Agreed, Agreement

LEMMA AgreedNext == CartsInv /\ Agreed /\ [C!Next]_(C!vars) => Agreed'
<1> SUFFICES ASSUME CartsInv, Agreed, [C!Next]_(C!vars), ~broken'
             PROVE  Agreed'
  BY DEF Agreed
<1>1. CASE UNCHANGED C!vars
  BY <1>1 DEF C!vars, C!tab, Agreed
<1>2. CASE (\E new \in SUBSET Variant : C!AddMany(new)) \/ (\E x \in Variant : C!RemoveItem(x)) \/ C!Clear
  <2>1. ~broken
    BY <1>2 DEF C!AddMany, C!RemoveItem, C!Clear, C!Change
  <2> QED BY <1>2, <2>1, ChangeDoes, AgreedChanged
<1>3. CASE C!OpenCheckout \/ C!Retry
  <2>1. ~broken
    BY <1>3 DEF C!OpenCheckout, C!Retry
  <2> QED BY <1>3, <2>1, AgreedAsked
<1>4. CASE \E p \in Principal : C!Reload(p)
  BY <1>4, AgreedReloaded
<1>5. ASSUME NEW i \in C!Indices, C!Serve(i)
      PROVE  Agreed'
  <2>1. ~broken
    BY <1>5 DEF C!Serve, C!FindVariants, C!UpsertCart, C!ReadBack, C!GetCart, C!Count, C!SetExpiry, C!BuildLinks,
                C!UnlimitedServed, C!Served
  <2> QED BY <1>5, <2>1, AgreedServed
<1>6. ASSUME NEW i \in C!Indices, C!Answer(i)
      PROVE  Agreed'
  <2>1. ~broken
    BY <1>6 DEF C!Answer, C!Ignore, C!Persisted, C!Hydrated, C!Pushed, C!Prepared, C!Built, C!CheckoutFails, C!Received
  <2> QED BY <1>6, <2>1, AgreedAnswered
<1>7. CASE \E i \in C!Indices : C!Break(i)
  BY <1>7 DEF C!Break
<1>8. CASE \/ \E x \in Variant : C!SellOut(x)
           \/ \E p \in Principal : C!Age(p) \/ C!Register(p)
           \/ C!TimeOut \/ C!WindowEnds \/ C!SelectCandidates \/ C!ExcludeRegistered \/ C!DeleteCarts
  <2>1. ~broken
    BY <1>8 DEF C!SellOut, C!Age, C!Register, C!TimeOut, C!WindowEnds, C!SelectCandidates, C!ExcludeRegistered,
                C!DeleteCarts, C!CleanupServed
  <2> QED BY <1>8, <2>1, AgreedWorld
<1> QED BY <1>1, <1>2, <1>3, <1>4, <1>5, <1>6, <1>7, <1>8 DEF C!Next

\* With all requests through and none failed, the tab shows the stored cart, whatever was
\* changed, loaded and checked out meanwhile (CartContext, CartService).
THEOREM CartSettles == C!Spec => []QuietAgreement
<1>1. CartsInv /\ Agreed => QuietAgreement
  <2> SUFFICES ASSUME CartsInv, Agreed, calls = <<>>, ~broken, cart[me] # C!NoCart
               PROVE  cartItems \cap inStock = cart[me].ids \cap inStock
    BY DEF QuietAgreement, C!QuietAgreement
  <2>1. \A i \in 1 .. Len(calls) : FALSE
    OBVIOUS
  <2>2. Agreeing(calls, me, cart, inStock, cartItems)
    BY <2>1 DEF Agreed, Agreement, NoLoads
  <2>3. SameNow(cart[me].ids, cartItems, inStock)
    BY <2>1, <2>2 DEF Agreeing
  <2> QED BY <2>3 DEF SameNow
<1> QED BY <1>1, CartsInit, CartsNext, AgreedInit, AgreedNext, PTL DEF C!Spec

-----------------------------------------------------------------------------
(* FillBestCards: the inductive invariant.  A clean fill is the only one,  *)
(* it holds the lock, and the cart rests until it gets there; a dialog     *)
(* that holds its quote keeps the shopper away from the cart.              *)

\* None of the offers has a card that is in the cart, or another of the offers has.
Absent(picked) ==
    \A new \in picked, old \in items \cup picked :
        CardOf[new] = CardOf[old] /\ old \in onSale => new = old

CleanOK(m) ==
    fill[m].at # "idle" /\ fill[m].clean =>
        /\ Active = {m} /\ locked
        /\ fill[m].at # "add" => Settled
        /\ fill[m].job = "queued" => items \cap onSale \subseteq fill[m].initial
        /\ fill[m].job = "done" => Absent(fill[m].result)
        /\ ~fill[m].quoted \/ fill[m].at = "add" =>
              \A s \in fill[m].priced : delivery[s] = fill[m].turn
        /\ fill[m].at = "add" =>
              /\ Absent(fill[m].added)
              /\ puts = <<[ids |-> items, by |-> m]>>

QuoteAwaited ==
    /\ \A m \in Mount : /\ fill[m].at = "quote" => fill[m].job = "done"
                        /\ fill[m].at = "add" => fill[m].job = "none"
    /\ fill[mounted].quoted /\ fill[mounted].at \notin {"idle", "add"} => dialog.quote = None
    /\ fill[mounted].at = "quote" /\ dialog.pending # None =>
          /\ dialog.pending.offers = fill[mounted].result
          /\ dialog.pending.clean => fill[mounted].clean

PendingOK ==
    dialog.open /\ dialog.quote # None /\ dialog.pending # None /\ dialog.pending.clean =>
        Active = {} /\ Settled /\ Absent(dialog.pending.offers)

\* While a dialog shows a quote, no fill is clean.
QuoteAlone ==
    dialog.open /\ dialog.quote # None => \A m \in Active : ~fill[m].clean

Clean == \A m \in Mount : CleanOK(m)

FillInv == TypeOK /\ LockHasOwner /\ QuoteAwaited /\ QuoteAlone /\ PendingOK /\ Clean

-----------------------------------------------------------------------------
(* Types. *)

LEMMA Starts ==
    ASSUME FillAssumption
    PROVE  /\ Idle \in Fills /\ Closed \in Dialogs
           /\ \A q \in BOOLEAN : Started(q) \in Fills
<1>1. Idle \in Fills
  BY DEF FillAssumption, Idle, Fills
<1>2. Closed \in Dialogs
  BY DEF Closed, Dialogs
<1>3. ASSUME NEW q \in BOOLEAN PROVE Started(q) \in Fills
  <2> DEFINE alone == Settled /\ Active = {}
  <2>1. alone \in BOOLEAN
    OBVIOUS
  <2>2. Started(q) = [Idle EXCEPT !.at = "create", !.quoted = q, !.clean = alone]
    BY DEF Started
  <2> HIDE DEF alone
  <2> QED BY <1>1, <2>1, <2>2 DEF Fills
<1> QED BY <1>1, <1>2, <1>3

\* A request leaves the queue.
LEMMA PopsPut ==
    ASSUME TypeOK, puts # <<>>
    PROVE  Head(puts) \in Puts /\ Tail(puts) \in Seq(Puts)
BY DEF TypeOK

LEMMA AnsweredTypes ==
    ASSUME FillAssumption, TypeOK, NEW by \in Mount \cup {None}, Answered(by)
    PROVE  fill' \in [Mount -> Fills] /\ locked' \in BOOLEAN /\ dialog' \in Dialogs
<1>1. CASE by = None
  BY <1>1 DEF TypeOK, Answered
<1>2. CASE by # None
  <2>1. fill' \in [Mount -> Fills] /\ locked' \in BOOLEAN
    BY <1>2, Starts DEF TypeOK, Answered, Unlocked
  <2>2. dialog' \in Dialogs
    BY <1>2 DEF TypeOK, Answered, Dialogs
  <2> QED BY <2>1, <2>2
<1> QED BY <1>1, <1>2

LEMMA BeginTypes ==
    ASSUME TypeOK, NEW m \in Mount, NEW new \in Fills, Begin(m, new)
    PROVE  fill' \in [Mount -> Fills]
<1>1. ASSUME NEW n \in Mount PROVE [fill[n] EXCEPT !.clean = FALSE] \in Fills
  BY DEF TypeOK, Fills
<1> QED BY <1>1 DEF TypeOK, Begin

LEMMA EndedTypes ==
    ASSUME FillAssumption, TypeOK, NEW m \in Mount, Ended(m)
    PROVE  fill' \in [Mount -> Fills] /\ locked' \in BOOLEAN /\ dialog' \in Dialogs
<1>1. fill' \in [Mount -> Fills] /\ locked' \in BOOLEAN
  BY Starts DEF TypeOK, Ended, Unlocked
<1>2. dialog' \in Dialogs
  BY DEF TypeOK, Ended, Dialogs
<1> QED BY <1>1, <1>2

LEMMA SelectedTypes ==
    ASSUME TypeOK, NEW stores, turn' \in 0 .. MaxFills, Selected(stores)
    PROVE  delivery' \in [Store -> 0 .. MaxFills]
BY DEF TypeOK, Selected

LEMMA NextTurnTypes ==
    ASSUME FillAssumption, TypeOK, NextTurn
    PROVE  turn' \in 0 .. MaxFills
BY DEF TypeOK, NextTurn, FillAssumption

LEMMA EventTypes ==
    ASSUME FillAssumption, TypeOK, Event
    PROVE  events' \in 0 .. MaxEvents
BY DEF TypeOK, Event, FillAssumption

\* The cart and the request that saves it.
LEMMA PersistTypes ==
    ASSUME TypeOK, NEW new \in SUBSET Offer, NEW by \in Mount \cup {None}, Persist(new, by)
    PROVE  items' \subseteq Offer /\ puts' \in Seq(Puts)
<1>1. [ids |-> new, by |-> by] \in Puts
  BY DEF Puts
<1> QED BY <1>1 DEF TypeOK, Persist

LEMMA AddingTypes ==
    ASSUME TypeOK, NEW m \in Mount, NEW with, NEW picked \in SUBSET Offer,
           Idle \in Fills, with.quoted \in BOOLEAN, with.turn \in 0 .. MaxFills,
           with.clean \in BOOLEAN, with.priced \in SUBSET Store, Adding(m, with, picked)
    PROVE  /\ items' \subseteq Offer /\ puts' \in Seq(Puts)
           /\ fill' \in [Mount -> Fills] /\ UNCHANGED <<stored, onSale>>
<1> DEFINE new == [Idle EXCEPT !.at = "add", !.added = picked, !.quoted = with.quoted,
                               !.turn = with.turn, !.clean = with.clean, !.priced = with.priced]
<1>1. new \in Fills
  BY DEF Fills
<1>2. fill' \in [Mount -> Fills]
  BY <1>1, BeginTypes DEF Adding
<1>3. items \cup picked \in SUBSET Offer
  BY DEF TypeOK
<1>4. items' \subseteq Offer /\ puts' \in Seq(Puts)
  BY <1>3, PersistTypes DEF Adding
<1> QED BY <1>2, <1>4 DEF Adding

LEMMA ChangeTypes ==
    ASSUME FillAssumption, TypeOK, NEW new \in SUBSET Offer, Change, Persist(new, None),
           delivery' \in [Store -> 0 .. MaxFills]
    PROVE  TypeOK'
<1>1. items' \subseteq Offer /\ puts' \in Seq(Puts)
  BY PersistTypes
<1>2. events' \in 0 .. MaxEvents
  BY EventTypes DEF Change
<1> QED BY <1>1, <1>2 DEF TypeOK, Change

\* One step for the fill of one page: its new data are a fill's.
LEMMA NowTypes ==
    ASSUME TypeOK, NEW m \in Mount, NEW new \in Fills, Now(m, new),
           UNCHANGED <<delivery, mounted, counters>>
    PROVE  TypeOK'
BY DEF TypeOK, Now, cartVars, counters

LEMMA GivesUpTypes ==
    ASSUME FillAssumption, TypeOK, NEW m \in Mount, GivesUp(m),
           UNCHANGED <<delivery, mounted, turn>>, events' \in 0 .. MaxEvents
    PROVE  TypeOK'
<1>1. fill' \in [Mount -> Fills] /\ locked' \in BOOLEAN /\ dialog' \in Dialogs
  BY EndedTypes DEF GivesUp
<1> QED BY <1>1 DEF TypeOK, GivesUp, cartVars

LEMMA TypesKept ==
    ASSUME FillAssumption, TypeOK, Next
    PROVE  TypeOK'
<1>1. ASSUME NEW o \in Offer, Add(o) \/ Remove(o) PROVE TypeOK'
  <2>1. items \cup {o} \in SUBSET Offer /\ items \ {o} \in SUBSET Offer
    BY DEF TypeOK
  <2>2. delivery' \in [Store -> 0 .. MaxFills]
    BY <1>1 DEF Add, Remove, TypeOK
  <2> QED BY <1>1, <2>1, <2>2, ChangeTypes DEF Add, Remove
<1>2. ASSUME NEW o \in Offer, SellOut(o) PROVE TypeOK'
  <2>1. events' \in 0 .. MaxEvents
    BY <1>2, EventTypes DEF SellOut
  <2> QED BY <1>2, <2>1 DEF SellOut, TypeOK
<1>3. CASE Clear
  <2>1. delivery' \in [Store -> 0 .. MaxFills]
    BY <1>3 DEF Clear, FillAssumption
  <2> QED BY <1>3, <2>1, ChangeTypes DEF Clear
<1>4. CASE ServePut
  <2>1. Head(puts) \in Puts /\ Tail(puts) \in Seq(Puts)
    BY <1>4, PopsPut DEF ServePut
  <2>2. fill' \in [Mount -> Fills] /\ locked' \in BOOLEAN /\ dialog' \in Dialogs
    BY <1>4, <2>1, AnsweredTypes DEF ServePut, Puts
  <2>3. stored' \subseteq Offer /\ items' \subseteq Offer
    BY <1>4, <2>1 DEF ServePut, Puts, TypeOK
  <2> QED BY <1>4, <2>1, <2>2, <2>3 DEF ServePut, TypeOK, counters
<1>5. CASE LosePut
  <2>1. Head(puts) \in Puts /\ Tail(puts) \in Seq(Puts)
    BY <1>5, PopsPut DEF LosePut
  <2>2. fill' \in [Mount -> Fills] /\ locked' \in BOOLEAN /\ dialog' \in Dialogs
    BY <1>5, <2>1, AnsweredTypes DEF LosePut, Puts
  <2>3. stored' \subseteq Offer /\ events' \in 0 .. MaxEvents
    BY <1>5, <2>1, EventTypes DEF LosePut, Puts, TypeOK
  <2> QED BY <1>5, <2>1, <2>2, <2>3 DEF LosePut, TypeOK
<1>6. CASE OpenDialog \/ CloseDialog
  <2>1. dialog' \in Dialogs
    BY <1>6 DEF OpenDialog, CloseDialog, Reopened, TypeOK, Dialogs
  <2> QED BY <1>6, <2>1 DEF OpenDialog, CloseDialog, TypeOK, cartVars, counters
<1>7. CASE Leave
  BY <1>7, Starts DEF Leave, TypeOK, cartVars, counters
<1>8. CASE StartEstimatedFill
  <2>1. turn' \in 0 .. MaxFills
    BY <1>8, NextTurnTypes DEF StartEstimatedFill
  <2>2. delivery' \in [Store -> 0 .. MaxFills]
    BY <1>8, <2>1, SelectedTypes DEF StartEstimatedFill
  <2>3. [Started(FALSE) EXCEPT !.turn = turn', !.priced = Store] \in Fills
    BY <2>1, Starts DEF Fills
  <2>4. mounted \in Mount
    BY DEF TypeOK
  <2>5. fill' \in [Mount -> Fills]
    BY <1>8, <2>3, <2>4, BeginTypes DEF StartEstimatedFill
  <2>6. dialog' \in Dialogs
    BY <1>8 DEF StartEstimatedFill, TypeOK, Dialogs
  <2> QED BY <1>8, <2>1, <2>2, <2>5, <2>6 DEF StartEstimatedFill, Asking, TypeOK, cartVars
<1>9. CASE LoadDeliveryOptions
  <2>1. Started(TRUE) \in Fills /\ mounted \in Mount
    BY Starts DEF TypeOK
  <2>2. fill' \in [Mount -> Fills]
    BY <1>9, <2>1, BeginTypes DEF LoadDeliveryOptions
  <2>3. dialog' \in Dialogs
    BY <1>9 DEF LoadDeliveryOptions, TypeOK, Dialogs
  <2> QED BY <1>9, <2>2, <2>3 DEF LoadDeliveryOptions, Asking, TypeOK, cartVars
<1>10. CASE StartQuotedFill
  <2>1. turn' \in 0 .. MaxFills
    BY <1>10, NextTurnTypes DEF StartQuotedFill
  <2>2. delivery' \in [Store -> 0 .. MaxFills]
    BY <1>10, <2>1, SelectedTypes DEF StartQuotedFill, SelectedFirst
  <2>3. dialog' \in Dialogs /\ locked' \in BOOLEAN
    BY <1>10 DEF StartQuotedFill, TypeOK, Dialogs
  <2> DEFINE new == dialog.pending.offers \ items
             with == [quoted |-> TRUE, turn |-> turn', priced |-> dialog.quote,
                      clean |-> dialog.pending.clean /\ Active = {}]
  <2>4. CASE new = {}
    BY <1>10, <2>1, <2>2, <2>3, <2>4 DEF StartQuotedFill, TypeOK, cartVars
  <2>5. CASE new # {}
    <3>1. Adding(mounted, with, new)
      BY <1>10, <2>5 DEF StartQuotedFill
    <3>2. new \in SUBSET Offer /\ dialog.quote \in SUBSET Store
          /\ mounted \in Mount
      BY <1>10 DEF StartQuotedFill, TypeOK, Dialogs, Pending
    <3>3. with.clean \in BOOLEAN
      <4>1. with.clean = (dialog.pending.clean /\ Active = {})
        OBVIOUS
      <4>2. (dialog.pending.clean /\ Active = {}) \in BOOLEAN
        OBVIOUS
      <4> QED BY <4>1, <4>2
    <3>4. with.quoted \in BOOLEAN /\ with.turn \in 0 .. MaxFills
          /\ with.priced \in SUBSET Store
      BY <2>1, <3>2
    <3> HIDE DEF new, with
    <3>5. /\ items' \subseteq Offer /\ puts' \in Seq(Puts)
          /\ fill' \in [Mount -> Fills] /\ UNCHANGED <<stored, onSale>>
      BY <3>1, <3>2, <3>3, <3>4, AddingTypes, Starts
    <3> QED BY <1>10, <2>1, <2>2, <2>3, <3>5 DEF StartQuotedFill, TypeOK
  <2> QED BY <2>4, <2>5
<1>11. ASSUME NEW m \in Mount, CreateJob(m) PROVE TypeOK'
  <2>1. [fill[m] EXCEPT !.at = "wait", !.job = "queued", !.initial = InitialCart] \in Fills
    BY ZenonT(60) DEF TypeOK, Fills, InitialCart
  <2> QED BY <1>11, <2>1, NowTypes DEF CreateJob, Waiting
<1>12. ASSUME NEW m \in Mount, Optimize(m) PROVE TypeOK'
  <2>1. [fill[m] EXCEPT !.job = "failed"] \in Fills
    BY ZenonT(60) DEF TypeOK, Fills
  <2>2. ASSUME NEW result \in SUBSET onSale
        PROVE  [fill[m] EXCEPT !.job = "done", !.result = result] \in Fills
    BY ZenonT(60) DEF TypeOK, Fills
  <2> QED BY <1>12, <2>1, <2>2, NowTypes DEF Optimize
<1>13. ASSUME NEW m \in Mount, ReadJob(m) PROVE TypeOK'
  <2>1. [fill[m] EXCEPT !.at = "read", !.seen = (fill[m].job = "done")] \in Fills
    BY ZenonT(60) DEF TypeOK, Fills
  <2> QED BY <1>13, <2>1, NowTypes DEF ReadJob, Waiting
<1>14. ASSUME NEW m \in Mount, ReadState(m) PROVE TypeOK'
  <2> USE <1>14
  <2>0. UNCHANGED <<delivery, mounted, turn, events>> /\ events' \in 0 .. MaxEvents
    BY DEF ReadState, Waiting, counters, TypeOK
  <2>1. CASE Now(m, [fill[m] EXCEPT !.at = "wait"])
    <3>1. [fill[m] EXCEPT !.at = "wait"] \in Fills
      BY ZenonT(60) DEF TypeOK, Fills
    <3> QED BY <2>0, <2>1, <3>1, NowTypes DEF counters
  <2>2. CASE GivesUp(m)
    BY <2>0, <2>2, GivesUpTypes
  <2>3. CASE /\ fill' = [fill EXCEPT ![m].at = "quote"]
             /\ dialog' = IF m # mounted THEN dialog
                          ELSE [dialog EXCEPT !.pending = [offers |-> fill[m].result,
                                                           clean |-> fill[m].clean]]
             /\ UNCHANGED <<cartVars, locked>>
    <3>1. fill' \in [Mount -> Fills]
      <4>1. [fill[m] EXCEPT !.at = "quote"] \in Fills
        BY ZenonT(60) DEF TypeOK, Fills
      <4>2. fill' = [fill EXCEPT ![m] = [fill[m] EXCEPT !.at = "quote"]]
        BY <2>3 DEF TypeOK
      <4> QED BY <4>1, <4>2 DEF TypeOK
    <3>2. [offers |-> fill[m].result, clean |-> fill[m].clean] \in Pending
      BY DEF TypeOK, Fills, Pending
    <3>3. dialog' \in Dialogs
      BY <2>3, <3>2 DEF TypeOK, Dialogs
    <3> QED BY <2>0, <2>3, <3>1, <3>3 DEF TypeOK, cartVars
  <2>4. CASE Adding(m, fill[m], fill[m].result \ items) /\ UNCHANGED <<locked, dialog>>
    <3>1. fill[m] \in Fills
      BY DEF TypeOK
    <3>2. /\ fill[m].result \ items \in SUBSET Offer
          /\ fill[m].quoted \in BOOLEAN /\ fill[m].turn \in 0 .. MaxFills
          /\ fill[m].clean \in BOOLEAN /\ fill[m].priced \in SUBSET Store
      BY <3>1 DEF Fills
    <3>3. /\ items' \subseteq Offer /\ puts' \in Seq(Puts)
          /\ fill' \in [Mount -> Fills] /\ UNCHANGED <<stored, onSale>>
      BY <2>4, <3>2, AddingTypes, Starts
    <3> QED BY <2>0, <2>4, <3>3 DEF TypeOK
  <2> QED BY <2>1, <2>2, <2>3, <2>4 DEF ReadState
<1>15. ASSUME NEW m \in Mount, GetQuote(m) PROVE TypeOK'
  <2>1. fill' \in [Mount -> Fills] /\ locked' \in BOOLEAN
    BY <1>15, Starts DEF GetQuote, TypeOK, Unlocked
  <2>2. PICK priced \in SUBSET {StoreOf[o] : o \in fill[m].result} :
             dialog' = IF m # mounted THEN dialog
                       ELSE [dialog EXCEPT !.loading = FALSE, !.quote = priced]
    BY <1>15 DEF GetQuote
  <2>3. priced \in SUBSET Store
    BY <2>2 DEF TypeOK, Fills, FillAssumption
  <2>4. dialog' \in Dialogs
    BY <2>2, <2>3 DEF TypeOK, Dialogs
  <2> QED BY <1>15, <2>1, <2>4 DEF GetQuote, Waiting, TypeOK, cartVars, counters
<1>16. ASSUME NEW m \in Mount, RefuseQuote(m) PROVE TypeOK'
  BY <1>16, GivesUpTypes DEF RefuseQuote, Waiting, counters, TypeOK
<1>17. ASSUME NEW m \in Mount, TimerFires(m) PROVE TypeOK'
  BY <1>17, GivesUpTypes DEF TimerFires, counters, TypeOK
<1>18. ASSUME NEW m \in Mount, RequestFails(m) PROVE TypeOK'
  <2>1. events' \in 0 .. MaxEvents
    BY <1>18, EventTypes DEF RequestFails
  <2> QED BY <1>18, <2>1, GivesUpTypes DEF RequestFails
<1> QED BY <1>1, <1>2, <1>3, <1>4, <1>5, <1>6, <1>7, <1>8, <1>9, <1>10, <1>11, <1>12,
           <1>13, <1>14, <1>15, <1>16, <1>17, <1>18 DEF Next

-----------------------------------------------------------------------------
(* Fills that are not touched. *)

\* No fill but page m's is clean.
Alone(m) == \A n \in Mount \ {m} : fill[n].at # "idle" => ~fill[n].clean

LEMMA ActiveIsAlone ==
    ASSUME Clean, NEW m \in Mount, fill[m].at # "idle"
    PROVE  Alone(m)
BY DEF Clean, CleanOK, Alone, Active

LEMMA NothingFilled ==
    ASSUME Clean, LockHasOwner, UNCHANGED <<items, puts, stored, locked, delivery, fill>>,
           onSale' \subseteq onSale
    PROVE  Clean' /\ LockHasOwner'
<1>1. LockHasOwner'
  BY DEF LockHasOwner, Active
<1>2. ASSUME NEW m \in Mount PROVE CleanOK(m)'
  <2>1. CleanOK(m)
    BY DEF Clean
  <2>2. Active' = Active /\ Settled' = Settled
    BY DEF Active, Settled
  <2> QED BY <2>1, <2>2 DEF CleanOK, Absent
<1> QED BY <1>1, <1>2 DEF Clean

\* A fill ends.
LEMMA EndKeepsClean ==
    ASSUME TypeOK, NEW m \in Mount, Alone(m), fill' = [fill EXCEPT ![m] = Idle]
    PROVE  Clean' /\ Active' = Active \ {m}
BY DEF TypeOK, Alone, Clean, CleanOK, Idle, Active

LEMMA EndKeepsQuotes ==
    ASSUME TypeOK, QuoteAwaited, NEW m \in Mount, fill' = [fill EXCEPT ![m] = Idle],
           mounted' = mounted,
           m # mounted => dialog'.quote = dialog.quote /\ dialog'.pending = dialog.pending
    PROVE  QuoteAwaited'
BY DEF TypeOK, QuoteAwaited, Idle

LEMMA GivingUp ==
    ASSUME FillInv, NEW m \in Mount, fill[m].at # "idle", GivesUp(m), mounted' = mounted,
           TypeOK'
    PROVE  FillInv'
<1> USE DEF FillInv
<1>1. /\ fill' = [fill EXCEPT ![m] = Idle] /\ ~locked'
      /\ dialog'.open = dialog.open /\ dialog'.quote = dialog.quote
      /\ dialog'.pending = dialog.pending
  BY DEF GivesUp, Ended, Unlocked, TypeOK, Dialogs
<1>2. Clean' /\ Active' = Active \ {m}
  BY <1>1, ActiveIsAlone, EndKeepsClean
<1>3. QuoteAwaited'
  BY <1>1, EndKeepsQuotes
<1>4. LockHasOwner'
  BY <1>1 DEF LockHasOwner
<1>5. QuoteAlone'
  BY <1>1, <1>2 DEF QuoteAlone, TypeOK, Active
<1>6. PendingOK'
  BY <1>1 DEF PendingOK, Active
<1> QED BY <1>2, <1>3, <1>4, <1>5, <1>6

\* Page m's fill begins or goes on, and the others are spoilt.
LEMMA BeginSpoils ==
    ASSUME TypeOK, NEW m \in Mount, NEW new \in Fills, Begin(m, new), new.at # "idle"
    PROVE  /\ fill'[m] = new /\ Alone(m)' /\ Active' = Active \cup {m}
           /\ \A n \in Mount \ {m} : fill'[n].at = fill[n].at /\ fill'[n].job = fill[n].job
<1>1. ASSUME NEW n \in Mount \ {m}
      PROVE  /\ fill'[n].at = fill[n].at /\ fill'[n].job = fill[n].job
             /\ fill[n].at # "idle" => ~fill'[n].clean
  BY DEF TypeOK, Begin, Active, Fills
<1>2. fill'[m] = new
  BY DEF Begin
<1> QED BY <1>1, <1>2 DEF Alone, Active

\* What is left to show then.
LEMMA OneIsClean ==
    ASSUME NEW m \in Mount, Alone(m)', CleanOK(m)'
    PROVE  Clean'
BY DEF Alone, Clean, CleanOK, Active

-----------------------------------------------------------------------------
(* The initial states. *)

LEMMA FillBegins ==
    ASSUME FillAssumption, Init
    PROVE  FillInv
<1>1. TypeOK
  <2>1. {items, stored, onSale} \subseteq SUBSET Offer
    BY DEF Init
  <2>2. puts \in Seq(Puts)
    BY DEF Init
  <2>3. fill \in [Mount -> Fills] /\ dialog \in Dialogs
    BY Starts DEF Init
  <2>4. 0 \in 0 .. MaxFills /\ 0 \in 0 .. MaxEvents
    BY DEF FillAssumption
  <2>5. delivery \in [Store -> 0 .. MaxFills]
    BY <2>4 DEF Init
  <2>6. locked \in BOOLEAN /\ mounted \in Mount
    BY DEF Init, FillAssumption
  <2>7. turn \in 0 .. MaxFills /\ events \in 0 .. MaxEvents
    BY <2>4 DEF Init
  <2> QED BY <2>1, <2>2, <2>3, <2>5, <2>6, <2>7 DEF TypeOK
<1>2. Active = {} /\ ~locked /\ dialog.quote = None
  BY DEF Init, Active, Idle, Closed
<1>3. \A m \in Mount : fill[m].at = "idle"
  BY DEF Init, Idle
<1>4. mounted \in Mount
  BY DEF Init, FillAssumption
<1> QED BY <1>1, <1>2, <1>3, <1>4
    DEF FillInv, LockHasOwner, QuoteAwaited, QuoteAlone, PendingOK, Clean, CleanOK

-----------------------------------------------------------------------------
(* The shopper, the shops and the requests of the cart. *)

LEMMA ChangeKeeps ==
    ASSUME FillInv, Change, TypeOK'
    PROVE  FillInv'
<1> USE DEF FillInv
<1>1. ~locked /\ ~dialog.open /\ UNCHANGED <<locked, mounted, dialog, fill>>
  BY DEF Change, MayChange
<1>2. Clean'
  BY <1>1 DEF Clean, CleanOK
<1> QED BY <1>1, <1>2 DEF LockHasOwner, QuoteAwaited, QuoteAlone, PendingOK, Active

LEMMA SellOutKeeps ==
    ASSUME FillInv, NEW o \in Offer, SellOut(o), TypeOK'
    PROVE  FillInv'
<1> USE DEF FillInv
<1>1. /\ onSale' \subseteq onSale
      /\ UNCHANGED <<items, puts, stored, locked, delivery, mounted, dialog, fill>>
  BY DEF SellOut
<1>2. Clean' /\ LockHasOwner'
  BY <1>1, NothingFilled
<1>3. PendingOK'
  BY <1>1 DEF PendingOK, Absent, Active, Settled
<1> QED BY <1>1, <1>2, <1>3 DEF QuoteAwaited, QuoteAlone, Active

LEMMA AnswerKeeps ==
    ASSUME FillAssumption, FillInv, puts # <<>>, Answered(Head(puts).by),
           UNCHANGED <<delivery, mounted>>, TypeOK'
    PROVE  FillInv'
<1> USE DEF FillInv
<1> DEFINE by == Head(puts).by
<1>0. by \in Mount \cup {None} /\ None \notin Mount
  BY PopsPut DEF Puts, FillAssumption
<1>1. ASSUME NEW m \in Mount, fill[m].at # "idle", fill[m].clean
      PROVE  by = m
  <2>1. puts = <<[ids |-> items, by |-> m]>>
    BY <1>1 DEF Clean, CleanOK, Settled
  <2> QED BY <2>1
<1>2. ~(dialog.open /\ dialog.quote # None /\ dialog.pending # None /\ dialog.pending.clean)
  BY DEF PendingOK, Settled
<1>3. CASE by = None
  <2>1. UNCHANGED <<fill, locked, dialog>>
    BY <1>3 DEF Answered
  <2>2. Clean'
    BY <1>0, <1>1, <1>3, <2>1 DEF Clean, CleanOK
  <2> QED BY <1>2, <2>1, <2>2 DEF LockHasOwner, QuoteAwaited, QuoteAlone, PendingOK, Active
<1>4. CASE by # None
  <2>1. by \in Mount /\ Alone(by)
    BY <1>0, <1>1, <1>4 DEF Alone
  <2>2. /\ fill' = [fill EXCEPT ![by] = Idle] /\ ~locked'
        /\ dialog' \in {dialog, [dialog EXCEPT !.pending = None]}
        /\ by # mounted => dialog' = dialog
    BY <1>4 DEF Answered, Unlocked
  <2>3. /\ dialog'.open = dialog.open /\ dialog'.quote = dialog.quote
        /\ dialog'.pending \in {dialog.pending, None}
    BY <2>2 DEF TypeOK, Dialogs
  <2> HIDE DEF by
  <2>4. Clean' /\ Active' = Active \ {by}
    BY <2>1, <2>2, EndKeepsClean
  <2>5. QuoteAwaited'
    BY <2>1, <2>2, EndKeepsQuotes
  <2>6. QuoteAlone'
    BY <2>1, <2>2, <2>3, <2>4 DEF QuoteAlone, Active, TypeOK
  <2>7. PendingOK' /\ LockHasOwner'
    BY <1>2, <2>2, <2>3 DEF PendingOK, LockHasOwner
  <2> QED BY <2>4, <2>5, <2>6, <2>7
<1> QED BY <1>3, <1>4

-----------------------------------------------------------------------------
(* The page. *)

LEMMA DialogKeeps ==
    ASSUME FillInv, OpenDialog \/ CloseDialog \/ Leave, TypeOK'
    PROVE  FillInv'
<1> USE DEF FillInv
<1>1. UNCHANGED <<items, puts, stored, onSale, locked, delivery, fill>>
  BY DEF OpenDialog, CloseDialog, Leave, cartVars
<1>2. Clean' /\ LockHasOwner'
  BY <1>1, NothingFilled
<1>3. CASE OpenDialog
  <2>1. dialog'.quote = None /\ dialog'.pending = dialog.pending /\ mounted' = mounted
    BY <1>3 DEF OpenDialog, Reopened, TypeOK, Dialogs
  <2> QED BY <1>1, <1>2, <2>1 DEF QuoteAwaited, QuoteAlone, PendingOK
<1>4. CASE CloseDialog
  <2>1. /\ dialog'.quote = dialog.quote /\ dialog'.pending = dialog.pending
        /\ ~dialog'.open /\ mounted' = mounted
    BY <1>4 DEF CloseDialog, TypeOK, Dialogs
  <2> QED BY <1>1, <1>2, <2>1 DEF QuoteAwaited, QuoteAlone, PendingOK
<1>5. CASE Leave
  <2>1. dialog'.quote = None /\ dialog'.pending = None
    BY <1>5 DEF Leave, Closed
  <2> QED BY <1>1, <1>2, <2>1 DEF QuoteAwaited, QuoteAlone, PendingOK
<1> QED BY <1>3, <1>4, <1>5

\* Selections are stored while no fill is under way.
LEMMA SelectedByFill ==
    ASSUME TypeOK, LockHasOwner, Active = {}, NEW stores \in SUBSET Store, Selected(stores)
    PROVE  \A s \in stores : delivery'[s] = turn'
BY DEF LockHasOwner, Selected

LEMMA StartEstimatedKeeps ==
    ASSUME FillAssumption, FillInv, StartEstimatedFill, TypeOK'
    PROVE  FillInv'
<1> USE DEF FillInv
<1> DEFINE new == [Started(FALSE) EXCEPT !.turn = turn', !.priced = Store]
<1>1. /\ Begin(mounted, new) /\ Selected(Store) /\ locked'
      /\ UNCHANGED <<items, puts, stored, onSale, mounted>>
  BY DEF StartEstimatedFill, Asking, cartVars
<1>2. ~dialog'.open
  BY DEF StartEstimatedFill, TypeOK, Dialogs
<1>3. mounted \in Mount
  BY DEF TypeOK
<1>4. /\ new \in Fills /\ new.at = "create" /\ new.job = "none" /\ new.turn = turn'
      /\ new.priced = Store /\ new.quoted = FALSE
      /\ new.clean => Settled /\ Active = {}
  <2>1. Started(FALSE) \in Fills /\ turn' \in 0 .. MaxFills
    BY Starts DEF TypeOK
  <2>2. new \in Fills
    BY <2>1 DEF Fills
  <2> QED BY <2>1, <2>2 DEF Started, Idle
<1> HIDE DEF new
<1>5. /\ fill'[mounted] = new /\ Alone(mounted)' /\ Active' = Active \cup {mounted}
      /\ \A n \in Mount \ {mounted} : fill'[n].at = fill[n].at /\ fill'[n].job = fill[n].job
  BY <1>1, <1>3, <1>4, BeginSpoils
<1>6. CleanOK(mounted)'
  <2>1. SUFFICES ASSUME new.clean PROVE CleanOK(mounted)'
    BY <1>1, <1>5 DEF CleanOK
  <2>2. \A s \in Store : delivery'[s] = turn'
    BY <1>1, <1>4, <2>1, SelectedByFill
  <2> QED BY <1>1, <1>4, <1>5, <2>1, <2>2 DEF CleanOK, Settled
<1>7. Clean'
  BY <1>1, <1>3, <1>5, <1>6, OneIsClean
<1>8. LockHasOwner'
  BY <1>5 DEF LockHasOwner
<1>9. QuoteAwaited'
  BY <1>1, <1>4, <1>5 DEF QuoteAwaited
<1> QED BY <1>2, <1>7, <1>8, <1>9 DEF QuoteAlone, PendingOK

LEMMA LoadDeliveryKeeps ==
    ASSUME FillAssumption, FillInv, LoadDeliveryOptions, TypeOK'
    PROVE  FillInv'
<1> USE DEF FillInv
<1> DEFINE new == Started(TRUE)
<1>1. /\ Begin(mounted, new) /\ locked' /\ UNCHANGED <<items, puts, stored, onSale, mounted>>
  BY DEF LoadDeliveryOptions, Asking, cartVars
<1>2. dialog'.quote = None
  BY DEF LoadDeliveryOptions, TypeOK, Dialogs
<1>3. mounted \in Mount
  BY DEF TypeOK
<1>4. /\ new \in Fills /\ new.at = "create" /\ new.job = "none" /\ new.quoted
      /\ new.clean => Settled /\ Active = {}
  BY Starts DEF Started, Idle
<1> HIDE DEF new
<1>5. /\ fill'[mounted] = new /\ Alone(mounted)' /\ Active' = Active \cup {mounted}
      /\ \A n \in Mount \ {mounted} : fill'[n].at = fill[n].at /\ fill'[n].job = fill[n].job
  BY <1>1, <1>3, <1>4, BeginSpoils
<1>6. CleanOK(mounted)'
  BY <1>1, <1>4, <1>5 DEF CleanOK, Settled
<1>7. Clean'
  BY <1>1, <1>3, <1>5, <1>6, OneIsClean
<1>8. LockHasOwner'
  BY <1>5 DEF LockHasOwner
<1>9. QuoteAwaited'
  BY <1>1, <1>2, <1>4, <1>5 DEF QuoteAwaited
<1> QED BY <1>2, <1>7, <1>8, <1>9 DEF QuoteAlone, PendingOK

\* addMany on behalf of a fill that is clean: its cards are new to the cart.
LEMMA AddingKeeps ==
    ASSUME FillAssumption, TypeOK, Clean, QuoteAwaited, NEW m \in Mount, NEW with,
           NEW found \in SUBSET Offer,
           with.quoted \in BOOLEAN, with.turn \in 0 .. MaxFills,
           with.clean \in BOOLEAN, with.priced \in SUBSET Store,
           Adding(m, with, found \ items),
           with.clean => Settled /\ Active \subseteq {m} /\ Absent(found) /\ locked'
                         /\ \A s \in with.priced : delivery'[s] = with.turn,
           mounted' = mounted, m = mounted \/ (m \in Active /\ dialog' = dialog)
    PROVE  Clean' /\ LockHasOwner' /\ QuoteAwaited' /\ m \in Active' /\ Alone(m)'
           /\ fill'[m].clean = with.clean
<1>0. PICK added : added = found \ items
  OBVIOUS
<1> DEFINE new == [Idle EXCEPT !.at = "add", !.added = added, !.quoted = with.quoted,
                               !.turn = with.turn, !.clean = with.clean,
                               !.priced = with.priced]
<1>1. Idle \in Fills /\ added \in SUBSET Offer
  BY <1>0, Starts
<1>2. /\ new \in Fills /\ new.at = "add" /\ new.added = added /\ new.job = "none"
      /\ new.turn = with.turn /\ new.clean = with.clean /\ new.priced = with.priced
  BY <1>1 DEF Fills, Idle
<1>3. /\ Begin(m, new) /\ items' = items \cup added /\ onSale' = onSale
      /\ puts' = Append(puts, [ids |-> items \cup added, by |-> m])
  BY <1>0 DEF Adding, Persist
<1> HIDE DEF new
<1>4. /\ fill'[m] = new /\ Alone(m)' /\ Active' = Active \cup {m}
      /\ \A n \in Mount \ {m} : fill'[n].at = fill[n].at /\ fill'[n].job = fill[n].job
  BY <1>2, <1>3, BeginSpoils
<1>5. CleanOK(m)'
  <2>1. SUFFICES ASSUME with.clean PROVE CleanOK(m)'
    BY <1>2, <1>4 DEF CleanOK
  <2>2. puts' = <<[ids |-> items', by |-> m]>>
    <3> DEFINE put == [ids |-> items \cup added, by |-> m]
    <3>1. puts = <<>> /\ puts' = Append(puts, put) /\ put = [ids |-> items', by |-> m]
      BY <1>3, <2>1 DEF Settled
    <3> HIDE DEF put
    <3>2. Append(<<>>, put) = <<put>>
      OBVIOUS
    <3> QED BY <3>1, <3>2
  <2>3. Absent(added)'
    BY <1>0, <1>3, <2>1 DEF Absent
  <2>4. Active' = {m}
    BY <1>4, <2>1
  <2>5. /\ fill'[m].at = "add" /\ fill'[m].job = "none" /\ fill'[m].added = added
        /\ fill'[m].priced = with.priced /\ fill'[m].turn = with.turn
    BY <1>2, <1>4
  <2>6. Absent(fill[m].added)'
    BY <2>3, <2>5 DEF Absent
  <2> QED BY <2>1, <2>2, <2>4, <2>5, <2>6 DEF CleanOK
<1>6. Clean'
  BY <1>4, <1>5, OneIsClean
<1>7. LockHasOwner' /\ m \in Active'
  BY <1>4 DEF LockHasOwner
<1>8. QuoteAwaited'
  <2>1. \A n \in Mount : /\ fill'[n].at = "quote" => fill'[n].job = "done"
                         /\ fill'[n].at = "add" => fill'[n].job = "none"
    BY <1>2, <1>4 DEF QuoteAwaited
  <2>2. CASE m = mounted
    BY <1>2, <1>4, <2>1, <2>2 DEF QuoteAwaited
  <2>3. CASE m # mounted
    <3>1. mounted \in Mount /\ dialog' = dialog
      BY <2>3 DEF TypeOK
    <3>2. /\ fill'[mounted].at = fill[mounted].at
          /\ fill'[mounted].quoted = fill[mounted].quoted
          /\ fill'[mounted].result = fill[mounted].result
      BY <1>3, <2>3, <3>1 DEF Begin, TypeOK, Fills
    <3>3. fill[mounted].at = "quote" => ~fill[mounted].clean
      BY <2>3, <3>1, ActiveIsAlone DEF Alone, Active
    <3> QED BY <2>1, <3>1, <3>2, <3>3 DEF QuoteAwaited
  <2> QED BY <2>2, <2>3
<1> QED BY <1>2, <1>4, <1>6, <1>7, <1>8

LEMMA StartQuotedKeeps ==
    ASSUME FillAssumption, FillInv, StartQuotedFill, TypeOK'
    PROVE  FillInv'
<1> USE DEF FillInv
<1> DEFINE with == [quoted |-> TRUE, turn |-> turn', priced |-> dialog.quote,
                    clean |-> dialog.pending.clean /\ Active = {}]
           found == dialog.pending.offers
<1>1. /\ dialog.open /\ dialog.quote # None /\ dialog.pending # None /\ mounted' = mounted
      /\ Selected(dialog.quote)
  BY DEF StartQuotedFill, SelectedFirst
<1>2. dialog.quote \in SUBSET Store /\ found \in SUBSET Offer /\ mounted \in Mount
  BY <1>1 DEF TypeOK, Dialogs, Pending
<1>3. ~dialog'.open
  BY DEF StartQuotedFill, TypeOK, Dialogs
<1>4. CASE found \ items = {}
  <2>1. /\ UNCHANGED <<fill, items, puts, stored, onSale>> /\ ~locked'
        /\ dialog'.pending = None /\ dialog'.quote = dialog.quote
    BY <1>4 DEF StartQuotedFill, cartVars, TypeOK, Dialogs
  <2>2. Clean'
    BY <1>1, <2>1 DEF QuoteAlone, Clean, CleanOK, Active
  <2>3. QuoteAwaited'
    BY <1>1, <2>1 DEF QuoteAwaited
  <2> QED BY <1>3, <2>1, <2>2, <2>3 DEF LockHasOwner, QuoteAlone, PendingOK
<1>5. CASE found \ items # {}
  <2>1. Adding(mounted, with, found \ items) /\ locked'
    BY <1>5 DEF StartQuotedFill
  <2>2. /\ with.quoted \in BOOLEAN /\ with.turn \in 0 .. MaxFills
        /\ with.priced \in SUBSET Store /\ with.priced = dialog.quote /\ with.turn = turn'
    BY <1>2 DEF TypeOK
  <2>3. with.clean \in BOOLEAN /\ (with.clean <=> dialog.pending.clean /\ Active = {})
    <3>1. with.clean = (dialog.pending.clean /\ Active = {})
      OBVIOUS
    <3> HIDE DEF with
    <3> QED BY <3>1
  <2>4. with.clean => Settled /\ Active \subseteq {mounted} /\ Absent(found) /\ locked'
                      /\ \A s \in with.priced : delivery'[s] = with.turn
    <3>1. SUFFICES ASSUME with.clean
                   PROVE  Settled /\ Active \subseteq {mounted} /\ Absent(found)
                          /\ \A s \in with.priced : delivery'[s] = with.turn
      BY <2>1
    <3>2. Active = {} /\ Settled /\ Absent(found)
      BY <1>1, <2>3, <3>1 DEF PendingOK
    <3> HIDE DEF with
    <3>3. \A s \in with.priced : delivery'[s] = with.turn
      BY <1>1, <1>2, <2>2, <3>2, SelectedByFill
    <3> QED BY <3>2, <3>3
  <2> HIDE DEF with, found
  <2>5. Clean' /\ QuoteAwaited' /\ LockHasOwner'
    BY <1>1, <1>2, <2>1, <2>2, <2>3, <2>4, AddingKeeps
  <2> QED BY <1>3, <2>5 DEF QuoteAlone, PendingOK
<1> QED BY <1>4, <1>5

-----------------------------------------------------------------------------
(* The steps of page m's fill. *)

\* A step that leaves the fill under way or idle, and as clean as it was.
LEMMA StepKeeps ==
    ASSUME FillInv, NEW m \in Mount, NEW new \in Fills, Now(m, new),
           UNCHANGED <<delivery, mounted, counters>>, TypeOK',
           new.clean = fill[m].clean, new.quoted = fill[m].quoted, new.turn = fill[m].turn,
           new.priced = fill[m].priced, new.at # "add", fill[m].at # "add",
           new.at = "idle" <=> fill[m].at = "idle",
           new.at = "quote" => new.job = "done",
           new.at = "quote" => fill[m].at = "quote" /\ new.result = fill[m].result,
           fill[m].at # "idle" /\ fill[m].clean /\ Settled =>
               /\ new.job = "queued" => items \cap onSale \subseteq new.initial
               /\ new.job = "done" => Absent(new.result)
    PROVE  FillInv'
<1> USE DEF FillInv
<1>1. /\ fill' = [fill EXCEPT ![m] = new]
      /\ UNCHANGED <<items, puts, stored, onSale, locked, delivery, mounted, dialog>>
  BY DEF Now, cartVars
<1>2. Active' = Active /\ (Settled' <=> Settled) /\ fill'[m] = new
  BY <1>1 DEF Active, TypeOK, Settled
<1>3. ASSUME NEW n \in Mount PROVE CleanOK(n)'
  <2>1. CleanOK(n)
    BY DEF Clean
  <2>2. CASE n # m
    BY <1>1, <1>2, <2>1, <2>2 DEF CleanOK, Absent, TypeOK
  <2>3. CASE n = m
    <3>1. SUFFICES ASSUME new.at # "idle", new.clean PROVE CleanOK(m)'
      BY <1>2, <2>3 DEF CleanOK
    <3>2. fill[m].at # "idle" /\ fill[m].clean /\ Settled /\ Active = {m} /\ locked
      BY <2>1, <2>3, <3>1 DEF CleanOK
    <3>3. new.job = "done" => Absent(fill[m].result)'
      BY <1>1, <1>2, <3>2 DEF Absent
    <3>4. ~new.quoted => \A s \in new.priced : delivery[s] = new.turn
      BY <2>1, <2>3, <3>2 DEF CleanOK
    <3> QED BY <1>1, <1>2, <3>2, <3>3, <3>4 DEF CleanOK
  <2> QED BY <2>2, <2>3
<1>4. QuoteAwaited'
  BY <1>1, <1>2 DEF QuoteAwaited, TypeOK
<1>5. QuoteAlone'
  BY <1>1, <1>2 DEF QuoteAlone, TypeOK, Active
<1>6. PendingOK'
  BY <1>1, <1>2 DEF PendingOK, Absent
<1> QED BY <1>1, <1>2, <1>3, <1>4, <1>5, <1>6 DEF Clean, LockHasOwner

LEMMA CreateJobKeeps ==
    ASSUME FillInv, NEW m \in Mount, CreateJob(m), TypeOK'
    PROVE  FillInv'
<1> DEFINE new == [fill[m] EXCEPT !.at = "wait", !.job = "queued", !.initial = InitialCart]
<1>1. /\ Now(m, new) /\ fill[m].at = "create"
      /\ UNCHANGED <<delivery, mounted, counters>>
  BY DEF CreateJob, Waiting
<1>2. /\ new \in Fills /\ new.at = "wait" /\ new.job = "queued" /\ new.initial = InitialCart
      /\ new.clean = fill[m].clean /\ new.quoted = fill[m].quoted
      /\ new.turn = fill[m].turn /\ new.priced = fill[m].priced
  BY ZenonT(60) DEF FillInv, TypeOK, Fills, InitialCart
<1>3. Settled => items \cap onSale \subseteq InitialCart
  BY DEF Settled, InitialCart
<1> HIDE DEF new
<1> QED BY <1>1, <1>2, <1>3, StepKeeps

\* A set of offers with as many cards has one of each card.
LEMMA OneOfACard ==
    ASSUME NEW S, IsFiniteSet(S), Cardinality(Cards(S)) = Cardinality(S),
           NEW x \in S, NEW y \in S, CardOf[x] = CardOf[y]
    PROVE  x = y
<1> DEFINE f == [o \in S |-> CardOf[o]]
<1>1. f \in Surjection(S, Cards(S))
  BY DEF Surjection, Cards
<1>2. f \in Injection(S, Cards(S))
  BY <1>1, FS_Surjection
<1> QED BY <1>2 DEF Injection, IsInjective

LEMMA OptimizeKeeps ==
    ASSUME FillAssumption, FillInv, NEW m \in Mount, Optimize(m), TypeOK'
    PROVE  FillInv'
<1> USE DEF FillInv
<1>1. fill[m].job = "queued" /\ UNCHANGED <<delivery, mounted, counters>>
  BY DEF Optimize
<1>2. fill[m] \in Fills /\ fill[m].at \notin {"quote", "add"}
  <2>1. fill[m] \in Fills
    BY DEF TypeOK
  <2>2. fill[m].at \notin {"quote", "add"}
    BY <1>1 DEF QuoteAwaited
  <2> QED BY <2>1, <2>2
<1>3. ASSUME Now(m, [fill[m] EXCEPT !.job = "failed"]) PROVE FillInv'
  <2> DEFINE new == [fill[m] EXCEPT !.job = "failed"]
  <2>1. /\ new \in Fills /\ new.at = fill[m].at /\ new.job = "failed"
        /\ new.clean = fill[m].clean /\ new.quoted = fill[m].quoted
        /\ new.turn = fill[m].turn /\ new.priced = fill[m].priced
    BY <1>2 DEF Fills
  <2>2. Now(m, new)
    BY <1>3
  <2> HIDE DEF new
  <2> QED BY <1>1, <1>2, <2>1, <2>2, StepKeeps
<1>4. ASSUME NEW result \in SUBSET onSale, Cards(result) \cap Cards(fill[m].initial) = {},
             Cardinality(Cards(result)) = Cardinality(result),
             Now(m, [fill[m] EXCEPT !.job = "done", !.result = result])
      PROVE  FillInv'
  <2> DEFINE new == [fill[m] EXCEPT !.job = "done", !.result = result]
  <2>1. /\ new \in Fills /\ new.at = fill[m].at /\ new.job = "done" /\ new.result = result
        /\ new.clean = fill[m].clean /\ new.quoted = fill[m].quoted
        /\ new.turn = fill[m].turn /\ new.priced = fill[m].priced
    BY <1>2 DEF Fills, TypeOK
  <2>2. Now(m, new)
    BY <1>4
  <2> HIDE DEF new
  <2>3. ASSUME fill[m].at # "idle", fill[m].clean PROVE Absent(result)
    <3>1. items \cap onSale \subseteq fill[m].initial
      BY <1>1, <2>3 DEF Clean, CleanOK
    <3>2. IsFiniteSet(result)
      BY FS_Subset DEF FillAssumption, TypeOK
    <3>3. \A x \in result, y \in result : CardOf[x] = CardOf[y] => x = y
      BY <1>4, <3>2, OneOfACard
    <3>4. \A x \in result, y \in items \cap onSale : CardOf[x] # CardOf[y]
      BY <1>4, <3>1 DEF Cards
    <3> QED BY <3>3, <3>4 DEF Absent
  <2> QED BY <1>1, <1>2, <2>1, <2>2, <2>3, StepKeeps
<1> QED BY <1>3, <1>4 DEF Optimize

LEMMA ReadJobKeeps ==
    ASSUME FillInv, NEW m \in Mount, ReadJob(m), TypeOK'
    PROVE  FillInv'
<1> DEFINE new == [fill[m] EXCEPT !.at = "read", !.seen = (fill[m].job = "done")]
<1>1. /\ Now(m, new) /\ fill[m].at = "wait"
      /\ UNCHANGED <<delivery, mounted, counters>>
  BY DEF ReadJob, Waiting
<1>2. /\ new \in Fills /\ new.at = "read" /\ new.job = fill[m].job
      /\ new.initial = fill[m].initial /\ new.result = fill[m].result
      /\ new.clean = fill[m].clean /\ new.quoted = fill[m].quoted
      /\ new.turn = fill[m].turn /\ new.priced = fill[m].priced
  BY ZenonT(60) DEF FillInv, TypeOK, Fills
<1>3. fill[m].clean => /\ new.job = "queued" => items \cap onSale \subseteq new.initial
                       /\ new.job = "done" => Absent(new.result)
  BY <1>1, <1>2 DEF FillInv, Clean, CleanOK
<1> HIDE DEF new
<1> QED BY <1>1, <1>2, <1>3, StepKeeps

LEMMA PollAgainKeeps ==
    ASSUME FillInv, NEW m \in Mount, Waiting(m, "read"), Now(m, [fill[m] EXCEPT !.at = "wait"]),
           TypeOK'
    PROVE  FillInv'
<1> DEFINE new == [fill[m] EXCEPT !.at = "wait"]
<1>1. Now(m, new) /\ fill[m].at = "read" /\ UNCHANGED <<delivery, mounted, counters>>
  BY DEF Waiting
<1>2. /\ new \in Fills /\ new.at = "wait" /\ new.job = fill[m].job
      /\ new.initial = fill[m].initial /\ new.result = fill[m].result
      /\ new.clean = fill[m].clean /\ new.quoted = fill[m].quoted
      /\ new.turn = fill[m].turn /\ new.priced = fill[m].priced
  BY ZenonT(60) DEF FillInv, TypeOK, Fills
<1>3. fill[m].clean => /\ new.job = "queued" => items \cap onSale \subseteq new.initial
                       /\ new.job = "done" => Absent(new.result)
  BY <1>1, <1>2 DEF FillInv, Clean, CleanOK
<1> HIDE DEF new
<1> QED BY <1>1, <1>2, <1>3, StepKeeps

\* The optimizer's result is there, and a quote is asked for.
LEMMA AskQuoteKeeps ==
    ASSUME FillInv, NEW m \in Mount, Waiting(m, "read"), fill[m].job = "done", fill[m].quoted,
           fill' = [fill EXCEPT ![m].at = "quote"],
           dialog' = IF m # mounted THEN dialog
                     ELSE [dialog EXCEPT !.pending = [offers |-> fill[m].result,
                                                      clean |-> fill[m].clean]],
           UNCHANGED <<cartVars, locked>>, TypeOK'
    PROVE  FillInv'
<1> USE DEF FillInv
<1> DEFINE new == [fill[m] EXCEPT !.at = "quote"]
<1>1. /\ fill' = [fill EXCEPT ![m] = new] /\ fill[m].at = "read"
      /\ UNCHANGED <<items, puts, stored, onSale, locked, delivery, mounted>>
  BY DEF Waiting, cartVars, TypeOK
<1>2. /\ new.at = "quote" /\ new.job = "done" /\ new.result = fill[m].result
      /\ new.clean = fill[m].clean /\ new.quoted
  BY DEF TypeOK, Fills
<1> HIDE DEF new
<1>3. Active' = Active /\ (Settled' <=> Settled) /\ fill'[m] = new /\ m \in Active
  BY <1>1, <1>2 DEF Active, TypeOK, Settled
<1>4. Alone(m)'
  BY <1>1, ActiveIsAlone DEF Alone, TypeOK
<1>5. CleanOK(m)'
  <2>1. SUFFICES ASSUME fill[m].clean PROVE CleanOK(m)'
    BY <1>2, <1>3 DEF CleanOK
  <2>2. Active = {m} /\ locked /\ Settled /\ Absent(fill[m].result)
    BY <1>1, <2>1 DEF Clean, CleanOK
  <2>3. Absent(fill[m].result)'
    BY <1>1, <1>2, <1>3, <2>2 DEF Absent
  <2> QED BY <1>1, <1>2, <1>3, <2>2, <2>3 DEF CleanOK
<1>6. Clean'
  BY <1>4, <1>5, OneIsClean
<1>7. /\ dialog'.open = dialog.open /\ dialog'.quote = dialog.quote
      /\ m # mounted => dialog'.pending = dialog.pending
      /\ m = mounted => dialog'.pending = [offers |-> new.result, clean |-> new.clean]
  BY <1>2 DEF TypeOK, Dialogs
<1>8. m = mounted => dialog.quote = None
  BY <1>1 DEF QuoteAwaited
<1>9. QuoteAwaited'
  <2>1. \A n \in Mount : /\ fill'[n].at = "quote" => fill'[n].job = "done"
                         /\ fill'[n].at = "add" => fill'[n].job = "none"
    BY <1>1, <1>2 DEF QuoteAwaited, TypeOK
  <2>2. CASE m = mounted
    BY <1>1, <1>2, <1>3, <1>7, <1>8, <2>1, <2>2 DEF QuoteAwaited
  <2>3. CASE m # mounted
    BY <1>1, <1>7, <2>1, <2>3 DEF QuoteAwaited, TypeOK
  <2> QED BY <2>2, <2>3
<1>10. QuoteAlone'
  BY <1>1, <1>2, <1>3, <1>7 DEF QuoteAlone, TypeOK, Active
<1>11. PendingOK'
  BY <1>3, <1>7, <1>8 DEF PendingOK
<1>12. LockHasOwner'
  BY <1>1, <1>3 DEF LockHasOwner
<1> QED BY <1>6, <1>9, <1>10, <1>11, <1>12

\* The optimizer's result is there, and goes into the cart.
LEMMA FillCartKeeps ==
    ASSUME FillAssumption, FillInv, NEW m \in Mount, Waiting(m, "read"), fill[m].job = "done",
           ~fill[m].quoted, Adding(m, fill[m], fill[m].result \ items),
           UNCHANGED <<locked, dialog>>, TypeOK'
    PROVE  FillInv'
<1> USE DEF FillInv
<1>1. fill[m].at = "read" /\ UNCHANGED <<delivery, mounted>> /\ m \in Active
  BY DEF Waiting, Active
<1>2. /\ fill[m].result \in SUBSET Offer
      /\ fill[m].quoted \in BOOLEAN /\ fill[m].turn \in 0 .. MaxFills
      /\ fill[m].clean \in BOOLEAN /\ fill[m].priced \in SUBSET Store
  BY DEF TypeOK, Fills
<1>3. fill[m].clean =>
          Settled /\ Active \subseteq {m} /\ Absent(fill[m].result) /\ locked'
          /\ \A s \in fill[m].priced : delivery'[s] = fill[m].turn
  BY <1>1 DEF Clean, CleanOK
<1>4. /\ Clean' /\ LockHasOwner' /\ QuoteAwaited' /\ m \in Active' /\ Alone(m)'
      /\ fill'[m].clean = fill[m].clean
  BY <1>1, <1>2, <1>3, AddingKeeps
<1>5. QuoteAlone'
  BY <1>1, <1>4 DEF QuoteAlone, Alone, Active
<1>6. PendingOK'
  BY <1>1 DEF PendingOK
<1> QED BY <1>4, <1>5, <1>6

LEMMA ReadStateKeeps ==
    ASSUME FillAssumption, FillInv, NEW m \in Mount, ReadState(m), TypeOK'
    PROVE  FillInv'
<1>1. Waiting(m, "read") /\ fill[m].at = "read" /\ mounted' = mounted
  BY DEF ReadState, Waiting
<1>2. CASE Now(m, [fill[m] EXCEPT !.at = "wait"])
  BY <1>1, <1>2, PollAgainKeeps
<1>3. CASE GivesUp(m)
  BY <1>1, <1>3, GivingUp
<1>4. CASE /\ fill[m].job = "done" /\ fill[m].quoted
           /\ fill' = [fill EXCEPT ![m].at = "quote"]
           /\ dialog' = IF m # mounted THEN dialog
                        ELSE [dialog EXCEPT !.pending = [offers |-> fill[m].result,
                                                         clean |-> fill[m].clean]]
           /\ UNCHANGED <<cartVars, locked>>
  BY <1>1, <1>4, AskQuoteKeeps
<1>5. CASE /\ fill[m].job = "done" /\ ~fill[m].quoted
           /\ Adding(m, fill[m], fill[m].result \ items) /\ UNCHANGED <<locked, dialog>>
  BY <1>1, <1>5, FillCartKeeps
<1> QED BY <1>2, <1>3, <1>4, <1>5 DEF ReadState

LEMMA GetQuoteKeeps ==
    ASSUME FillInv, NEW m \in Mount, GetQuote(m), TypeOK'
    PROVE  FillInv'
<1> USE DEF FillInv
<1>1. /\ fill[m].at = "quote" /\ fill' = [fill EXCEPT ![m] = Idle] /\ ~locked'
      /\ UNCHANGED <<items, puts, stored, onSale, mounted>>
      /\ dialog'.open = dialog.open /\ dialog'.pending = dialog.pending
      /\ m # mounted => dialog' = dialog
  BY DEF GetQuote, Waiting, Unlocked, cartVars, TypeOK, Dialogs
<1>2. Alone(m) /\ m \in Active
  BY <1>1, ActiveIsAlone DEF Active
<1>3. Clean' /\ Active' = Active \ {m}
  BY <1>1, <1>2, EndKeepsClean
<1>4. QuoteAwaited'
  BY <1>1, EndKeepsQuotes
<1>5. QuoteAlone'
  BY <1>1, <1>2, <1>3 DEF QuoteAlone, Alone, Active, TypeOK
<1>6. PendingOK'
  <2>1. CASE m # mounted
    BY <1>1, <1>2, <2>1 DEF PendingOK
  <2>2. CASE m = mounted
    <3>1. SUFFICES ASSUME dialog.pending # None, dialog.pending.clean
                   PROVE  Active' = {} /\ Settled' /\ Absent(dialog.pending.offers)'
      BY <1>1 DEF PendingOK
    <3>2. fill[m].clean /\ dialog.pending.offers = fill[m].result /\ fill[m].job = "done"
      BY <1>1, <2>2, <3>1 DEF QuoteAwaited
    <3>3. Active = {m} /\ Settled /\ Absent(dialog.pending.offers)
      BY <1>1, <3>2 DEF Clean, CleanOK
    <3>4. Active' = {}
      BY <1>3, <3>3
    <3>5. Settled'
      BY <1>1, <3>3 DEF Settled
    <3>6. Absent(dialog.pending.offers)'
      BY <1>1, <3>3 DEF Absent
    <3> QED BY <3>4, <3>5, <3>6
  <2> QED BY <2>1, <2>2
<1> QED BY <1>1, <1>3, <1>4, <1>5, <1>6 DEF LockHasOwner

-----------------------------------------------------------------------------

LEMMA FillGoesOn ==
    ASSUME FillAssumption, FillInv, [Next]_vars
    PROVE  FillInv'
<1>1. CASE UNCHANGED vars
  BY <1>1 DEF vars, cartVars, counters, FillInv, TypeOK, LockHasOwner, QuoteAwaited, QuoteAlone,
              PendingOK, Clean, CleanOK, Absent, Active, Settled
<1>2. CASE Next
  <2>1. TypeOK'
    BY <1>2, TypesKept DEF FillInv
  <2>2. CASE (\E o \in Offer : Add(o) \/ Remove(o)) \/ Clear
    BY <2>1, <2>2, ChangeKeeps DEF Add, Remove, Clear
  <2>3. CASE \E o \in Offer : SellOut(o)
    BY <2>1, <2>3, SellOutKeeps
  <2>4. CASE ServePut \/ LosePut
    BY <2>1, <2>4, AnswerKeeps DEF ServePut, LosePut
  <2>5. CASE OpenDialog \/ CloseDialog \/ Leave
    BY <2>1, <2>5, DialogKeeps
  <2>6. CASE StartEstimatedFill
    BY <2>1, <2>6, StartEstimatedKeeps
  <2>7. CASE LoadDeliveryOptions
    BY <2>1, <2>7, LoadDeliveryKeeps
  <2>8. CASE StartQuotedFill
    BY <2>1, <2>8, StartQuotedKeeps
  <2>9. ASSUME NEW m \in Mount, CreateJob(m) \/ Optimize(m) \/ ReadJob(m) PROVE FillInv'
    BY <2>1, <2>9, CreateJobKeeps, OptimizeKeeps, ReadJobKeeps
  <2>10. ASSUME NEW m \in Mount, ReadState(m) \/ GetQuote(m) PROVE FillInv'
    BY <2>1, <2>10, ReadStateKeeps, GetQuoteKeeps
  <2>11. ASSUME NEW m \in Mount, RefuseQuote(m) \/ TimerFires(m) \/ RequestFails(m)
         PROVE  FillInv'
    <3>1. GivesUp(m) /\ mounted' = mounted /\ fill[m].at # "idle"
      BY <2>11 DEF RefuseQuote, TimerFires, RequestFails, Waiting
    <3> QED BY <2>1, <3>1, GivingUp
  <2> QED BY <1>2, <2>2, <2>3, <2>4, <2>5, <2>6, <2>7, <2>8, <2>9, <2>10, <2>11 DEF Next
<1> QED BY <1>1, <1>2

\* Carts, requests, dialogs and fills keep their kinds, whatever the shopper and the API
\* do (FillBestCards!TypeOK).
THEOREM FillsWellTyped == Spec => []TypeOK
<1>1. Init => FillInv
  BY ShopperAssumption, FillBegins
<1>2. FillInv /\ [Next]_vars => FillInv'
  BY ShopperAssumption, FillGoesOn
<1>3. FillInv => TypeOK
  BY DEF FillInv
<1> QED BY <1>1, <1>2, <1>3, PTL DEF Spec

\* The cart is never locked but for a fill that is under way (setMutationLocked of
\* runOptimization and startQuotedFill, and their finally).
THEOREM LockIsOwned == Spec => []LockHasOwner
<1>1. Init => FillInv
  BY ShopperAssumption, FillBegins
<1>2. FillInv /\ [Next]_vars => FillInv'
  BY ShopperAssumption, FillGoesOn
<1>3. FillInv => LockHasOwner
  BY DEF FillInv
<1> QED BY <1>1, <1>2, <1>3, PTL DEF Spec

\* A fill that began alone with a saved cart finds the deliveries it selected, for each
\* store it was priced for (setDeliverySelections).
THEOREM DeliveryIsTheFills == Spec => []DeliveryMatchesFill
<1>1. Init => FillInv
  BY ShopperAssumption, FillBegins
<1>2. FillInv /\ [Next]_vars => FillInv'
  BY ShopperAssumption, FillGoesOn
<1>3. FillInv => DeliveryMatchesFill
  BY DEF FillInv, Clean, CleanOK, DeliveryMatchesFill, Filled
<1> QED BY <1>1, <1>2, <1>3, PTL DEF Spec

\* A fill that began alone with a saved cart brings no card that the cart has already,
\* and no card twice (createOptimization, optimizeCart, addMany).
THEOREM FillsBringMissing == Spec => []FillAddsMissing
<1>1. Init => FillInv
  BY ShopperAssumption, FillBegins
<1>2. FillInv /\ [Next]_vars => FillInv'
  BY ShopperAssumption, FillGoesOn
<1>3. FillInv => FillAddsMissing
  BY DEF FillInv, Clean, CleanOK, Absent, FillAddsMissing, Filled
<1> QED BY <1>1, <1>2, <1>3, PTL DEF Spec

-----------------------------------------------------------------------------
(* Induction, and the powers of two.                                        *)

\* Every set of naturals that is not empty has a least element: induction, in a form
\* that takes a set and no operator.
LEMMA LeastOf ==
    ASSUME NEW T, T \subseteq Nat, T # {}
    PROVE  \E x \in T : \A y \in T : x <= y
<1> DEFINE R == OpToRel(<, Nat)
<1>1. IsWellFoundedOn(R, Nat)
  BY NatLessThanWellFounded
<1>2. \A x, y \in Nat : x < y => <<x, y>> \in R
  BY DEF OpToRel
<1> HIDE DEF R
<1>3. PICK x \in T : \A y \in T : ~ (<<y, x>> \in R)
  BY <1>1, WFMin
<1>4. ASSUME NEW y \in T PROVE x <= y
  <2>1. x \in Nat /\ y \in Nat /\ ~ (y < x)
    BY <1>3, <1>2
  <2> QED BY <2>1
<1> QED BY <1>4

\* A set of naturals with 0 that has the successor of each of its elements is all of
\* them.
LEMMA AllOfNat ==
    ASSUME NEW T, 0 \in T, \A n \in Nat : n \in T => n + 1 \in T
    PROVE  \A n \in Nat : n \in T
<1> SUFFICES ASSUME NEW k \in Nat, k \notin T PROVE FALSE
  OBVIOUS
<1> DEFINE U == {n \in Nat : n \notin T}
<1>1. PICK x \in U : \A y \in U : x <= y
  <2>1. U \subseteq Nat /\ U # {}
    OBVIOUS
  <2> QED BY <2>1, LeastOf
<1>2. x \in Nat /\ x \notin T /\ x # 0
  OBVIOUS
<1>3. x - 1 \in Nat /\ x - 1 \in T
  BY <1>1, <1>2
<1>4. x - 1 + 1 \in T
  BY <1>3
<1> QED BY <1>4, <1>2

LEMMA TwoPower ==
    ASSUME NEW n \in Nat
    PROVE  2 ^ n \in Nat /\ 2 ^ (n + 1) = 2 * 2 ^ n
<1> DEFINE A == 1 .. n
           B == 1 .. n + 1
           Larger == {T \cup {n + 1} : T \in SUBSET A}
<1>1. /\ IsFiniteSet(A) /\ Cardinality(A) = n
      /\ IsFiniteSet(B) /\ Cardinality(B) = n + 1
  <2>1. 1 \in Int /\ n \in Int /\ n + 1 \in Int
    OBVIOUS
  <2>2. IsFiniteSet(A) /\ Cardinality(A) = IF 1 > n THEN 0 ELSE n - 1 + 1
    BY <2>1, FS_Interval
  <2>3. IsFiniteSet(B) /\ Cardinality(B) = IF 1 > n + 1 THEN 0 ELSE n + 1 - 1 + 1
    BY <2>1, FS_Interval
  <2> QED BY <2>2, <2>3
<1>2. /\ IsFiniteSet(SUBSET A) /\ Cardinality(SUBSET A) = 2 ^ n
      /\ IsFiniteSet(SUBSET B) /\ Cardinality(SUBSET B) = 2 ^ (n + 1)
  <2> HIDE DEF A, B
  <2> QED BY <1>1, FS_SUBSET
<1>3. n + 1 \notin A /\ B = A \cup {n + 1}
  OBVIOUS
<1> HIDE DEF A, B
<1>4. SUBSET B = (SUBSET A) \cup Larger /\ (SUBSET A) \cap Larger = {}
  <2>1. ASSUME NEW T \in SUBSET B PROVE T \in (SUBSET A) \cup Larger
    <3>1. CASE n + 1 \in T
      <4>1. T \ {n + 1} \in SUBSET A /\ T = (T \ {n + 1}) \cup {n + 1}
        BY <3>1, <1>3
      <4> QED BY <4>1
    <3>2. CASE n + 1 \notin T
      BY <3>2, <1>3
    <3> QED BY <3>1, <3>2
  <2>2. ASSUME NEW T \in SUBSET A PROVE T \in SUBSET B /\ n + 1 \notin T
    BY <1>3
  <2>3. ASSUME NEW T \in Larger PROVE T \in SUBSET B /\ n + 1 \in T
    BY <1>3
  <2> HIDE DEF Larger
  <2> QED BY <2>1, <2>2, <2>3
<1>5. IsFiniteSet(Larger) /\ Cardinality(Larger) = Cardinality(SUBSET A)
  <2> DEFINE f == [T \in SUBSET A |-> T \cup {n + 1}]
  <2>1. f \in [SUBSET A -> Larger] /\ \A T \in Larger : \E U \in SUBSET A : f[U] = T
    OBVIOUS
  <2>2. ASSUME NEW T \in SUBSET A, NEW U \in SUBSET A, f[T] = f[U] PROVE T = U
    <3>1. T = f[T] \ {n + 1} /\ U = f[U] \ {n + 1}
      BY <1>3
    <3> QED BY <3>1, <2>2
  <2>3. f \in Bijection(SUBSET A, Larger)
    <3> HIDE DEF f, Larger
    <3> QED BY <2>1, <2>2 DEF Bijection, Injection, Surjection, IsInjective
  <2>4. ExistsBijection(SUBSET A, Larger)
    BY <2>3 DEF ExistsBijection
  <2> QED BY <2>4, <1>2, FS_Bijection
<1> HIDE DEF Larger
<1>6. Cardinality(SUBSET B) =
        Cardinality(SUBSET A) + Cardinality(Larger) - Cardinality((SUBSET A) \cap Larger)
  BY <1>2, <1>4, <1>5, FS_Union
<1>7. Cardinality(SUBSET A) \in Nat /\ Cardinality((SUBSET A) \cap Larger) = 0
  BY <1>2, <1>4, FS_CardinalityType, FS_EmptySet
<1> QED BY <1>2, <1>5, <1>6, <1>7

LEMMA PowersGrow ==
    ASSUME NEW m \in Nat, NEW n \in Nat, m <= n
    PROVE  1 <= 2 ^ m /\ 2 ^ m <= 2 ^ n
<1> DEFINE T == {k \in Nat : 1 <= 2 ^ m /\ 2 ^ m <= 2 ^ (m + k)}
           P == {k \in Nat : 1 <= 2 ^ k}
<1>1. \A k \in Nat : k \in P
  <2>1. 0 \in P
    OBVIOUS
  <2>2. ASSUME NEW k \in Nat, k \in P PROVE k + 1 \in P
    BY <2>2, TwoPower
  <2> HIDE DEF P
  <2> QED BY <2>1, <2>2, AllOfNat
<1>2. \A k \in Nat : k \in T
  <2>1. 0 \in T
    BY <1>1, TwoPower
  <2>2. ASSUME NEW k \in Nat, k \in T PROVE k + 1 \in T
    <3>1. 2 ^ (m + k) \in Nat /\ 2 ^ (m + k + 1) = 2 * 2 ^ (m + k)
      BY TwoPower
    <3>2. m + (k + 1) = m + k + 1
      OBVIOUS
    <3>3. 1 <= 2 ^ m /\ 2 ^ m <= 2 ^ (m + k) /\ 2 ^ m \in Nat
      BY <2>2, TwoPower
    <3>4. 2 ^ m <= 2 ^ (m + (k + 1))
      BY <3>1, <3>2, <3>3
    <3> QED BY <3>3, <3>4
  <2> HIDE DEF T
  <2> QED BY <2>1, <2>2, AllOfNat
<1>3. n - m \in Nat /\ n = m + (n - m)
  OBVIOUS
<1> QED BY <1>2, <1>3
\* A smaller power divides a larger one an even number of times.
LEMMA PowersDivide ==
    ASSUME NEW j \in Nat, NEW i \in Nat, j < i
    PROVE  \E q \in Nat : 2 ^ i = 2 ^ j * (2 * q)
<1> DEFINE T == {k \in Nat : \E q \in Nat : 2 ^ (j + 1 + k) = 2 ^ j * (2 * q)}
<1>1. 0 \in T
  <2>1. 2 ^ j \in Nat /\ 2 ^ (j + 1) = 2 * 2 ^ j
    BY TwoPower
  <2>2. j + 1 + 0 = j + 1 /\ 2 * 2 ^ j = 2 ^ j * (2 * 1)
    BY <2>1
  <2> QED BY <2>1, <2>2
<1>2. ASSUME NEW k \in Nat, k \in T PROVE k + 1 \in T
  <2>1. PICK q \in Nat : 2 ^ (j + 1 + k) = 2 ^ j * (2 * q)
    BY <1>2
  <2>2. 2 ^ (j + 1 + k + 1) = 2 * 2 ^ (j + 1 + k) /\ 2 ^ j \in Nat
    BY TwoPower, j + 1 + k \in Nat
  <2>3. 2 * (2 ^ j * (2 * q)) = 2 ^ j * (2 * (2 * q))
    BY <2>2
  <2>4. j + 1 + (k + 1) = j + 1 + k + 1 /\ 2 * q \in Nat
    OBVIOUS
  <2>5. 2 ^ (j + 1 + (k + 1)) = 2 ^ j * (2 * (2 * q))
    BY <2>1, <2>2, <2>3, <2>4
  <2> DEFINE r == 2 * q
  <2>6. r \in Nat /\ 2 ^ (j + 1 + (k + 1)) = 2 ^ j * (2 * r)
    BY <2>4, <2>5
  <2> HIDE DEF r
  <2> QED BY <2>6
<1>3. i - (j + 1) \in Nat /\ i = j + 1 + (i - (j + 1))
  OBVIOUS
<1>4. i - (j + 1) \in T
  <2> HIDE DEF T
  <2> QED BY <1>1, <1>2, <1>3, AllOfNat
<1> QED BY <1>3, <1>4

\* A natural in parts: what is left of m when it is divided by d.
LEMMA Quotient ==
    ASSUME NEW m \in Nat, NEW d \in Nat \ {0}, NEW q \in Nat, NEW r \in 0 .. d - 1,
           m = d * q + r
    PROVE  m \div d = q
  OBVIOUS

LEMMA Shifted ==
    ASSUME NEW m \in Nat, NEW d \in Nat \ {0}, NEW q \in Nat
    PROVE  m \div d \in Nat /\ (m + d * q) \div d = (m \div d) + q
<1>1. m \div d \in Nat /\ m % d \in 0 .. d - 1 /\ m = d * (m \div d) + (m % d)
  OBVIOUS
<1> DEFINE x == m \div d
<1>2. m + d * q = d * (x + q) + (m % d)
  BY <1>1
<1>3. m + d * q \in Nat /\ x + q \in Nat
  BY <1>1
<1> HIDE DEF x
<1> QED BY <1>1, <1>2, <1>3, Quotient DEF x

\* The digits of a number below 2 ^ k may be any.
LEMMA AnyDigits ==
    ASSUME NEW k \in Nat, NEW D \in SUBSET (0 .. k - 1)
    PROVE  \E m \in 0 .. 2 ^ k - 1 : \A j \in Nat : (m \div 2 ^ j) % 2 = 1 <=> j \in D
<1> DEFINE Digit(m, j) == (m \div 2 ^ j) % 2 = 1
           Has(i) == \A E \in SUBSET (0 .. i - 1) :
                       \E m \in 0 .. 2 ^ i - 1 : \A j \in Nat : Digit(m, j) <=> j \in E
           T == {i \in Nat : Has(i)}
<1>1. 0 \in T
  <2>1. ASSUME NEW j \in Nat PROVE ~ Digit(0, j)
    <3>1. 2 ^ j \in Nat /\ 2 ^ j >= 1
      BY TwoPower, PowersGrow
    <3>2. 0 \div 2 ^ j = 0
      BY <3>1
    <3>3. \A x : x = 0 => ~ (x % 2 = 1)
      OBVIOUS
    <3> QED BY <3>2, <3>3
  <2>2. 0 \in 0 .. 2 ^ 0 - 1
    OBVIOUS
  <2> HIDE DEF Digit
  <2> QED BY <2>1, <2>2
<1>2. ASSUME NEW i \in Nat, i \in T PROVE i + 1 \in T
  <2> SUFFICES ASSUME NEW E \in SUBSET (0 .. i)
               PROVE  \E m \in 0 .. 2 ^ (i + 1) - 1 : \A j \in Nat : Digit(m, j) <=> j \in E
    <3> HIDE DEF Digit
    <3>1. i + 1 \in Nat /\ i + 1 - 1 = i
      OBVIOUS
    <3> QED BY <3>1
  <2>1. 2 ^ i \in Nat /\ 2 ^ (i + 1) = 2 * 2 ^ i /\ 1 <= 2 ^ i
    BY TwoPower, PowersGrow
  <2>2. PICK m \in 0 .. 2 ^ i - 1 : \A j \in Nat : Digit(m, j) <=> j \in E \ {i}
    <3> HIDE DEF Digit
    <3>1. E \ {i} \in SUBSET (0 .. i - 1)
      OBVIOUS
    <3> QED BY <3>1, <1>2
  <2>3. CASE i \notin E
    <3>1. m \in 0 .. 2 ^ (i + 1) - 1 /\ E \ {i} = E
      BY <2>1, <2>3
    <3> HIDE DEF Digit
    <3> QED BY <3>1, <2>2
  <2>4. CASE i \in E
    <3> DEFINE n == m + 2 ^ i
    <3>1. n \in 0 .. 2 ^ (i + 1) - 1 /\ n \in Nat /\ m \in Nat /\ m < 2 ^ i
      BY <2>1
    <3> HIDE DEF n
    <3>2. ASSUME NEW j \in Nat, j < i PROVE Digit(n, j) <=> Digit(m, j)
      <4>1. PICK q \in Nat : 2 ^ i = 2 ^ j * (2 * q)
        BY <3>2, PowersDivide
      <4>2. 2 ^ j \in Nat /\ 2 ^ j >= 1
        BY TwoPower, PowersGrow
      <4>3. m \div 2 ^ j \in Nat /\ n \div 2 ^ j = (m \div 2 ^ j) + 2 * q
        <5>1. 2 ^ j \in Nat \ {0} /\ 2 * q \in Nat /\ n = m + 2 ^ j * (2 * q)
          BY <4>1, <4>2 DEF n
        <5> QED BY <5>1, <3>1, Shifted
      <4>4. \A x \in Nat : (x + 2 * q) % 2 = x % 2
        OBVIOUS
      <4> QED BY <4>3, <4>4
    <3>3. Digit(n, i)
      <4>1. n \div 2 ^ i = 1
        BY <2>1, <3>1, Quotient, n = 2 ^ i * 1 + m DEF n
      <4> QED BY <4>1
    <3>4. ASSUME NEW j \in Nat, j > i PROVE ~ Digit(n, j)
      <4>1. 2 ^ (i + 1) <= 2 ^ j /\ 2 ^ j \in Nat
        BY <3>4, PowersGrow, TwoPower
      <4>2. n < 2 ^ j /\ 2 ^ j >= 1
        BY <4>1, <3>1, <2>1
      <4>3. n \div 2 ^ j = 0
        BY <4>1, <4>2, <3>1
      <4> QED BY <4>3
    <3> HIDE DEF Digit
    <3>5. ASSUME NEW j \in Nat PROVE Digit(n, j) <=> j \in E
      <4>1. CASE j < i
        BY <4>1, <3>2, <2>2
      <4>2. CASE j = i
        BY <4>2, <3>3, <2>4
      <4>3. CASE j > i
        BY <4>3, <3>4
      <4> QED BY <4>1, <4>2, <4>3
    <3> QED BY <3>5, <3>1
  <2> QED BY <2>3, <2>4
<1>3. k \in T
  <2> HIDE DEF T
  <2> QED BY <1>1, <1>2, AllOfNat
<1> QED BY <1>3

-----------------------------------------------------------------------------
(* Sums over a finite set, as numbers of elements.                          *)

\* As many pairs for each x of S as f[x] says.
Units(f, S) == {p \in S \X Nat : p[2] \in 1 .. f[p[1]]}

LEMMA UnitsFinite ==
    ASSUME NEW S, IsFiniteSet(S), NEW f, \A x \in S : f[x] \in Nat
    PROVE  IsFiniteSet(Units(f, S))
<1> DEFINE T == {n \in Nat : \A s \in SUBSET S :
                               Cardinality(s) = n => IsFiniteSet(Units(f, s))}
<1>1. 0 \in T
  <2>1. ASSUME NEW s \in SUBSET S, Cardinality(s) = 0 PROVE IsFiniteSet(Units(f, s))
    <3>1. s = {}
      BY <2>1, FS_Subset, FS_EmptySet
    <3>2. Units(f, s) = {}
      BY <3>1 DEF Units
    <3> QED BY <3>2, FS_EmptySet
  <2> QED BY <2>1
<1>2. ASSUME NEW n \in Nat, n \in T PROVE n + 1 \in T
  <2>1. ASSUME NEW s \in SUBSET S, Cardinality(s) = n + 1
        PROVE  IsFiniteSet(Units(f, s))
    <3>1. IsFiniteSet(s) /\ s # {}
      BY <2>1, FS_Subset, FS_EmptySet
    <3>2. PICK x \in s : TRUE
      BY <3>1
    <3>3. Cardinality(s \ {x}) = n /\ s \ {x} \in SUBSET S
      <4>1. Cardinality(s \ {x}) = Cardinality(s) - 1
        BY <3>1, <3>2, FS_RemoveElement
      <4> QED BY <4>1, <2>1
    <3>4. IsFiniteSet(Units(f, s \ {x}))
      BY <3>3, <1>2
    <3>5. Units(f, s) = Units(f, s \ {x}) \cup ({x} \X (1 .. f[x]))
      BY DEF Units
    <3> DEFINE A == {x} \X (1 .. f[x])
               B == Units(f, s \ {x})
    <3>6. IsFiniteSet(A)
      <4>1. f[x] \in Int /\ 1 \in Int
        OBVIOUS
      <4> QED BY <4>1, FS_Singleton, FS_Interval, FS_Product
    <3> HIDE DEF A
    <3>7. IsFiniteSet(B \cup A)
      <4> HIDE DEF B
      <4> QED BY <3>4, <3>6, FS_Union DEF B
    <3> QED BY <3>5, <3>7 DEF A
  <2> QED BY <2>1
<1>3. Cardinality(S) \in T
  <2> HIDE DEF T
  <2> QED BY <1>1, <1>2, AllOfNat, FS_CardinalityType
<1> QED BY <1>3

LEMMA UnitsSplit ==
    ASSUME NEW S, IsFiniteSet(S), NEW f, \A x \in S : f[x] \in Nat, NEW x \in S
    PROVE  Cardinality(Units(f, S)) = f[x] + Cardinality(Units(f, S \ {x}))
<1> DEFINE A == {x} \X (1 .. f[x])
           B == Units(f, S \ {x})
<1>1. Units(f, S) = A \cup B /\ A \cap B = {}
  <2>1. \A p : p \in Units(f, S) <=> p \in A \/ p \in B
    BY DEF Units
  <2>2. \A p : ~ (p \in A /\ p \in B)
    BY DEF Units
  <2> HIDE DEF A, B
  <2> QED BY <2>1, <2>2
<1>2. IsFiniteSet(B) /\ Cardinality(B) \in Nat
  <2>1. IsFiniteSet(S \ {x}) /\ \A y \in S \ {x} : f[y] \in Nat
    BY FS_Difference
  <2> QED BY <2>1, UnitsFinite, FS_CardinalityType
<1>3. IsFiniteSet(A) /\ Cardinality(A) = f[x]
  <2>1. f[x] \in Nat /\ 1 \in Int /\ f[x] \in Int
    OBVIOUS
  <2>2. IsFiniteSet({x}) /\ Cardinality({x}) = 1
    BY FS_Singleton
  <2>3. IsFiniteSet(1 .. f[x]) /\ Cardinality(1 .. f[x]) = IF 1 > f[x] THEN 0 ELSE f[x] - 1 + 1
    BY <2>1, FS_Interval
  <2>4. IsFiniteSet(A) /\ Cardinality(A) = Cardinality({x}) * Cardinality(1 .. f[x])
    BY <2>2, <2>3, FS_Product
  <2> HIDE DEF A
  <2> QED BY <2>1, <2>2, <2>3, <2>4
<1> HIDE DEF A, B
<1>4. Cardinality(A \cup B) = Cardinality(A) + Cardinality(B) - Cardinality(A \cap B)
  BY <1>2, <1>3, FS_Union
<1>5. Cardinality(A \cap B) = 0
  BY <1>1, FS_EmptySet
<1> QED BY <1>1, <1>2, <1>3, <1>4, <1>5 DEF B

\* g sums f over the subsets of S, one element at a time, as MapThenSumSet does.
Sums(g, f, S) ==
    g = [s \in SUBSET S |->
           IF s = {} THEN 0 ELSE f[CHOOSE x \in s : TRUE] + g[s \ {CHOOSE x \in s : TRUE}]]

LEMMA SumCounts ==
    ASSUME NEW S, IsFiniteSet(S), NEW f, \A x \in S : f[x] \in Nat
    PROVE  /\ \E g : Sums(g, f, S)
           /\ \A g : Sums(g, f, S) => g[S] = Cardinality(Units(f, S))
<1> DEFINE U(s) == Cardinality(Units(f, s))
           First(s) == CHOOSE x \in s : TRUE
<1>1. ASSUME NEW s \in SUBSET S
      PROVE  U(s) = IF s = {} THEN 0 ELSE f[First(s)] + U(s \ {First(s)})
  <2>1. CASE s = {}
    <3>1. Units(f, s) = {}
      BY <2>1 DEF Units
    <3> QED BY <2>1, <3>1, FS_EmptySet
  <2>2. CASE s # {}
    <3>1. First(s) \in s
      BY <2>2
    <3>2. IsFiniteSet(s) /\ \A x \in s : f[x] \in Nat
      BY FS_Subset
    <3> HIDE DEF First
    <3>3. U(s) = f[First(s)] + U(s \ {First(s)})
      BY <3>1, <3>2, UnitsSplit
    <3> QED BY <3>3, <2>2
  <2> QED BY <2>1, <2>2
<1> HIDE DEF U
<1>2. Sums([s \in SUBSET S |-> U(s)], f, S)
  <2>1. \A s \in SUBSET S : s \ {First(s)} \in SUBSET S
    OBVIOUS
  <2> DEFINE g == [s \in SUBSET S |-> U(s)]
  <2>2. \A s \in SUBSET S : g[s] = IF s = {} THEN 0 ELSE f[First(s)] + g[s \ {First(s)}]
    BY <1>1, <2>1
  <2>3. g = [s \in SUBSET S |-> g[s]]
    OBVIOUS
  <2> HIDE DEF g
  <2>4. Sums(g, f, S)
    BY <2>2, <2>3 DEF Sums
  <2> QED BY <2>4 DEF g
<1>3. ASSUME NEW g, Sums(g, f, S) PROVE g[S] = U(S)
  <2> DEFINE T == {n \in Nat : \A s \in SUBSET S : Cardinality(s) = n => g[s] = U(s)}
  <2>1. \A s \in SUBSET S : g[s] = IF s = {} THEN 0 ELSE f[First(s)] + g[s \ {First(s)}]
    BY <1>3 DEF Sums
  <2>2. 0 \in T
    <3>1. ASSUME NEW s \in SUBSET S, Cardinality(s) = 0 PROVE g[s] = U(s)
      <4>1. s = {}
        BY <3>1, FS_Subset, FS_EmptySet
      <4> QED BY <4>1, <2>1, <1>1
    <3> QED BY <3>1
  <2>3. ASSUME NEW n \in Nat, n \in T PROVE n + 1 \in T
    <3>1. ASSUME NEW s \in SUBSET S, Cardinality(s) = n + 1 PROVE g[s] = U(s)
      <4>1. IsFiniteSet(s) /\ s # {}
        BY <3>1, FS_Subset, FS_EmptySet
      <4>2. First(s) \in s
        BY <4>1
      <4> HIDE DEF First
      <4>3. s \ {First(s)} \in SUBSET S /\ Cardinality(s \ {First(s)}) = n
        <5>1. Cardinality(s \ {First(s)}) = Cardinality(s) - 1
          BY <4>1, <4>2, FS_RemoveElement
        <5> QED BY <5>1, <3>1
      <4>4. g[s \ {First(s)}] = U(s \ {First(s)})
        BY <4>3, <2>3
      <4> QED BY <4>1, <4>4, <2>1, <1>1
    <3> QED BY <3>1
  <2>4. Cardinality(S) \in T
    <3> HIDE DEF T
    <3> QED BY <2>2, <2>3, AllOfNat, FS_CardinalityType
  <2> QED BY <2>4
<1> QED BY <1>2, <1>3 DEF U

\* More elements, or more for each, make no smaller a sum.
LEMMA UnitsGrow ==
    ASSUME NEW S, NEW T, IsFiniteSet(T), S \subseteq T, NEW f, NEW h,
           \A x \in T : h[x] \in Nat, \A x \in S : f[x] \in Nat /\ f[x] <= h[x]
    PROVE  /\ Cardinality(Units(f, S)) \in Nat /\ Cardinality(Units(h, T)) \in Nat
           /\ Cardinality(Units(f, S)) <= Cardinality(Units(h, T))
<1>1. IsFiniteSet(Units(h, T)) /\ IsFiniteSet(Units(f, S))
  BY UnitsFinite, FS_Subset
<1>2. Units(f, S) \subseteq Units(h, T)
  BY DEF Units
<1> QED BY <1>1, <1>2, FS_Subset, FS_CardinalityType

-----------------------------------------------------------------------------
(* What a cart costs.                                                       *)

CardSum(c, S) == O!MapThenSumSet(LAMBDA e : O!Cost(c[e]), S)
ShippingSum(S) == O!MapThenSumSet(LAMBDA s : Shipping[s], S)

LEMMA CardSumCounts ==
    ASSUME NEW c, NEW S, IsFiniteSet(S), \A e \in S : O!Cost(c[e]) \in Nat
    PROVE  CardSum(c, S) = Cardinality(Units([e \in S |-> O!Cost(c[e])], S))
<1> DEFINE f == [e \in S |-> O!Cost(c[e])]
           First(s) == CHOOSE x \in s : TRUE
           F(g) == [s \in SUBSET S |->
                      IF s = {} THEN 0 ELSE O!Cost(c[First(s)]) + g[s \ {First(s)}]]
           h == CHOOSE h : h = F(h)
<1>1. CardSum(c, S) = h[S]
  BY DEF CardSum, O!MapThenSumSet, O!MapThenFoldSet
<1> HIDE DEF h
<1>2. \A x \in S : f[x] \in Nat
  OBVIOUS
<1>3. ASSUME NEW g PROVE Sums(g, f, S) <=> g = F(g)
  <2>1. \A s \in SUBSET S : s # {} => First(s) \in S
    OBVIOUS
  <2>2. \A s \in SUBSET S : s # {} => f[First(s)] = O!Cost(c[First(s)])
    BY <2>1
  <2> DEFINE G == [s \in SUBSET S |-> IF s = {} THEN 0 ELSE f[First(s)] + g[s \ {First(s)}]]
  <2> HIDE DEF f
  <2>3. \A s \in SUBSET S : G[s] = F(g)[s]
    BY <2>2
  <2>4. G = F(g)
    BY <2>3
  <2> QED BY <2>4 DEF Sums
<1> HIDE DEF f
<1>4. Sums(h, f, S)
  <2>1. PICK g : Sums(g, f, S)
    BY <1>2, SumCounts
  <2>2. g = F(g)
    BY <2>1, <1>3
  <2>3. h = F(h)
    BY <2>2 DEF h
  <2> QED BY <2>3, <1>3
<1>5. CardSum(c, S) = Cardinality(Units(f, S))
  BY <1>1, <1>2, <1>4, SumCounts
<1> QED BY <1>5 DEF f

LEMMA ShippingSumCounts ==
    ASSUME NEW S, IsFiniteSet(S), \A s \in S : Shipping[s] \in Nat
    PROVE  ShippingSum(S) = Cardinality(Units(Shipping, S))
<1> DEFINE First(s) == CHOOSE x \in s : TRUE
           F(g) == [s \in SUBSET S |->
                      IF s = {} THEN 0 ELSE Shipping[First(s)] + g[s \ {First(s)}]]
           h == CHOOSE h : h = F(h)
<1>1. ShippingSum(S) = h[S]
  BY DEF ShippingSum, O!MapThenSumSet, O!MapThenFoldSet
<1> HIDE DEF h
<1>2. PICK g : Sums(g, Shipping, S)
  BY SumCounts
<1>3. g = F(g)
  BY <1>2 DEF Sums
<1>4. h = F(h)
  BY <1>3 DEF h
<1>5. Sums(h, Shipping, S)
  BY <1>4 DEF Sums
<1> QED BY <1>1, <1>5, SumCounts

-----------------------------------------------------------------------------
(* CartOptimizer: what is cheapest.                                         *)

Copies == DOMAIN Copy

LEMMA OptimizerSets ==
    \A S : (O!IsFiniteSet(S) <=> IsFiniteSet(S)) /\ O!Cardinality(S) = Cardinality(S)
BY DEF O!IsFiniteSet, IsFiniteSet, O!Cardinality, Cardinality

LEMMA OptimizerBounds ==
    /\ IsFiniteSet(Entry) /\ IsFiniteSet(Shop) /\ Shop \subseteq Nat
    /\ Copies \subseteq Nat /\ None \notin Copies
    /\ \A o \in Copies : /\ Copy[o].store \in Shop /\ Copy[o].price \in Nat
                         /\ Copy[o].condition \in 0 .. 5
    /\ Shipping \in [Shop -> Nat]
    /\ \A r \in Request : /\ r.minimum \in 0 .. 5 /\ r.maxSteps \in Nat /\ r.penalty \in Nat
                          /\ \A held \in r.cart : held.store \in Shop
<1>1. O!IsFiniteSet(Entry) /\ O!IsFiniteSet(Shop)
  BY ShopperAssumption DEF O!OptimizerAssumption
<1>2. IsFiniteSet(Entry) /\ IsFiniteSet(Shop)
  BY <1>1, OptimizerSets
<1> QED BY <1>2, ShopperAssumption DEF O!OptimizerAssumption, Copies

LEMMA PriceNumber == ASSUME NEW o \in Copies PROVE O!Price(o) \in Nat
BY OptimizerBounds DEF O!Price

LEMMA StepsCount ==
    ASSUME NEW o \in Copies, request \in Request
    PROVE  /\ O!Steps(o) \in Nat
           /\ O!Steps(o) = IF request.minimum > Copy[o].condition
                           THEN request.minimum - Copy[o].condition ELSE 0
<1> DEFINE d == request.minimum - Copy[o].condition
           M == {0, d}
<1>1. request.minimum \in Nat /\ Copy[o].condition \in Nat
  BY OptimizerBounds
<1>2. \E x \in M : \A y \in M : x >= y
  <2>1. CASE d >= 0
    <3>1. d \in M /\ \A y \in M : d >= y
      BY <2>1, <1>1
    <3> QED BY <3>1
  <2>2. CASE ~ (d >= 0)
    <3>1. 0 \in M /\ \A y \in M : 0 >= y
      BY <2>2, <1>1
    <3> QED BY <3>1
  <2> QED BY <2>1, <2>2
<1>3. O!Steps(o) \in M /\ \A y \in M : O!Steps(o) >= y
  BY <1>2 DEF O!Steps, O!Max
<1> QED BY <1>1, <1>3

LEMMA CostNumber ==
    ASSUME NEW o \in Copies, request \in Request
    PROVE  O!Cost(o) \in Nat /\ (request.penalty = 0 => O!Cost(o) = O!Price(o))
<1>1. O!Price(o) \in Nat /\ O!Steps(o) \in Nat /\ request.penalty \in Nat
  BY PriceNumber, StepsCount, OptimizerBounds
<1>2. \A x, y, z \in Nat : x + y * z \in Nat /\ (z = 0 => x + y * z = x)
  OBVIOUS
<1> QED BY <1>1, <1>2 DEF O!Cost

LEMMA CheapestExists ==
    ASSUME NEW S, S \subseteq Copies, S # {}
    PROVE  \E o \in S : \A p \in S : O!Price(o) <= O!Price(p)
<1> DEFINE T == {O!Price(o) : o \in S}
<1>1. T \subseteq Nat /\ T # {}
  BY PriceNumber
<1>2. PICK x \in T : \A y \in T : x <= y
  BY <1>1, LeastOf
<1> QED BY <1>2

LEMMA LeastCostExists ==
    ASSUME NEW S, S \subseteq Copies, S # {}, request \in Request
    PROVE  \E o \in S : \A p \in S : O!Cost(o) <= O!Cost(p)
<1> DEFINE T == {O!Cost(o) : o \in S}
<1>1. T \subseteq Nat /\ T # {}
  BY CostNumber
<1>2. PICK x \in T : \A y \in T : x <= y
  BY <1>1, LeastOf
<1> QED BY <1>2

\* Of every offer, the query keeps one of its store that is no dearer.
LEMMA StoresCheapest ==
    ASSUME NEW R, R \subseteq Copies
    PROVE  /\ O!CheapestPerStore(R) \subseteq R
           /\ \A r \in R : \E p \in O!CheapestPerStore(R) :
                 p \in R /\ Copy[p].store = Copy[r].store /\ O!Price(p) <= O!Price(r)
<1> DEFINE Same(r) == {p \in R : Copy[p].store = Copy[r].store}
           Cheap(r) == {o \in Same(r) : \A p \in Same(r) : O!Price(o) <= O!Price(p)}
           First(r) == CHOOSE x \in Cheap(r) : \A y \in Cheap(r) : x =< y
<1>1. O!CheapestPerStore(R) = {First(r) : r \in R}
  BY DEF O!CheapestPerStore, O!Lowest, O!Min
<1>2. ASSUME NEW r \in R PROVE First(r) \in Cheap(r)
  <2>1. Same(r) \subseteq Copies /\ Same(r) # {}
    OBVIOUS
  <2>2. Cheap(r) # {}
    <3> HIDE DEF Same
    <3> QED BY <2>1, CheapestExists
  <2>3. Cheap(r) \subseteq Nat
    BY OptimizerBounds
  <2> HIDE DEF Cheap
  <2> QED BY <2>2, <2>3, LeastOf
<1>3. ASSUME NEW r \in R
      PROVE  First(r) \in R /\ Copy[First(r)].store = Copy[r].store
             /\ O!Price(First(r)) <= O!Price(r)
  <2> HIDE DEF First
  <2> QED BY <1>2
<1> HIDE DEF First
<1> QED BY <1>1, <1>3

\* The candidates are what prepareCandidates has made of the query's rows.
Loaded == candidates = [e \in Entry |-> IF e \in O!Wanted THEN O!Prepare(e) ELSE {}]

LEMMA PreparedCopies ==
    ASSUME NEW e, offers \subseteq Copies
    PROVE  O!Rows(e) \subseteq offers /\ O!Prepare(e) \subseteq offers
<1>1. O!Rows(e) \subseteq offers
  BY DEF O!Rows
<1>2. O!Prepared(e) \subseteq offers
  BY <1>1, StoresCheapest DEF O!Prepared
<1> QED BY <1>1, <1>2 DEF O!Prepare

\* Outside "cheaper" every offer the query ranks is matched by a candidate of its store
\* that is no dearer: the query's conditions are those prepareCandidates allows.
LEMMA RowsMatched ==
    ASSUME offers \subseteq Copies, request \in Request, request.mode # "cheaper",
           NEW e, NEW r \in O!Rows(e)
    PROVE  \E p \in O!Prepare(e) : Copy[p].store = Copy[r].store /\ O!Price(p) <= O!Price(r)
<1>1. O!Rows(e) \subseteq Copies
  BY PreparedCopies
<1>2. PICK p \in O!CheapestPerStore(O!Rows(e)) :
        p \in O!Rows(e) /\ Copy[p].store = Copy[r].store /\ O!Price(p) <= O!Price(r)
  BY <1>1, StoresCheapest
<1>3. p \in Copies /\ Copy[p].condition >= 1 /\ Copy[p].condition \in O!EligibleConditions
  BY <1>1, <1>2 DEF O!Rows
<1>4. /\ request.minimum \in 0 .. 5 /\ request.maxSteps \in Nat
      /\ Copy[p].condition \in 0 .. 5
  BY <1>3, OptimizerBounds
<1>5. /\ request.mode = "strict" => O!Meets(p)
      /\ O!Steps(p) <= request.maxSteps
  <2>1. CASE request.mode = "strict"
    <3>1. Copy[p].condition >= request.minimum
      BY <2>1, <1>3, <1>4 DEF O!EligibleConditions
    <3>2. O!Steps(p) = 0
      BY <3>1, <1>3, <1>4, StepsCount
    <3> QED BY <3>2, <1>4 DEF O!Meets
  <2>2. CASE request.mode # "strict"
    <3>1. Copy[p].condition >=
            (IF request.minimum = 0 THEN 5 ELSE request.minimum) - request.maxSteps
      BY <2>2, <1>3, <1>4 DEF O!EligibleConditions
    <3>2. O!Steps(p) = IF request.minimum > Copy[p].condition
                       THEN request.minimum - Copy[p].condition ELSE 0
      BY <1>3, StepsCount
    <3> QED BY <3>1, <3>2, <2>2, <1>3, <1>4
  <2> QED BY <2>1, <2>2
<1>6. p \in O!Prepare(e)
  BY <1>2, <1>5 DEF O!Prepare, O!Prepared
<1> QED BY <1>2, <1>6

\* What may be chosen is matched by a candidate of the same store, at no higher cost.
LEMMA ChoosableMatched ==
    ASSUME Loaded, offers \subseteq Copies, request \in Request,
           NEW e \in O!Wanted, NEW r \in O!Choosable(e)
    PROVE  \E p \in candidates[e] :
              Copy[p].store = Copy[r].store /\ O!Cost(p) <= O!Cost(r)
<1>1. candidates[e] = O!Prepare(e) /\ e \in Entry
  BY DEF Loaded, O!Wanted
<1>2. CASE request.mode = "cheaper" \/ request.penalty > 0
  <2>1. r \in candidates[e] /\ r \in Copies
    BY <1>1, <1>2, PreparedCopies DEF O!Choosable
  <2>2. O!Cost(r) <= O!Cost(r)
    BY <2>1, CostNumber
  <2> QED BY <2>1, <2>2
<1>3. CASE ~ (request.mode = "cheaper" \/ request.penalty > 0)
  <2>1. r \in O!Rows(e) /\ r \in Copies /\ request.penalty = 0
    <3>1. O!Choosable(e) = O!Rows(e)
      BY <1>3 DEF O!Choosable
    <3>2. request.penalty \in Nat /\ ~ (request.penalty > 0)
      BY <1>3, OptimizerBounds
    <3>3. O!Rows(e) \subseteq Copies
      BY PreparedCopies
    <3> QED BY <3>1, <3>2, <3>3
  <2>2. PICK p \in O!Prepare(e) : Copy[p].store = Copy[r].store /\ O!Price(p) <= O!Price(r)
    BY <1>3, <2>1, RowsMatched
  <2>3. p \in Copies
    BY PreparedCopies
  <2>4. O!Cost(p) = O!Price(p) /\ O!Cost(r) = O!Price(r)
    BY <2>1, <2>3, CostNumber
  <2> QED BY <1>1, <2>2, <2>4
<1> QED BY <1>2, <1>3

\* The choice for a position is the cheapest of its candidates in the stores.
LEMMA ChoiceLeast ==
    ASSUME request \in Request, NEW e, candidates[e] \subseteq Copies, NEW S
    PROVE  LET Fitting == {o \in candidates[e] : Copy[o].store \in S} IN
           IF Fitting = {} THEN O!Choice(e, S) = None
           ELSE O!Choice(e, S) \in Fitting /\ \A p \in Fitting : O!Cost(O!Choice(e, S)) <= O!Cost(p)
<1> DEFINE Fitting == {o \in candidates[e] : Copy[o].store \in S}
           D == {o \in Fitting : \A p \in Fitting : O!Cost(o) <= O!Cost(p)}
           E == {o \in D : \A p \in D : O!Price(o) <= O!Price(p)}
           P(o) == \A p \in E : Copy[o].store <= Copy[p].store
<1>1. O!Choice(e, S) = IF Fitting = {} THEN None ELSE CHOOSE o \in E : P(o)
  BY DEF O!Choice, O!Lowest
<1>2. CASE Fitting = {}
  BY <1>1, <1>2
<1>3. CASE Fitting # {}
  <2>1. Fitting \subseteq Copies
    OBVIOUS
  <2> HIDE DEF Fitting
  <2>2. D # {} /\ D \subseteq Copies
    BY <2>1, <1>3, LeastCostExists
  <2> HIDE DEF D
  <2>3. E # {} /\ E \subseteq Copies
    BY <2>2, CheapestExists
  <2> HIDE DEF E
  <2>4. \E o \in E : P(o)
    <3> DEFINE T == {Copy[o].store : o \in E}
    <3>1. T \subseteq Nat /\ T # {}
      BY <2>3, OptimizerBounds
    <3>2. PICK x \in T : \A y \in T : x <= y
      BY <3>1, LeastOf
    <3> QED BY <3>2
  <2>5. O!Choice(e, S) \in E
    BY <1>1, <1>3, <2>4
  <2>6. O!Choice(e, S) \in D
    BY <2>5 DEF E
  <2> QED BY <2>6, <1>3 DEF D, Fitting
<1> QED BY <1>2, <1>3

-----------------------------------------------------------------------------
(* CartOptimizer: carts and masks.                                          *)

CartsOf(S) == [O!Wanted -> S \cup {None}]

LEMMA WantedFinite == IsFiniteSet(O!Wanted) /\ O!Wanted \subseteq Entry
BY OptimizerBounds, FS_Subset DEF O!Wanted

LEMMA OptimizerNone == None \notin CartsOf(Copies)
BY ShopperAssumption, WantedFinite DEF O!OptimizerAssumption, CartsOf, Copies

LEMMA CartTyped ==
    ASSUME request \in Request, offers \subseteq Copies,
           candidates \in [Entry -> SUBSET offers], NEW S
    PROVE  O!Cart(S) \in CartsOf(offers)
<1>1. ASSUME NEW e \in O!Wanted PROVE O!Choice(e, S) \in offers \cup {None}
  <2>1. candidates[e] \subseteq offers /\ candidates[e] \subseteq Copies
    BY WantedFinite
  <2> QED BY <2>1, ChoiceLeast
<1> QED BY <1>1 DEF O!Cart, CartsOf

LEMMA CartFacts ==
    ASSUME request \in Request, NEW c \in CartsOf(Copies)
    PROVE  /\ O!Filled(c) \subseteq O!Wanted /\ IsFiniteSet(O!Filled(c))
           /\ \A e \in O!Wanted : e \in O!Filled(c) <=> c[e] # None
           /\ \A e \in O!Filled(c) : c[e] \in Copies /\ O!Cost(c[e]) \in Nat
           /\ O!StoresUsed(c) \subseteq Shop /\ IsFiniteSet(O!StoresUsed(c))
           /\ \A s \in O!StoresUsed(c) : Shipping[s] \in Nat
<1>1. /\ O!Filled(c) \subseteq O!Wanted
      /\ \A e \in O!Wanted : e \in O!Filled(c) <=> c[e] # None
      /\ \A e \in O!Filled(c) : c[e] \in Copies
  BY DEF CartsOf, O!Filled
<1>2. \A e \in O!Filled(c) : O!Cost(c[e]) \in Nat
  BY <1>1, CostNumber
<1>3. O!StoresUsed(c) \subseteq Shop
  BY <1>1, OptimizerBounds DEF O!StoresUsed
<1>4. IsFiniteSet(O!Filled(c)) /\ IsFiniteSet(O!StoresUsed(c))
  BY <1>1, <1>3, WantedFinite, OptimizerBounds, FS_Subset
<1> QED BY <1>1, <1>2, <1>3, <1>4, OptimizerBounds

LEMMA ObjectiveCounts ==
    ASSUME request \in Request, NEW c \in CartsOf(Copies)
    PROVE  /\ O!Objective(c) =
                Cardinality(Units([e \in O!Filled(c) |-> O!Cost(c[e])], O!Filled(c)))
                  + Cardinality(Units(Shipping, O!StoresUsed(c)))
           /\ O!Objective(c) \in Nat
<1>1. O!Objective(c) = CardSum(c, O!Filled(c)) + ShippingSum(O!StoresUsed(c))
  BY DEF O!Objective, CardSum, ShippingSum
<1>2. /\ CardSum(c, O!Filled(c)) =
           Cardinality(Units([e \in O!Filled(c) |-> O!Cost(c[e])], O!Filled(c)))
      /\ ShippingSum(O!StoresUsed(c)) = Cardinality(Units(Shipping, O!StoresUsed(c)))
  BY CartFacts, CardSumCounts, ShippingSumCounts
<1> DEFINE f == [e \in O!Filled(c) |-> O!Cost(c[e])]
<1>3. \A e \in O!Filled(c) : f[e] \in Nat
  BY CartFacts
<1> HIDE DEF f
<1>4. Cardinality(Units(f, O!Filled(c))) \in Nat
  BY <1>3, CartFacts, UnitsFinite, FS_CardinalityType
<1>5. Cardinality(Units(Shipping, O!StoresUsed(c))) \in Nat
  BY CartFacts, UnitsFinite, FS_CardinalityType
<1>6. Cardinality(Units([e \in O!Filled(c) |-> O!Cost(c[e])], O!Filled(c))) \in Nat
  BY <1>4 DEF f
<1> QED BY <1>1, <1>2, <1>5, <1>6

LEMMA MissingCounts ==
    ASSUME request \in Request, NEW c \in CartsOf(Copies)
    PROVE  /\ O!Missing(c) = Cardinality(O!Wanted \ O!Filled(c))
           /\ O!Missing(c) \in Nat
<1>1. O!Missing(c) = Cardinality(O!Wanted \ O!Filled(c))
  BY OptimizerSets DEF O!Missing, CartsOf
<1>2. IsFiniteSet(O!Wanted \ O!Filled(c))
  BY WantedFinite, FS_Difference
<1> QED BY <1>1, <1>2, FS_CardinalityType

LEMMA BetterThrough ==
    ASSUME request \in Request, NEW c \in CartsOf(Copies), NEW d \in CartsOf(Copies),
           NEW b \in CartsOf(Copies), ~ O!Better(d, b)
    PROVE  O!Better(c, b) => O!Better(c, d) /\ ~ O!Better(d, c)
<1>1. /\ O!Missing(c) \in Nat /\ O!Missing(d) \in Nat /\ O!Missing(b) \in Nat
      /\ O!Objective(c) \in Nat /\ O!Objective(d) \in Nat /\ O!Objective(b) \in Nat
  BY ObjectiveCounts, MissingCounts
<1> QED BY <1>1 DEF O!Better

LEMMA NotBetterThanItself ==
    ASSUME request \in Request, NEW c \in CartsOf(Copies)
    PROVE  ~ O!Better(c, c)
<1>1. O!Missing(c) \in Nat /\ O!Objective(c) \in Nat
  BY ObjectiveCounts, MissingCounts
<1> QED BY <1>1 DEF O!Better

\* Of the carts from given stores, the one evaluated for them is the best.
LEMMA BestOfStores ==
    ASSUME Loaded, request \in Request, offers \subseteq Copies,
           candidates \in [Entry -> SUBSET offers], NEW c \in CartsOf(Copies),
           \A e \in O!Filled(c) : c[e] \in O!Choosable(e)
    PROVE  ~ O!Better(c, O!Cart({Copy[c[e]].store : e \in O!Filled(c)}))
<1> DEFINE S == {Copy[c[e]].store : e \in O!Filled(c)}
           d == O!Cart(S)
<1>1. d \in CartsOf(offers) /\ d \in CartsOf(Copies)
  BY CartTyped DEF CartsOf
<1>2. ASSUME NEW e \in O!Filled(c)
      PROVE  e \in O!Filled(d) /\ O!Cost(d[e]) <= O!Cost(c[e])
  <2>1. e \in O!Wanted /\ c[e] \in Copies /\ O!Cost(c[e]) \in Nat
    BY CartFacts
  <2>2. candidates[e] \subseteq Copies
    BY <2>1, WantedFinite
  <2>3. PICK p \in candidates[e] :
          Copy[p].store = Copy[c[e]].store /\ O!Cost(p) <= O!Cost(c[e])
    BY <2>1, ChoosableMatched
  <2>4. Copy[p].store \in S
    BY <2>3
  <2>5. d[e] = O!Choice(e, S)
    BY <2>1 DEF O!Cart
  <2> HIDE DEF S
  <2>6. O!Choice(e, S) \in candidates[e] /\ O!Cost(O!Choice(e, S)) <= O!Cost(p)
    BY <2>2, <2>4, ChoiceLeast
  <2> HIDE DEF d
  <2>7. d[e] \in Copies /\ d[e] # None
    BY <2>2, <2>5, <2>6, OptimizerBounds
  <2>8. e \in O!Filled(d)
    BY <2>1, <2>7, <1>1, CartFacts
  <2>9. O!Cost(d[e]) \in Nat /\ O!Cost(p) \in Nat
    BY <2>2, <2>7, CostNumber
  <2> QED BY <2>1, <2>3, <2>5, <2>6, <2>8, <2>9
<1>3. \A e \in O!Filled(d) : d[e] \in Copies /\ Copy[d[e]].store \in S
  <2> SUFFICES ASSUME NEW e \in O!Filled(d) PROVE d[e] \in Copies /\ Copy[d[e]].store \in S
    OBVIOUS
  <2>1. e \in O!Wanted /\ d[e] # None
    BY <1>1, CartFacts
  <2>2. candidates[e] \subseteq Copies /\ d[e] = O!Choice(e, S)
    BY <2>1, WantedFinite DEF O!Cart
  <2> HIDE DEF S, d
  <2> QED BY <2>1, <2>2, ChoiceLeast
<1>4. O!Filled(c) \subseteq O!Wanted /\ O!Filled(d) \subseteq O!Wanted
  BY <1>1, CartFacts
<1>5. O!StoresUsed(c) = {held.store : held \in request.cart} \cup S
  BY DEF O!StoresUsed
<1>6. O!StoresUsed(d) \subseteq O!StoresUsed(c)
  <2> HIDE DEF S, d
  <2> QED BY <1>3, <1>5 DEF O!StoresUsed
<1> HIDE DEF S, d
<1> SUFFICES ASSUME O!Better(c, d) PROVE FALSE
  BY DEF S, d
<1>7. O!Missing(d) <= O!Missing(c) /\ (O!Missing(c) = O!Missing(d) => O!Filled(c) = O!Filled(d))
  <2>1. IsFiniteSet(O!Wanted \ O!Filled(c))
    BY WantedFinite, FS_Difference
  <2>2. O!Wanted \ O!Filled(d) \in SUBSET (O!Wanted \ O!Filled(c))
    BY <1>2
  <2>3. /\ Cardinality(O!Wanted \ O!Filled(d)) <= Cardinality(O!Wanted \ O!Filled(c))
        /\ Cardinality(O!Wanted \ O!Filled(c)) = Cardinality(O!Wanted \ O!Filled(d))
             => O!Wanted \ O!Filled(c) = O!Wanted \ O!Filled(d)
    BY <2>1, <2>2, FS_Subset
  <2>4. O!Wanted \ O!Filled(c) = O!Wanted \ O!Filled(d) => O!Filled(c) = O!Filled(d)
    BY <1>4
  <2> QED BY <2>3, <2>4, <1>1, MissingCounts
<1>8. O!Missing(c) = O!Missing(d) /\ O!Objective(c) < O!Objective(d)
  <2>1. O!Missing(c) \in Nat /\ O!Missing(d) \in Nat
    BY <1>1, MissingCounts
  <2> QED BY <2>1, <1>7 DEF O!Better
<1>9. O!Filled(c) = O!Filled(d)
  BY <1>7, <1>8
<1> DEFINE F == O!Filled(c)
           f == [e \in F |-> O!Cost(d[e])]
           h == [e \in F |-> O!Cost(c[e])]
<1>10. Cardinality(Units(f, F)) <= Cardinality(Units(h, F))
       /\ Cardinality(Units(f, F)) \in Nat /\ Cardinality(Units(h, F)) \in Nat
  <2>1. IsFiniteSet(F) /\ F \subseteq F
    BY CartFacts
  <2>2. \A e \in F : h[e] \in Nat /\ f[e] \in Nat /\ f[e] <= h[e]
    BY <1>1, <1>2, <1>9, CartFacts
  <2> HIDE DEF F, f, h
  <2> QED BY <2>1, <2>2, UnitsGrow
<1>11. /\ Cardinality(Units(Shipping, O!StoresUsed(d)))
            <= Cardinality(Units(Shipping, O!StoresUsed(c)))
       /\ Cardinality(Units(Shipping, O!StoresUsed(d))) \in Nat
       /\ Cardinality(Units(Shipping, O!StoresUsed(c))) \in Nat
  <2>1. IsFiniteSet(O!StoresUsed(c)) /\ \A s \in O!StoresUsed(c) : Shipping[s] \in Nat
    BY CartFacts
  <2>2. \A s \in O!StoresUsed(d) : Shipping[s] \in Nat /\ Shipping[s] <= Shipping[s]
    BY <2>1, <1>6
  <2> QED BY <2>1, <2>2, <1>6, UnitsGrow
<1>12. /\ O!Objective(c) = Cardinality(Units(h, F))
                             + Cardinality(Units(Shipping, O!StoresUsed(c)))
       /\ O!Objective(d) = Cardinality(Units(f, F))
                             + Cardinality(Units(Shipping, O!StoresUsed(d)))
  BY <1>1, <1>9, ObjectiveCounts
<1> HIDE DEF F, f, h
<1> QED BY <1>8, <1>10, <1>11, <1>12

\* The masks go through every set of the candidates' stores.
LEMMA EveryStores ==
    ASSUME NEW S \in SUBSET O!CandidateStores, O!CandidateStores \subseteq Shop
    PROVE  \E m \in 0 .. 2 ^ Cardinality(O!CandidateStores) - 1 : O!Allowed(m) = S
<1> DEFINE W == O!CandidateStores
           n == Cardinality(W)
           Below(s) == {t \in W : t < s}
           D == {Cardinality(Below(s)) : s \in S}
<1>1. IsFiniteSet(W) /\ n \in Nat /\ W \subseteq Nat
  BY OptimizerBounds, FS_Subset, FS_CardinalityType
<1>2. ASSUME NEW s \in W
      PROVE  /\ O!Bit(s) = Cardinality(Below(s))
             /\ IsFiniteSet(Below(s)) /\ Cardinality(Below(s)) \in 0 .. n - 1
  <2>1. O!Bit(s) = Cardinality(Below(s))
    BY OptimizerSets DEF O!Bit
  <2>2. Below(s) \in SUBSET W /\ Below(s) # W
    BY <1>1
  <2> HIDE DEF W, Below
  <2>3. IsFiniteSet(Below(s)) /\ Cardinality(Below(s)) <= n /\ Cardinality(Below(s)) # n
    BY <1>1, <2>2, FS_Subset
  <2>4. Cardinality(Below(s)) \in Nat
    BY <2>3, FS_CardinalityType
  <2> HIDE DEF n
  <2> QED BY <1>1, <2>1, <2>3, <2>4
<1>3. ASSUME NEW s \in W, NEW t \in W, s < t
      PROVE  Cardinality(Below(s)) < Cardinality(Below(t))
  <2>1. Below(s) \in SUBSET Below(t) /\ Below(s) # Below(t)
    <3>1. \A u \in W : u \in Nat
      BY <1>1
    <3>2. s \in Below(t) /\ s \notin Below(s) /\ \A u \in Below(s) : u \in Below(t)
      <4> HIDE DEF W
      <4> QED BY <3>1, <1>3
    <3> HIDE DEF Below
    <3> QED BY <3>2
  <2> HIDE DEF W, n, Below
  <2>2. IsFiniteSet(Below(t)) /\ Cardinality(Below(s)) \in Nat /\ Cardinality(Below(t)) \in Nat
    BY <1>1, <1>2
  <2>3. /\ Cardinality(Below(s)) <= Cardinality(Below(t))
        /\ Cardinality(Below(s)) # Cardinality(Below(t))
    BY <2>1, <2>2, FS_Subset
  <2> QED BY <2>2, <2>3
<1>4. ASSUME NEW s \in W, NEW t \in W, Cardinality(Below(s)) = Cardinality(Below(t))
      PROVE  s = t
  <2>1. s \in Nat /\ t \in Nat
    BY <1>1
  <2>2. Cardinality(Below(s)) \in Nat
    BY <1>2
  <2> HIDE DEF W, Below
  <2>3. ~ (s < t) /\ ~ (t < s)
    BY <1>3, <1>4, <2>2
  <2> QED BY <2>1, <2>3
<1>5. D \in SUBSET (0 .. n - 1)
  BY <1>2
<1>6. PICK m \in 0 .. 2 ^ n - 1 : \A j \in Nat : (m \div 2 ^ j) % 2 = 1 <=> j \in D
  <2> HIDE DEF D, n
  <2> QED BY <1>1, <1>5, AnyDigits
<1>7. ASSUME NEW s \in W PROVE (m \div 2 ^ O!Bit(s)) % 2 = 1 <=> s \in S
  <2>1. O!Bit(s) = Cardinality(Below(s)) /\ O!Bit(s) \in Nat
    BY <1>2
  <2>2. O!Bit(s) \in D <=> s \in S
    <3> HIDE DEF Below, W
    <3> QED BY <2>1, <1>4, S \subseteq W DEF W
  <2> HIDE DEF D
  <2> QED BY <2>1, <2>2, <1>6
<1>8. O!Allowed(m) = S
  BY <1>7 DEF O!Allowed
<1> QED BY <1>6, <1>8

-----------------------------------------------------------------------------
(* CartOptimizer: the enumeration.                                          *)

\* All that is derived from what a job has read stays as it is.
LEMMA DerivedStays ==
    ASSUME UNCHANGED <<request, offers>>
    PROVE  /\ O!Wanted' = O!Wanted /\ \A e : O!Prepare(e)' = O!Prepare(e)
           /\ \A e : O!Rows(e)' = O!Rows(e)
BY DEF O!Wanted, O!Prepare, O!Prepared, O!CheapestPerStore, O!Lowest, O!Price, O!Rows, O!OfSet,
       O!EligibleConditions, O!Meets, O!Steps, O!WorthIt

LEMMA CartsStay ==
    ASSUME UNCHANGED <<request, offers, candidates>>
    PROVE  /\ O!CandidateStores' = O!CandidateStores
           /\ \A m : O!Allowed(m)' = O!Allowed(m)
           /\ \A S : O!Cart(S)' = O!Cart(S)
           /\ \A c, d : O!Better(c, d)' = O!Better(c, d)
           /\ \A e : O!Choosable(e)' = O!Choosable(e)
<1>1. O!Wanted' = O!Wanted /\ \A e : O!Rows(e)' = O!Rows(e)
  BY DerivedStays
<1>2. O!CandidateStores' = O!CandidateStores
  BY <1>1 DEF O!CandidateStores
<1>3. \A m : O!Allowed(m)' = O!Allowed(m)
  BY <1>2 DEF O!Allowed, O!Bit
<1>4. \A e, S : O!Choice(e, S)' = O!Choice(e, S)
  BY DEF O!Choice, O!Lowest, O!Cost, O!Price, O!Steps
<1>5. \A S : O!Cart(S)' = O!Cart(S)
  BY <1>1, <1>4 DEF O!Cart
<1>6. \A c : O!StoresUsed(c)' = O!StoresUsed(c) /\ O!Filled(c)' = O!Filled(c)
  BY DEF O!StoresUsed, O!Filled
<1>7. \A c : O!Missing(c)' = O!Missing(c)
  BY <1>6 DEF O!Missing
<1>8. \A c : O!Objective(c)' = O!Objective(c)
  BY DEF O!Objective, O!MapThenSumSet, O!MapThenFoldSet, O!Cost, O!Price, O!Steps, O!Max, O!Filled,
         O!StoresUsed
<1>9. \A c, d : O!Better(c, d)' = O!Better(c, d)
  BY <1>7, <1>8 DEF O!Better
<1>10. \A e : O!Choosable(e)' = O!Choosable(e)
  BY <1>1 DEF O!Choosable
<1> QED BY <1>2, <1>3, <1>5, <1>9, <1>10

Subsets == 2 ^ Cardinality(O!CandidateStores)

\* The best cart is one of those evaluated so far, and none of them is better.
BestSoFar ==
    /\ mask \in 0 .. Subsets
    /\ IF mask = 0 THEN best = None ELSE \E m \in 0 .. mask - 1 : best = O!Cart(O!Allowed(m))
    /\ \A m \in 0 .. mask - 1 : ~ O!Better(O!Cart(O!Allowed(m)), best)

OptimizerInv ==
    /\ request \in Request /\ offers \subseteq Copies
    /\ candidates \in [Entry -> SUBSET offers]
    /\ at \in {"queued", "running", "done"} /\ optimal \in BOOLEAN
    /\ at = "queued" => mask = 0 /\ best = None
    /\ at # "queued" => Loaded /\ BestSoFar
    /\ at = "done" /\ optimal => mask = Subsets

LEMMA StoresOfCandidates ==
    ASSUME offers \subseteq Copies, candidates \in [Entry -> SUBSET offers]
    PROVE  /\ O!CandidateStores \subseteq Shop /\ IsFiniteSet(O!CandidateStores)
           /\ Subsets \in Nat /\ 1 <= Subsets /\ Subsets <= 2 ^ Cardinality(Shop)
<1>1. O!CandidateStores \subseteq Shop
  <2>1. \A e \in O!Wanted : candidates[e] \subseteq Copies
    BY WantedFinite
  <2>2. \A o \in Copies : Copy[o].store \in Shop
    BY OptimizerBounds
  <2> QED BY <2>1, <2>2 DEF O!CandidateStores
<1>2. /\ IsFiniteSet(O!CandidateStores)
      /\ Cardinality(O!CandidateStores) <= Cardinality(Shop)
      /\ Cardinality(O!CandidateStores) \in Nat /\ Cardinality(Shop) \in Nat
  BY <1>1, OptimizerBounds, FS_Subset, FS_CardinalityType
<1> QED BY <1>1, <1>2, PowersGrow, TwoPower DEF Subsets

LEMMA BestTyped ==
    ASSUME BestSoFar, mask # 0, request \in Request, offers \subseteq Copies,
           candidates \in [Entry -> SUBSET offers]
    PROVE  best \in CartsOf(offers) /\ best \in CartsOf(Copies) /\ best # None
<1>1. PICK m \in 0 .. mask - 1 : best = O!Cart(O!Allowed(m))
  BY DEF BestSoFar
<1>2. best \in CartsOf(offers)
  BY <1>1, CartTyped
<1> QED BY <1>2, OptimizerNone DEF CartsOf

LEMMA OptimizerStarts == O!Init => OptimizerInv
BY DEF O!Init, OptimizerInv, Copies

LEMMA LoadKeeps == ASSUME OptimizerInv, O!Load PROVE OptimizerInv'
<1>1. /\ request \in Request /\ offers \subseteq Copies /\ mask = 0 /\ best = None
      /\ at' = "running" /\ optimal \in BOOLEAN
      /\ UNCHANGED <<request, offers, mask, best, optimal>>
  BY DEF OptimizerInv, O!Load
<1>2. candidates' = [e \in Entry |-> IF e \in O!Wanted THEN O!Prepare(e) ELSE {}]
  BY DEF O!Load
<1>3. Loaded'
  BY <1>1, <1>2, DerivedStays DEF Loaded
<1>4. candidates' \in [Entry -> SUBSET offers']
  BY <1>1, <1>2, PreparedCopies
<1>5. BestSoFar'
  <2>1. Subsets' \in Nat
    <3>1. O!CandidateStores' \subseteq Shop
      BY <1>1, <1>4, WantedFinite, OptimizerBounds, DerivedStays DEF O!CandidateStores, Copies
    <3>2. Cardinality(O!CandidateStores') \in Nat
      BY <3>1, OptimizerBounds, FS_Subset, FS_CardinalityType
    <3> QED BY <3>2, TwoPower DEF Subsets
  <2>2. mask' = 0 /\ best' = None
    BY <1>1
  <2> QED BY <2>1, <2>2 DEF BestSoFar
<1> QED BY <1>1, <1>3, <1>4, <1>5 DEF OptimizerInv, Copies

LEMMA EvaluateKeeps == ASSUME OptimizerInv, O!Evaluate PROVE OptimizerInv'
<1>1. /\ request \in Request /\ offers \subseteq Copies
      /\ candidates \in [Entry -> SUBSET offers] /\ optimal \in BOOLEAN
      /\ at = "running" /\ Loaded /\ BestSoFar
      /\ UNCHANGED <<request, offers, candidates, at, optimal>> /\ mask' = mask + 1
  BY DEF OptimizerInv, O!Evaluate
<1>2. mask \in Nat /\ Subsets \in Nat /\ mask < Subsets
  BY <1>1, StoresOfCandidates, OptimizerSets DEF O!Evaluate, BestSoFar, Subsets
<1> DEFINE c == O!Cart(O!Allowed(mask))
           Past(m) == O!Cart(O!Allowed(m))
<1>3. best' = IF best = None \/ O!Better(c, best) THEN c ELSE best
  BY DEF O!Evaluate
<1>4. \A m : Past(m) \in CartsOf(offers) /\ Past(m) \in CartsOf(Copies)
  BY <1>1, CartTyped DEF CartsOf
<1>5. mask # 0 => best \in CartsOf(offers) /\ best \in CartsOf(Copies) /\ best # None
  BY <1>1, BestTyped
<1>6. \E m \in 0 .. mask : best' = Past(m)
  <2>1. CASE best' = Past(mask)
    BY <2>1, <1>2
  <2>2. CASE best' # Past(mask)
    <3>1. best' = best /\ best # None
      BY <2>2, <1>3
    <3>2. mask # 0
      BY <3>1, <1>1 DEF BestSoFar
    <3>3. PICK m \in 0 .. mask - 1 : best = Past(m)
      BY <3>2, <1>1 DEF BestSoFar
    <3> HIDE DEF c, Past
    <3> QED BY <3>1, <3>3, <1>2
  <2> QED BY <2>1, <2>2
<1>7. ASSUME NEW m \in 0 .. mask PROVE ~ O!Better(Past(m), best')
  <2>1. c \in CartsOf(Copies) /\ Past(m) \in CartsOf(Copies)
    BY <1>4
  <2>2. ~ O!Better(c, c)
    BY <2>1, <1>1, NotBetterThanItself
  <2>3. CASE m = mask
    <3>1. Past(m) = c
      BY <2>3
    <3> HIDE DEF c, Past
    <3> QED BY <3>1, <2>2, <1>3
  <2>4. CASE m # mask
    <3>1. m \in 0 .. mask - 1 /\ mask # 0
      BY <2>4, <1>2
    <3>2. ~ O!Better(Past(m), best)
      BY <3>1, <1>1 DEF BestSoFar
    <3> HIDE DEF c, Past
    <3>3. O!Better(c, best) => ~ O!Better(Past(m), c)
      BY <3>1, <3>2, <2>1, <1>1, <1>5, BetterThrough
    <3> QED BY <3>1, <3>2, <3>3, <1>3, <1>5
  <2> QED BY <2>3, <2>4
<1>8. Subsets' = Subsets /\ Loaded' /\ \A m : O!Cart(O!Allowed(m))' = O!Cart(O!Allowed(m))
  BY <1>1, CartsStay, DerivedStays DEF Subsets, Loaded
<1>9. BestSoFar'
  <2>1. mask' \in 0 .. Subsets' /\ mask' # 0
    BY <1>1, <1>2, <1>8
  <2>2. \E m \in 0 .. mask' - 1 : best' = O!Cart(O!Allowed(m))'
    BY <1>1, <1>2, <1>6, <1>8
  <2>3. ASSUME NEW m \in 0 .. mask' - 1 PROVE ~ O!Better(O!Cart(O!Allowed(m)), best)'
    <3>1. m \in 0 .. mask
      BY <1>1, <1>2
    <3>2. ~ O!Better(O!Cart(O!Allowed(m)), best')
      BY <3>1, <1>7
    <3> QED BY <3>2, <1>1, CartsStay
  <2> QED BY <2>1, <2>2, <2>3 DEF BestSoFar
<1> QED BY <1>1, <1>8, <1>9 DEF OptimizerInv, Copies

LEMMA StopKeeps == ASSUME OptimizerInv, O!Deadline \/ O!Finish PROVE OptimizerInv'
<1>1. /\ request \in Request /\ offers \subseteq Copies
      /\ candidates \in [Entry -> SUBSET offers] /\ optimal \in BOOLEAN
      /\ Loaded /\ BestSoFar
      /\ UNCHANGED <<request, offers, candidates, mask, best>> /\ at' = "done"
  BY DEF OptimizerInv, O!Deadline, O!Finish
<1>2. optimal' \in BOOLEAN /\ (optimal' => mask = Subsets)
  BY <1>1, OptimizerSets DEF O!Deadline, O!Finish, Subsets
<1>3. /\ Subsets' = Subsets /\ Loaded'
      /\ \A m : O!Cart(O!Allowed(m))' = O!Cart(O!Allowed(m))
      /\ \A m : O!Better(O!Cart(O!Allowed(m)), best)' = O!Better(O!Cart(O!Allowed(m)), best)
  BY <1>1, CartsStay, DerivedStays DEF Subsets, Loaded
<1>4. BestSoFar'
  BY <1>1, <1>3 DEF BestSoFar
<1> QED BY <1>1, <1>2, <1>3, <1>4 DEF OptimizerInv, Copies

LEMMA RestKeepsOptimizer == ASSUME OptimizerInv, UNCHANGED O!vars PROVE OptimizerInv'
<1>1. UNCHANGED <<request, offers, candidates, mask, best, at, optimal>>
  BY DEF O!vars
<1>2. /\ Subsets' = Subsets /\ Loaded' = Loaded
      /\ \A m : O!Cart(O!Allowed(m))' = O!Cart(O!Allowed(m))
      /\ \A m : O!Better(O!Cart(O!Allowed(m)), best)' = O!Better(O!Cart(O!Allowed(m)), best)
  BY <1>1, CartsStay, DerivedStays DEF Subsets, Loaded
<1>3. BestSoFar' = BestSoFar
  BY <1>1, <1>2 DEF BestSoFar
<1> QED BY <1>1, <1>2, <1>3 DEF OptimizerInv, Copies

LEMMA OptimizerInvariant == O!Spec => []OptimizerInv
<1>1. OptimizerInv /\ [O!Next]_O!vars => OptimizerInv'
  BY LoadKeeps, EvaluateKeeps, StopKeeps, RestKeepsOptimizer DEF O!Next
<1> QED BY <1>1, OptimizerStarts, PTL DEF O!Spec

LEMMA OptimizerTyped == OptimizerInv => O!TypeOK
<1> SUFFICES ASSUME OptimizerInv PROVE O!TypeOK
  OBVIOUS
<1>1. request \in Request /\ offers \subseteq Copies /\ candidates \in [Entry -> SUBSET offers]
  BY DEF OptimizerInv
<1>2. mask \in 0 .. 2 ^ Cardinality(Shop) /\ (best = None \/ best \in CartsOf(offers))
  <2>1. 2 ^ Cardinality(Shop) \in Nat
    BY OptimizerBounds, FS_CardinalityType, TwoPower
  <2>2. CASE at = "queued"
    BY <2>1, <2>2 DEF OptimizerInv
  <2>3. CASE at # "queued"
    <3>1. BestSoFar /\ mask \in 0 .. Subsets
      BY <2>3 DEF OptimizerInv, BestSoFar
    <3>2. mask # 0 => best \in CartsOf(offers)
      BY <3>1, <1>1, BestTyped
    <3>3. mask = 0 => best = None
      BY <3>1 DEF BestSoFar
    <3> QED BY <2>1, <3>1, <3>2, <3>3, <1>1, StoresOfCandidates
  <2> QED BY <2>2, <2>3
<1> QED BY <1>1, <1>2, OptimizerSets DEF OptimizerInv, O!TypeOK, Copies, CartsOf

LEMMA OptimizerBest == OptimizerInv => NoBetterCart
<1> SUFFICES ASSUME OptimizerInv, at = "done" /\ optimal, NEW c \in O!Carts,
                    \A e \in O!Wanted : c[e] # None => c[e] \in O!Choosable(e)
             PROVE  ~ O!Better(c, best)
  BY DEF NoBetterCart, O!NoBetterCart
<1>1. /\ request \in Request /\ offers \subseteq Copies
      /\ candidates \in [Entry -> SUBSET offers] /\ Loaded /\ BestSoFar /\ mask = Subsets
  BY DEF OptimizerInv
<1>2. c \in CartsOf(Copies) /\ \A e \in O!Filled(c) : c[e] \in O!Choosable(e)
  BY <1>1 DEF O!Carts, CartsOf, O!Filled
<1> DEFINE S == {Copy[c[e]].store : e \in O!Filled(c)}
           d == O!Cart(S)
<1>3. ~ O!Better(c, d)
  BY <1>1, <1>2, BestOfStores
<1>4. S \subseteq O!CandidateStores
  <2> SUFFICES ASSUME NEW e \in O!Filled(c) PROVE Copy[c[e]].store \in O!CandidateStores
    OBVIOUS
  <2>1. e \in O!Wanted
    BY <1>1, <1>2, CartFacts
  <2>2. PICK p \in candidates[e] : Copy[p].store = Copy[c[e]].store
    BY <2>1, <1>1, <1>2, ChoosableMatched
  <2> QED BY <2>1, <2>2 DEF O!CandidateStores
<1>5. PICK m \in 0 .. Subsets - 1 : O!Allowed(m) = S
  <2> HIDE DEF S
  <2> QED BY <1>1, <1>4, StoresOfCandidates, EveryStores DEF Subsets
<1>6. ~ O!Better(d, best) /\ best \in CartsOf(Copies) /\ d \in CartsOf(Copies)
  <2>1. ~ O!Better(d, best)
    BY <1>1, <1>5 DEF BestSoFar
  <2>2. Subsets # 0
    BY <1>1, StoresOfCandidates
  <2>3. best \in CartsOf(Copies)
    BY <1>1, <2>2, BestTyped
  <2> QED BY <2>1, <2>3, <1>1, CartTyped DEF CartsOf
<1> HIDE DEF d
<1> QED BY <1>1, <1>2, <1>3, <1>6, BetterThrough

\* An optimization that is not cut short finds the best cart there is, whatever the
\* stores, offers, prices, shipping costs, entries and requests (optimizeCart).
THEOREM OptimizerIsOptimal == O!Spec => []NoBetterCart
<1>1. OptimizerInv => NoBetterCart
  BY OptimizerBest
<1> QED BY <1>1, OptimizerInvariant, PTL

\* The best cart leaves out no position that has a candidate: the cart of all the stores
\* has every such position, and every cart evaluated has candidates alone.
LEMMA CandidatesHeld ==
    ASSUME OptimizerInv, at = "done" /\ optimal, NEW e \in O!Wanted, candidates[e] # {}
    PROVE  best[e] # None
<1> SUFFICES ASSUME best[e] = None PROVE FALSE
  OBVIOUS
<1>1. /\ request \in Request /\ offers \subseteq Copies
      /\ candidates \in [Entry -> SUBSET offers] /\ Loaded /\ BestSoFar /\ mask = Subsets
  BY DEF OptimizerInv
<1>2. Subsets \in Nat /\ 1 <= Subsets /\ mask # 0
  BY <1>1, StoresOfCandidates
<1> DEFINE d == O!Cart(O!CandidateStores)
<1>3. best \in CartsOf(Copies) /\ d \in CartsOf(Copies)
  BY <1>1, <1>2, BestTyped, CartTyped DEF CartsOf
<1>4. ~ O!Better(d, best)
  <2>1. PICK m \in 0 .. Subsets - 1 : O!Allowed(m) = O!CandidateStores
    BY <1>1, StoresOfCandidates, EveryStores DEF Subsets
  <2> QED BY <2>1, <1>1 DEF BestSoFar
<1>5. ASSUME NEW x \in O!Wanted, candidates[x] # {} PROVE x \in O!Filled(d)
  <2>1. candidates[x] \subseteq Copies /\ d[x] = O!Choice(x, O!CandidateStores)
    BY <1>1, WantedFinite DEF O!Cart
  <2>2. \A o \in candidates[x] : Copy[o].store \in O!CandidateStores
    BY <1>5 DEF O!CandidateStores
  <2>3. O!Choice(x, O!CandidateStores) \in candidates[x]
    BY <2>1, <2>2, <1>1, <1>5, ChoiceLeast
  <2> HIDE DEF d
  <2> QED BY <2>1, <2>3, <1>1, <1>3, CartFacts, OptimizerBounds
<1>6. ASSUME NEW x \in O!Filled(best) PROVE x \in O!Wanted /\ candidates[x] # {}
  <2>1. x \in O!Wanted /\ best[x] # None
    BY <1>1, <1>3, CartFacts
  <2>2. PICK m \in 0 .. mask - 1 : best = O!Cart(O!Allowed(m))
    BY <1>1, <1>2 DEF BestSoFar
  <2>3. O!Choice(x, O!Allowed(m)) # None /\ candidates[x] \subseteq Copies
    BY <2>1, <2>2, <1>1, WantedFinite DEF O!Cart
  <2> QED BY <2>1, <2>3, <1>1, ChoiceLeast
<1> HIDE DEF d
<1>7. O!Missing(d) < O!Missing(best)
  <2>1. O!Wanted \ O!Filled(d) \in SUBSET (O!Wanted \ O!Filled(best))
    BY <1>5, <1>6
  <2>2. e \in O!Wanted \ O!Filled(best) /\ e \notin O!Wanted \ O!Filled(d)
    BY <1>1, <1>3, <1>5, CartFacts
  <2>3. IsFiniteSet(O!Wanted \ O!Filled(best))
    BY WantedFinite, FS_Difference
  <2>4. /\ Cardinality(O!Wanted \ O!Filled(d)) <= Cardinality(O!Wanted \ O!Filled(best))
        /\ Cardinality(O!Wanted \ O!Filled(d)) # Cardinality(O!Wanted \ O!Filled(best))
    BY <2>1, <2>2, <2>3, FS_Subset
  <2> QED BY <2>4, <1>1, <1>3, MissingCounts
<1> QED BY <1>4, <1>7 DEF O!Better

\* Outside "cheaper" a card is left out only if no fresh offer has it in a condition and a
\* set that are asked for, whatever the stores, prices and steps down that are allowed
\* (CardOptimizationService.eligibleConditions, prepareCandidates, optimizeCart).
THEOREM MissingIsUnavailable == O!Spec => []MissingUnavailable
<1>1. OptimizerInv => MissingUnavailable
  <2> SUFFICES ASSUME OptimizerInv, at = "done" /\ optimal, request.mode # "cheaper",
                      NEW e \in O!Wanted, NEW r \in O!Rows(e)
               PROVE  best[e] # None
    BY DEF MissingUnavailable, O!MissingUnavailable
  <2>1. offers \subseteq Copies /\ request \in Request /\ candidates[e] = O!Prepare(e)
    BY WantedFinite DEF OptimizerInv, Loaded
  <2>2. candidates[e] # {}
    BY <2>1, RowsMatched
  <2> QED BY <2>2, CandidatesHeld
<1> QED BY <1>1, OptimizerInvariant, PTL
=============================================================================
