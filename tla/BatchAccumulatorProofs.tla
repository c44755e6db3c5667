----------------------- MODULE BatchAccumulatorProofs -----------------------
(***************************************************************************)
(* Proofs about BatchAccumulator for every number of workers, products and *)
(* runs, batch size, number of flushes at once, and any number of          *)
(* failures, crashes and stops.                                            *)
(***************************************************************************)
EXTENDS BatchAccumulator, FiniteSetTheorems, SequenceTheorems, TLAPS

-----------------------------------------------------------------------------
(* The inductive invariant. *)

Extraction == [product : Product, offered : SUBSET Variant, stock : SUBSET Variant, run : Run]
Flush == [stage : Stages, batch : Seq(Nat), next : Nat, runs : SUBSET Run]

Types ==
    /\ log \in Seq(Extraction)
    /\ \A i \in Item : log[i].stock \subseteq log[i].offered
    /\ buffer \in [Worker -> Seq(Nat)]
    /\ flight \in [Worker -> [Slot -> Flush]]
    /\ activeFlushes \in [Worker -> Nat]
    /\ phase \in [Worker -> {"up", "draining", "drained"}]
    /\ stock \in [Product -> SUBSET Variant]
    /\ counted \in [Run -> Nat]
    /\ flushed \cup lost \cup alone \subseteq Item
    /\ faults \in 0 .. MaxFaults /\ stops \in 0 .. MaxStops

\* A slot that is in use has a batch, and a clean-up is at one of its items.
FlightOK ==
    \A w \in Worker, s \in Slot :
        /\ flight[w][s].stage = "idle" <=> flight[w][s].batch = <<>>
        /\ flight[w][s].stage = "upsert" => flight[w][s].next = 1
        /\ Len(flight[w][s].batch) <= BatchSize
        /\ flight[w][s].stage = "cleanup" => flight[w][s].next \in 1 .. Len(flight[w][s].batch)

\* activeFlushes counts the slots that are in use.
ActiveOK == \A w \in Worker : activeFlushes[w] = Cardinality(Slot \ IdleSlots(w))

\* The workers' memory: place 0 is the buffer, the others are the slots.
Place == 0 .. MaxConcurrentFlushes
Memory == [w \in Worker |-> [s \in Place |-> IF s = 0 THEN buffer[w] ELSE flight[w][s].batch]]

\* Each of these items is at exactly one index of one place, and nothing else is there.
Homed(memory, items) ==
    /\ memory \in [Worker -> [Place -> Seq(items)]]
    /\ \A i \in items : \E w \in Worker, s \in Place : \E k \in 1 .. Len(memory[w][s]) :
          memory[w][s][k] = i
    /\ \A v, w \in Worker, s, t \in Place :
          \A h \in 1 .. Len(memory[v][s]), k \in 1 .. Len(memory[w][t]) :
              memory[v][s][h] = memory[w][t][k] => v = w /\ s = t /\ h = k

Remaining == Item \ (flushed \cup lost)
HomeOK == Homed(Memory, Remaining) /\ flushed \cap lost = {}

\* The items of a run that are written, and not about to be counted.
AwaitsCount(i) ==
    \E w \in Worker : \E s \in Slot :
        /\ flight[w][s].stage = "count" /\ log[i].run \in flight[w][s].runs
        /\ i \in Members(flight[w][s].batch)
Credited(r) == {i \in Item : log[i].run = r /\ ~Unwritten(i) /\ ~AwaitsCount(i)}
CreditOK == \A r \in Run : counted[r] <= Cardinality(Credited(r))

\* The last item of a product, extracted when no other one of it was pending: the
\* others have left the memory, and the stock follows its flush.
IsLast(i) == \A j \in ItemsOf(log[i].product) : j <= i
Shows(i) == stock[log[i].product] = log[i].stock
Following(i) ==
    /\ \A w \in Worker : Pending(w) \cap ItemsOf(log[i].product) \subseteq {i}
    /\ \A w \in Worker, s \in Slot : \A k \in DOMAIN flight[w][s].batch :
          flight[w][s].batch[k] = i =>
            /\ flight[w][s].stage = "cleanup" =>
                 /\ log[i].stock \subseteq stock[log[i].product]
                 /\ k < flight[w][s].next => Shows(i)
            /\ flight[w][s].stage = "count" => Shows(i)
    /\ i \in flushed => Shows(i)
LastOK == \A i \in alone : IsLast(i) => Following(i)

IInv == Types /\ FlightOK /\ ActiveOK /\ HomeOK /\ CreditOK /\ LastOK

-----------------------------------------------------------------------------
(* Which items a drain puts into which slot. *)

Before(S, s) == Cardinality({t \in S : t < s})

LEMMA BeforeType ==
    ASSUME NEW S \in SUBSET Int, IsFiniteSet(S), NEW s
    PROVE  /\ IsFiniteSet({t \in S : t < s}) /\ Before(S, s) \in Nat
           /\ s \in S => Before(S, s) < Cardinality(S)
           /\ Cardinality(S) \in Nat
<1>1. {t \in S : t < s} \in SUBSET S
  OBVIOUS
<1>2. /\ IsFiniteSet({t \in S : t < s}) /\ Before(S, s) <= Cardinality(S)
      /\ Cardinality(S) = Before(S, s) => S = {t \in S : t < s}
  BY <1>1, FS_Subset DEF Before
<1>3. Before(S, s) \in Nat /\ Cardinality(S) \in Nat
  BY <1>2, FS_CardinalityType DEF Before
<1>4. s \in S => s \notin {t \in S : t < s}
  OBVIOUS
<1> QED BY <1>2, <1>3, <1>4

LEMMA BeforeGrows ==
    ASSUME NEW S \in SUBSET Int, IsFiniteSet(S), NEW s \in S, NEW t \in S, s < t
    PROVE  Before(S, s) + 1 <= Before(S, t)
<1> DEFINE A == {u \in S : u < s}
           B == {u \in S : u < t}
<1>1. IsFiniteSet(A) /\ IsFiniteSet(B) /\ Before(S, s) \in Nat /\ Before(S, t) \in Nat
  BY BeforeType
<1>0. s \in Int /\ t \in Int /\ s \notin A /\ \A u \in S : u \in Int
  OBVIOUS
<1>2. Cardinality(A \cup {s}) = Cardinality(A) + 1
  <2> HIDE DEF A
  <2> QED BY <1>0, <1>1, FS_AddElement
<1>3. A \cup {s} \in SUBSET B
  <2>1. \A u \in A \cup {s} : u \in S /\ u \in Int /\ u < t
    BY <1>0
  <2> QED BY <2>1
<1>4. Cardinality(A \cup {s}) <= Cardinality(B)
  BY <1>1, <1>3, FS_Subset
<1> QED BY <1>1, <1>2, <1>4 DEF Before

\* The members of a finite set of numbers are counted off without a gap.
LEMMA BeforeOnto ==
    ASSUME NEW S \in SUBSET Int, IsFiniteSet(S), NEW j \in Nat, j < Cardinality(S)
    PROVE  \E s \in S : Before(S, s) = j
<1> DEFINE T == 0 .. Cardinality(S) - 1
           f == [s \in S |-> Before(S, s)]
<1>1. Cardinality(S) \in Nat /\ \A s \in S : Before(S, s) \in T
  <2>1. ASSUME NEW s \in S
        PROVE  Before(S, s) \in Nat /\ Before(S, s) < Cardinality(S) /\ Cardinality(S) \in Nat
    BY BeforeType
  <2>2. Cardinality(S) \in Nat
    BY FS_CardinalityType
  <2> HIDE DEF Before
  <2> QED BY <2>1, <2>2
<1>2. IsFiniteSet(T) /\ Cardinality(T) = Cardinality(S)
  <2>1. 0 \in Int /\ Cardinality(S) - 1 \in Int
    BY <1>1
  <2>2. IsFiniteSet(T) /\ Cardinality(T) = IF 0 > Cardinality(S) - 1 THEN 0
                                           ELSE Cardinality(S) - 1 - 0 + 1
    BY <2>1, FS_Interval
  <2> QED BY <1>1, <2>2
<1>3. f \in Injection(S, T)
  <2>1. f \in [S -> T]
    BY <1>1
  <2>2. ASSUME NEW s \in S, NEW t \in S, f[s] = f[t] PROVE s = t
    <3>1. s \in Int /\ t \in Int
      OBVIOUS
    <3>2. CASE s < t
      BY <2>2, <3>2, BeforeGrows, <1>1
    <3>3. CASE t < s
      BY <2>2, <3>3, BeforeGrows, <1>1
    <3> QED BY <3>1, <3>2, <3>3
  <2> QED BY <2>1, <2>2 DEF Injection, IsInjective
<1>4. f \in Surjection(S, T)
  BY <1>2, <1>3, FS_Injection
<1>5. j \in T
  BY <1>1
<1> QED BY <1>4, <1>5 DEF Surjection

LEMMA MulMono ==
    ASSUME NEW a \in Nat, NEW b \in Nat, NEW c \in Nat, a + 1 <= b
    PROVE  /\ a * c + c <= b * c
           /\ a * c \in Nat /\ b * c \in Nat
OBVIOUS

LEMMA DivFacts ==
    ASSUME NEW k \in Nat, NEW n \in Nat, NEW c \in Nat \ {0}, k < n * c
    PROVE  /\ k \div c \in Nat /\ k \div c < n
           /\ (k \div c) * c <= k /\ k < (k \div c) * c + c
OBVIOUS

\* The batches DrainBuffer splices off the front of the items.
From(w, s) == Before(Startable(w), s) * BatchSize + 1
Upto(w, items, s) ==
    IF From(w, s) + BatchSize - 1 <= Len(items) THEN From(w, s) + BatchSize - 1 ELSE Len(items)
Started(w, items) == {s \in Startable(w) : From(w, s) <= Len(items)}
Taken(w, items) == Cardinality(Started(w, items)) * BatchSize

LEMMA SlotFinite == IsFiniteSet(Slot) /\ Slot \in SUBSET Int
BY SizeAssumption, FS_Interval DEF Slot

\* They are disjoint, and together they are the first of the items.
LEMMA DrainParts ==
    ASSUME NEW w, NEW items, Len(items) \in Nat
    PROVE  LET st == Started(w, items)
               m == Taken(w, items)
           IN /\ st \in SUBSET IdleSlots(w) /\ IsFiniteSet(st) /\ m \in Nat
              /\ \A s \in st : /\ From(w, s) \in 1 .. Len(items)
                               /\ Upto(w, items, s) \in From(w, s) .. Len(items)
                               /\ Upto(w, items, s) < From(w, s) + BatchSize
                               /\ Upto(w, items, s) <= m
              /\ \A s \in st, t \in st : \A k \in Int :
                    /\ k \in From(w, s) .. Upto(w, items, s)
                    /\ k \in From(w, t) .. Upto(w, items, t)
                    => s = t
              /\ \A k \in 1 .. Len(items) : k <= m =>
                    \E s \in st : k \in From(w, s) .. Upto(w, items, s)
<1> DEFINE S == Startable(w)
           st == Started(w, items)
           n == Cardinality(st)
<1>1. S \in SUBSET Int /\ IsFiniteSet(S) /\ S \in SUBSET IdleSlots(w)
  BY SlotFinite, FS_Subset DEF Startable, IdleSlots
<1>2. st \in SUBSET S /\ IsFiniteSet(st) /\ st \in SUBSET Int /\ n \in Nat
  <2>1. st \in SUBSET S
    BY DEF Started
  <2>2. IsFiniteSet(st)
    BY <1>1, <2>1, FS_Subset
  <2> QED BY <1>1, <2>1, <2>2, FS_CardinalityType
<1>3. BatchSize \in Nat \ {0}
  BY SizeAssumption
<1>4. ASSUME NEW s \in S
      PROVE  /\ Before(S, s) \in Nat /\ Before(S, s) * BatchSize \in Nat
             /\ From(w, s) \in Nat \ {0}
  <2>1. Before(S, s) \in Nat
    BY <1>1, BeforeType
  <2>2. Before(S, s) * BatchSize \in Nat
    BY <2>1, <1>3, MulMono
  <2> QED BY <2>1, <2>2 DEF From
<1>5. ASSUME NEW s \in S, NEW t \in S, s < t
      PROVE  From(w, s) + BatchSize <= From(w, t)
  <2>1. Before(S, s) + 1 <= Before(S, t)
    BY <1>1, <1>5, BeforeGrows
  <2>2. Before(S, s) * BatchSize + BatchSize <= Before(S, t) * BatchSize
    BY <2>1, <1>3, <1>4, MulMono
  <2> QED BY <2>2, <1>3, <1>4, SMTT(60) DEF From
<1>6. ASSUME NEW s \in st
      PROVE  Before(S, s) = Before(st, s)
  <2>1. ASSUME NEW t \in S, t < s
        PROVE  t \in st
    <3>1. From(w, t) + BatchSize <= From(w, s)
      BY <1>2, <1>5, <2>1
    <3>2. From(w, s) <= Len(items) /\ s \in S
      BY DEF Started
    <3> QED BY <3>1, <3>2, <1>3, <1>4 DEF Started
  <2>2. {t \in S : t < s} = {t \in st : t < s}
    BY <2>1, <1>2
  <2> QED BY <2>2 DEF Before
<1>7. n * BatchSize \in Nat
  BY <1>2, <1>3, MulMono, n + 1 <= n + 1
<1>8. ASSUME NEW s \in st
      PROVE  /\ From(w, s) \in 1 .. Len(items)
             /\ Upto(w, items, s) \in From(w, s) .. Len(items)
             /\ Upto(w, items, s) < From(w, s) + BatchSize
             /\ Upto(w, items, s) <= n * BatchSize
  <2>1. s \in S /\ From(w, s) \in Nat \ {0} /\ From(w, s) <= Len(items)
    BY <1>2, <1>4 DEF Started
  <2>2. /\ From(w, s) \in 1 .. Len(items)
        /\ Upto(w, items, s) \in From(w, s) .. Len(items)
        /\ Upto(w, items, s) < From(w, s) + BatchSize
    BY <2>1, <1>3 DEF Upto
  <2>3. Before(S, s) \in Nat /\ Before(S, s) + 1 <= n
    <3>1. Before(st, s) \in Nat /\ Before(st, s) < n /\ n \in Nat
      BY <1>2, BeforeType
    <3> QED BY <3>1, <1>6
  <2>4. Before(S, s) * BatchSize + BatchSize <= n * BatchSize
    BY <2>3, <1>2, <1>3, MulMono
  <2>5. From(w, s) + BatchSize - 1 = Before(S, s) * BatchSize + BatchSize
    BY <2>1, <1>3, <1>4 DEF From
  <2> QED BY <2>1, <2>2, <2>4, <2>5, <1>3, <1>4, <1>7
<1>9. ASSUME NEW s \in st, NEW t \in st, NEW k \in Int,
             k \in From(w, s) .. Upto(w, items, s), k \in From(w, t) .. Upto(w, items, t)
      PROVE  s = t
  <2>1. s \in Int /\ t \in Int /\ s \in S /\ t \in S
    BY <1>2
  <2>2. CASE s < t
    BY <2>1, <2>2, <1>4, <1>5, <1>8, <1>9, <1>3, SMTT(60)
  <2>3. CASE t < s
    BY <2>1, <2>3, <1>4, <1>5, <1>8, <1>9, <1>3, SMTT(60)
  <2> QED BY <2>1, <2>2, <2>3
<1>10. ASSUME NEW k \in 1 .. Len(items), k <= n * BatchSize
       PROVE  \E s \in st : k \in From(w, s) .. Upto(w, items, s)
  <2> DEFINE r == (k - 1) \div BatchSize
  <2>1. /\ r \in Nat /\ r < n
        /\ r * BatchSize <= k - 1 /\ k - 1 < r * BatchSize + BatchSize
    <3>1. k - 1 \in Nat /\ k - 1 < n * BatchSize
      BY <1>7, <1>10
    <3> QED BY <3>1, <1>2, <1>3, DivFacts
  <2> HIDE DEF r
  <2>2. PICK s \in st : Before(st, s) = r
    BY <2>1, <1>2, BeforeOnto
  <2>3. From(w, s) = r * BatchSize + 1
    BY <2>2, <1>6 DEF From
  <2>4. r * BatchSize \in Nat
    BY <2>1, <1>3, MulMono, r + 1 <= r + 1
  <2> QED BY <2>1, <2>3, <2>4, <1>3, <1>8 DEF Upto
<1> QED BY <1>1, <1>2, <1>7, <1>8, <1>9, <1>10 DEF Taken

-----------------------------------------------------------------------------
(* What the steps do to the workers' memory. *)

\* The memory once DrainBuffer has spliced batches off the buffer of worker w.
Spliced(M, w) ==
    LET items == M[w][0]
    IN  [v \in Worker |-> [s \in Place |->
            IF v # w THEN M[v][s]
            ELSE IF s = 0 THEN SubSeq(items, Taken(w, items) + 1, Len(items))
            ELSE IF s \in Started(w, items)
                 THEN SubSeq(items, From(w, s), Upto(w, items, s))
            ELSE M[v][s]]]

LEMMA PlaceFacts == Place = {0} \cup Slot /\ 0 \notin Slot /\ 0 \in Place
BY SizeAssumption DEF Place, Slot

\* Where the items are then.
SplicedFacts(M, N, w, I) ==
    LET items == M[w][0]
        st == Started(w, items)
        m == Taken(w, items)
    IN /\ items \in Seq(I) /\ Len(items) \in Nat /\ m \in Nat /\ st \in SUBSET Slot
       /\ N \in [Worker -> [Place -> Seq(I)]]
       /\ Len(N[w][0]) = IF m <= Len(items) THEN Len(items) - m ELSE 0
       /\ \A k \in 1 .. Len(N[w][0]) : N[w][0][k] = items[m + k]
       /\ \A s \in st :
             /\ Len(N[w][s]) = Upto(w, items, s) - From(w, s) + 1
             /\ \A k \in 1 .. Len(N[w][s]) : N[w][s][k] = items[From(w, s) + k - 1]
       /\ \A v \in Worker, s \in Place :
             v # w \/ s \notin {0} \cup st => N[v][s] = M[v][s]

LEMMA SplicedPlaces ==
    ASSUME NEW I, NEW M \in [Worker -> [Place -> Seq(I)]], NEW w \in Worker
    PROVE  SplicedFacts(M, Spliced(M, w), w, I)
<1> DEFINE items == M[w][0]
           st == Started(w, items)
           m == Taken(w, items)
           N == Spliced(M, w)
<1>1. items \in Seq(I) /\ Len(items) \in Nat /\ \A k \in 1 .. Len(items) : items[k] \in I
  <2>1. items \in Seq(I)
    BY PlaceFacts
  <2> QED BY <2>1, LenProperties, ElementOfSeq
<1>2. /\ st \in SUBSET IdleSlots(w) /\ m \in Nat
      /\ \A s \in st : /\ From(w, s) \in 1 .. Len(items)
                       /\ Upto(w, items, s) \in From(w, s) .. Len(items)
  BY <1>1, DrainParts
<1>3. st \in SUBSET Slot /\ 0 \notin st
  BY <1>2, PlaceFacts DEF IdleSlots
<1> HIDE DEF items, st, m
<1>4. N = [v \in Worker |-> [s \in Place |->
              IF v # w THEN M[v][s]
              ELSE IF s = 0 THEN SubSeq(items, m + 1, Len(items))
              ELSE IF s \in st THEN SubSeq(items, From(w, s), Upto(w, items, s))
              ELSE M[v][s]]]
  BY DEF Spliced, items, st, m
<1>5. /\ SubSeq(items, m + 1, Len(items)) \in Seq(I)
      /\ Len(SubSeq(items, m + 1, Len(items))) = IF m <= Len(items) THEN Len(items) - m ELSE 0
      /\ \A k \in 1 .. Len(SubSeq(items, m + 1, Len(items))) :
            SubSeq(items, m + 1, Len(items))[k] = items[m + k]
  <2>1. m + 1 \in Int /\ Len(items) \in Int /\ \A k \in m + 1 .. Len(items) : items[k] \in I
    BY <1>1, <1>2
  <2> DEFINE q == SubSeq(items, m + 1, Len(items))
  <2>2. /\ q \in Seq(I)
        /\ Len(q) = IF m + 1 <= Len(items) THEN Len(items) - (m + 1) + 1 ELSE 0
        /\ \A k \in 1 .. Len(items) - (m + 1) + 1 : q[k] = items[m + 1 + k - 1]
    BY <2>1, SubSeqProperties
  <2> HIDE DEF q
  <2>3. \A k \in 1 .. Len(q) : q[k] = items[m + k]
    <3> TAKE k \in 1 .. Len(q)
    <3>1. k \in 1 .. Len(items) - (m + 1) + 1 /\ m + 1 + k - 1 = m + k
      BY <2>2, <1>1, <1>2
    <3> QED BY <3>1, <2>2
  <2> QED BY <2>2, <2>3, <1>1, <1>2 DEF q
<1>6. ASSUME NEW s \in st
      PROVE  LET q == SubSeq(items, From(w, s), Upto(w, items, s))
             IN /\ q \in Seq(I) /\ Len(q) = Upto(w, items, s) - From(w, s) + 1
                /\ \A k \in 1 .. Len(q) : q[k] = items[From(w, s) + k - 1]
  <2> DEFINE f == From(w, s)
             u == Upto(w, items, s)
  <2>1. f \in 1 .. Len(items) /\ u \in f .. Len(items)
    BY <1>2
  <2> HIDE DEF f, u
  <2>2. f \in Int /\ u \in Int /\ f <= u /\ \A k \in f .. u : items[k] \in I
    BY <2>1, <1>1
  <2>3. /\ SubSeq(items, f, u) \in Seq(I) /\ Len(SubSeq(items, f, u)) = u - f + 1
        /\ \A k \in 1 .. u - f + 1 : SubSeq(items, f, u)[k] = items[f + k - 1]
    BY <2>2, SubSeqProperties
  <2> QED BY <2>3 DEF f, u
<1>7. N \in [Worker -> [Place -> Seq(I)]]
  BY <1>4, <1>5, <1>6
<1>8. N[w][0] = SubSeq(items, m + 1, Len(items))
  BY <1>4, PlaceFacts, ZenonT(60)
<1>9. ASSUME NEW s \in st
      PROVE  /\ Len(N[w][s]) = Upto(w, items, s) - From(w, s) + 1
             /\ \A k \in 1 .. Len(N[w][s]) : N[w][s][k] = items[From(w, s) + k - 1]
  <2>1. s \in Place /\ s # 0
    BY <1>3, PlaceFacts
  <2>2. N[w][s] = SubSeq(items, From(w, s), Upto(w, items, s))
    BY <1>4, <2>1
  <2> QED BY <1>6, <2>2
<1>10. \A v \in Worker, s \in Place : v # w \/ s \notin {0} \cup st => N[v][s] = M[v][s]
  BY <1>4
<1>11. /\ Len(N[w][0]) = IF m <= Len(items) THEN Len(items) - m ELSE 0
       /\ \A k \in 1 .. Len(N[w][0]) : N[w][0][k] = items[m + k]
  BY <1>5, <1>8
<1> HIDE DEF N
<1>12. items \in Seq(I) /\ Len(items) \in Nat /\ m \in Nat /\ st \in SUBSET Slot
  BY <1>1, <1>2, <1>3
<1> QED BY <1>7, <1>9, <1>10, <1>11, <1>12 DEF SplicedFacts, items, st, m, N

LEMMA HomedSpliced ==
    ASSUME NEW I, NEW M, Homed(M, I), NEW w \in Worker,
           \A s \in IdleSlots(w) : M[w][s] = <<>>
    PROVE  Homed(Spliced(M, w), I)
<1> DEFINE items == M[w][0]
           st == Started(w, items)
           m == Taken(w, items)
           N == Spliced(M, w)
<1>1. M \in [Worker -> [Place -> Seq(I)]]
  BY DEF Homed
<1>2. /\ items \in Seq(I) /\ Len(items) \in Nat /\ m \in Nat /\ st \in SUBSET Slot
      /\ N \in [Worker -> [Place -> Seq(I)]]
      /\ Len(N[w][0]) = IF m <= Len(items) THEN Len(items) - m ELSE 0
      /\ \A k \in 1 .. Len(N[w][0]) : N[w][0][k] = items[m + k]
      /\ \A s \in st :
            /\ Len(N[w][s]) = Upto(w, items, s) - From(w, s) + 1
            /\ \A k \in 1 .. Len(N[w][s]) : N[w][s][k] = items[From(w, s) + k - 1]
      /\ \A v \in Worker, s \in Place : v # w \/ s \notin {0} \cup st => N[v][s] = M[v][s]
  <2>1. SplicedFacts(M, N, w, I)
    BY <1>1, SplicedPlaces
  <2> HIDE DEF N
  <2> QED BY <2>1 DEF SplicedFacts
<1>3. /\ st \in SUBSET IdleSlots(w)
      /\ \A s \in st : /\ From(w, s) \in 1 .. Len(items)
                       /\ Upto(w, items, s) \in From(w, s) .. Len(items)
                       /\ Upto(w, items, s) <= m
      /\ \A s \in st, t \in st : \A k \in Int :
            /\ k \in From(w, s) .. Upto(w, items, s)
            /\ k \in From(w, t) .. Upto(w, items, t)
            => s = t
      /\ \A k \in 1 .. Len(items) : k <= m =>
            \E s \in st : k \in From(w, s) .. Upto(w, items, s)
  BY <1>2, DrainParts
<1> HIDE DEF items, st, m, N
<1>4. ASSUME NEW i \in I
      PROVE  \E v \in Worker, s \in Place : \E k \in 1 .. Len(N[v][s]) : N[v][s][k] = i
  <2>1. PICK v \in Worker, s \in Place : \E k \in 1 .. Len(M[v][s]) : M[v][s][k] = i
    BY DEF Homed
  <2>2. PICK k \in 1 .. Len(M[v][s]) : M[v][s][k] = i
    BY <2>1
  <2>3. CASE v # w \/ s \notin {0} \cup st
    BY <2>2, <2>3, <1>2
  <2>4. CASE v = w /\ s \in st
    <3>1. M[w][s] = <<>> /\ Len(<<>>) = 0
      BY <1>3, <2>4
    <3> QED BY <2>2, <2>4, <3>1
  <2>5. CASE v = w /\ s = 0
    <3>1. k \in 1 .. Len(items) /\ items[k] = i
      BY <2>2, <2>5 DEF items
    <3>2. CASE k <= m
      <4>1. PICK t \in st : k \in From(w, t) .. Upto(w, items, t)
        BY <3>1, <3>2, <1>3
      <4> DEFINE f == From(w, t)
                 u == Upto(w, items, t)
      <4>2. /\ f \in 1 .. Len(items) /\ u \in f .. Len(items) /\ k \in f .. u
            /\ Len(N[w][t]) = u - f + 1
            /\ \A h \in 1 .. Len(N[w][t]) : N[w][t][h] = items[f + h - 1]
        BY <4>1, <1>2, <1>3
      <4> HIDE DEF f, u
      <4>3. k - f + 1 \in 1 .. Len(N[w][t]) /\ f + (k - f + 1) - 1 = k
        BY <4>2, <1>2
      <4>4. N[w][t][k - f + 1] = i
        BY <4>2, <4>3, <3>1
      <4>5. t \in Place
        BY <1>2, PlaceFacts
      <4> QED BY <4>3, <4>4, <4>5
    <3>3. CASE ~(k <= m)
      <4>1. k - m \in 1 .. Len(N[w][0]) /\ m + (k - m) = k
        BY <3>1, <3>3, <1>2
      <4>2. N[w][0][k - m] = i
        BY <4>1, <3>1, <1>2
      <4> QED BY <4>1, <4>2, PlaceFacts
    <3> QED BY <3>2, <3>3
  <2> QED BY <2>3, <2>4, <2>5
<1>5. ASSUME NEW v \in Worker, NEW u \in Worker, NEW s \in Place, NEW t \in Place,
             NEW h \in 1 .. Len(N[v][s]), NEW k \in 1 .. Len(N[u][t]),
             N[v][s][h] = N[u][t][k]
      PROVE  v = u /\ s = t /\ h = k
  <2> DEFINE Moved(x, p) == x = w /\ p \in {0} \cup st
             Index(p, j) == IF p = 0 THEN m + j ELSE From(w, p) + j - 1
  <2>1. ASSUME NEW x \in Worker, NEW p \in Place, NEW j \in 1 .. Len(N[x][p]), Moved(x, p)
        PROVE  Index(p, j) \in 1 .. Len(items) /\ N[x][p][j] = M[w][0][Index(p, j)]
    <3>1. CASE p = 0
      BY <2>1, <3>1, <1>2, SMTT(60) DEF items
    <3>2. CASE p \in st /\ p # 0
      <4> DEFINE f == From(w, p)
                 q == Upto(w, items, p)
      <4>1. /\ f \in 1 .. Len(items) /\ q \in f .. Len(items) /\ j \in 1 .. q - f + 1
            /\ N[x][p][j] = items[f + j - 1]
        BY <2>1, <3>2, <1>2, <1>3
      <4> HIDE DEF f, q
      <4>2. f + j - 1 \in 1 .. Len(items)
        BY <4>1, <1>2
      <4> QED BY <4>1, <4>2, <3>2 DEF items, f
    <3> QED BY <2>1, <3>1, <3>2
  <2>2. ASSUME NEW x \in Worker, NEW p \in Place, NEW j \in 1 .. Len(N[x][p]), ~Moved(x, p)
        PROVE  j \in 1 .. Len(M[x][p]) /\ N[x][p][j] = M[x][p][j] /\ ~(x = w /\ p = 0)
    BY <2>2, <1>2
  <2>3. \A x, y \in Worker, p, q \in Place :
           \A i \in 1 .. Len(M[x][p]), j \in 1 .. Len(M[y][q]) :
              M[x][p][i] = M[y][q][j] => x = y /\ p = q /\ i = j
    BY DEF Homed
  <2>4. CASE Moved(v, s) /\ Moved(u, t)
    <3>1. /\ Index(s, h) \in 1 .. Len(M[w][0]) /\ Index(t, k) \in 1 .. Len(M[w][0])
          /\ M[w][0][Index(s, h)] = M[w][0][Index(t, k)]
      BY <2>1, <2>4, <1>5 DEF items
    <3>2. Index(s, h) = Index(t, k)
      BY <3>1, <2>3, PlaceFacts
    <3>3. CASE s = 0 /\ t = 0
      BY <2>4, <3>2, <3>3, <1>2
    <3>4. ASSUME NEW p \in st, NEW j \in 1 .. Len(N[w][p])
          PROVE  From(w, p) + j - 1 \in From(w, p) .. Upto(w, items, p)
      <4> DEFINE f == From(w, p)
                 q == Upto(w, items, p)
      <4>1. f \in 1 .. Len(items) /\ q \in f .. Len(items) /\ j \in 1 .. q - f + 1
        BY <3>4, <1>2, <1>3
      <4> HIDE DEF f, q
      <4>2. f + j - 1 \in f .. q
        BY <4>1, <1>2
      <4> QED BY <4>2 DEF f, q
    <3>5. CASE s \in st /\ t \in st /\ s # 0 /\ t # 0
      <4>1. From(w, s) + h - 1 = From(w, t) + k - 1
        BY <3>2, <3>5
      <4>2. /\ From(w, s) + h - 1 \in From(w, s) .. Upto(w, items, s)
            /\ From(w, t) + k - 1 \in From(w, t) .. Upto(w, items, t)
            /\ From(w, s) \in Int /\ Upto(w, items, s) \in Int
        <5>1. h \in 1 .. Len(N[w][s]) /\ k \in 1 .. Len(N[w][t])
          BY <2>4
        <5>2. /\ From(w, s) + h - 1 \in From(w, s) .. Upto(w, items, s)
              /\ From(w, t) + k - 1 \in From(w, t) .. Upto(w, items, t)
          BY <5>1, <3>4, <3>5
        <5>3. From(w, s) \in Int /\ Upto(w, items, s) \in Int
          BY <3>5, <1>3
        <5> QED BY <5>2, <5>3
      <4>3. From(w, s) + h - 1 \in Int
        BY <4>2
      <4>4. s = t
        BY <4>1, <4>2, <4>3, <3>5, <1>3
      <4> QED BY <4>1, <4>2, <4>4, <2>4
    <3>6. CASE s = 0 /\ t \in st /\ t # 0
      <4>1. m + h = From(w, t) + k - 1 /\ h \in Int /\ h >= 1
        BY <3>2, <3>6
      <4>2. From(w, t) + k - 1 \in From(w, t) .. Upto(w, items, t)
        BY <2>4, <3>4, <3>6
      <4>3. /\ Upto(w, items, t) <= m /\ From(w, t) \in Int /\ Upto(w, items, t) \in Int
        BY <3>6, <1>3
      <4> QED BY <4>1, <4>2, <4>3, <1>2
    <3>7. CASE s \in st /\ s # 0 /\ t = 0
      <4>1. m + k = From(w, s) + h - 1 /\ k \in Int /\ k >= 1
        BY <3>2, <3>7
      <4>2. From(w, s) + h - 1 \in From(w, s) .. Upto(w, items, s)
        BY <2>4, <3>4, <3>7
      <4>3. /\ Upto(w, items, s) <= m /\ From(w, s) \in Int /\ Upto(w, items, s) \in Int
        BY <3>7, <1>3
      <4> QED BY <4>1, <4>2, <4>3, <1>2
    <3> QED BY <2>4, <3>3, <3>5, <3>6, <3>7
  <2>5. CASE ~Moved(v, s) /\ ~Moved(u, t)
    BY <2>2, <2>3, <2>5, <1>5
  <2>6. CASE Moved(v, s) /\ ~Moved(u, t)
    <3>1. /\ Index(s, h) \in 1 .. Len(M[w][0]) /\ k \in 1 .. Len(M[u][t])
          /\ M[w][0][Index(s, h)] = M[u][t][k] /\ ~(u = w /\ t = 0)
      BY <2>1, <2>2, <2>6, <1>5 DEF items
    <3> QED BY <3>1, <2>3, PlaceFacts, SMTT(60)
  <2>7. CASE ~Moved(v, s) /\ Moved(u, t)
    <3>1. /\ Index(t, k) \in 1 .. Len(M[w][0]) /\ h \in 1 .. Len(M[v][s])
          /\ M[w][0][Index(t, k)] = M[v][s][h] /\ ~(v = w /\ s = 0)
      BY <2>1, <2>2, <2>7, <1>5 DEF items
    <3> QED BY <3>1, <2>3, PlaceFacts, SMTT(60)
  <2> QED BY <2>4, <2>5, <2>6, <2>7
<1> QED BY <1>2, <1>4, <1>5 DEF Homed, N

\* A new item at the end of the buffer.
Added(M, w, i) ==
    [v \in Worker |-> [s \in Place |->
        IF v = w /\ s = 0 THEN M[w][0] \o <<i>> ELSE M[v][s]]]

\* A batch that failed, back at the front of the buffer.
Returned(M, w, t) ==
    [v \in Worker |-> [s \in Place |->
        IF v = w /\ s = 0 THEN M[w][t] \o M[w][0]
        ELSE IF v = w /\ s = t THEN <<>>
        ELSE M[v][s]]]

\* Places that are forgotten, and the items that were there.
Emptied(M, w, S) ==
    [v \in Worker |-> [s \in Place |-> IF v = w /\ s \in S THEN <<>> ELSE M[v][s]]]
Kept(M, w, S) == UNION {Members(M[w][s]) : s \in S}

LEMMA MembersFacts ==
    ASSUME NEW I, NEW q \in Seq(I)
    PROVE  /\ DOMAIN q = 1 .. Len(q) /\ Len(q) \in Nat
           /\ Members(q) = {q[k] : k \in 1 .. Len(q)} /\ Members(q) \in SUBSET I
           /\ \A x : x \in Members(q) <=> \E k \in 1 .. Len(q) : q[k] = x
BY LenProperties, ElementOfSeq DEF Members

LEMMA MembersConcat ==
    ASSUME NEW I, NEW p \in Seq(I), NEW q \in Seq(I)
    PROVE  p \o q \in Seq(I) /\ Members(p \o q) = Members(p) \cup Members(q)
<1> DEFINE r == p \o q
<1>1. /\ r \in Seq(I) /\ Len(r) = Len(p) + Len(q)
      /\ \A k \in 1 .. Len(p) + Len(q) : r[k] = IF k <= Len(p) THEN p[k] ELSE q[k - Len(p)]
  BY ConcatProperties
<1> HIDE DEF r
<1>2. Len(p) \in Nat /\ Len(q) \in Nat
  BY LenProperties
<1>3. /\ \A x : x \in Members(p) <=> \E k \in 1 .. Len(p) : p[k] = x
      /\ \A x : x \in Members(q) <=> \E k \in 1 .. Len(q) : q[k] = x
      /\ \A x : x \in Members(r) <=> \E k \in 1 .. Len(r) : r[k] = x
  BY <1>1, MembersFacts
<1>4. ASSUME NEW x \in Members(r)
      PROVE  x \in Members(p) \cup Members(q)
  <2>1. PICK k \in 1 .. Len(r) : r[k] = x
    BY <1>3
  <2>2. CASE k <= Len(p)
    BY <2>1, <2>2, <1>1, <1>2, <1>3
  <2>3. CASE ~(k <= Len(p))
    <3>1. k - Len(p) \in 1 .. Len(q) /\ q[k - Len(p)] = x
      BY <2>1, <2>3, <1>1, <1>2
    <3> QED BY <3>1, <1>3
  <2> QED BY <2>2, <2>3
<1>5. ASSUME NEW x \in Members(p)
      PROVE  x \in Members(r)
  <2>1. PICK k \in 1 .. Len(p) : p[k] = x
    BY <1>3
  <2>2. k \in 1 .. Len(r) /\ r[k] = x
    BY <2>1, <1>1, <1>2
  <2> QED BY <2>2, <1>3
<1>6. ASSUME NEW x \in Members(q)
      PROVE  x \in Members(r)
  <2>1. PICK k \in 1 .. Len(q) : q[k] = x
    BY <1>3
  <2>2. /\ Len(p) + k \in 1 .. Len(p) + Len(q) /\ ~(Len(p) + k <= Len(p))
        /\ (Len(p) + k) - Len(p) = k
    BY <1>2
  <2>3. Len(p) + k \in 1 .. Len(r) /\ r[Len(p) + k] = x
    BY <2>1, <2>2, <1>1
  <2> QED BY <2>3, <1>3
<1> QED BY <1>1, <1>4, <1>5, <1>6 DEF r

LEMMA HomedAdded ==
    ASSUME NEW I, NEW M, Homed(M, I), NEW w \in Worker, NEW i, i \notin I
    PROVE  Homed(Added(M, w, i), I \cup {i})
<1> DEFINE N == Added(M, w, i)
           J == I \cup {i}
           q == M[w][0]
<1>1. /\ M \in [Worker -> [Place -> Seq(I)]]
      /\ q \in Seq(I) /\ Len(q) \in Nat /\ \A k \in 1 .. Len(q) : q[k] \in I
  <2>1. M \in [Worker -> [Place -> Seq(I)]]
    BY DEF Homed
  <2>2. q \in Seq(I)
    BY <2>1, PlaceFacts
  <2> QED BY <2>1, <2>2, LenProperties, ElementOfSeq
<1>2. \A p \in Seq(I) : p \in Seq(J)
  <2> TAKE p \in Seq(I)
  <2>1. p \in [1 .. Len(p) -> I] /\ Len(p) \in Nat
    BY LenProperties
  <2>2. p \in [1 .. Len(p) -> J]
    BY <2>1
  <2> QED BY <2>1, <2>2
<1>3. /\ q \o <<i>> \in Seq(J) /\ Len(q \o <<i>>) = Len(q) + 1
      /\ \A k \in 1 .. Len(q) : (q \o <<i>>)[k] = q[k]
      /\ (q \o <<i>>)[Len(q) + 1] = i
  <2>1. q \in Seq(J) /\ <<i>> \in Seq(J) /\ Len(<<i>>) = 1 /\ <<i>>[1] = i
    BY <1>1, <1>2
  <2> QED BY <2>1, <1>1, ConcatProperties
<1>4. /\ N \in [Worker -> [Place -> Seq(J)]]
      /\ N[w][0] = q \o <<i>>
      /\ \A v \in Worker, s \in Place : v # w \/ s # 0 => N[v][s] = M[v][s]
  <2>1. N = [v \in Worker |-> [s \in Place |->
                IF v = w /\ s = 0 THEN q \o <<i>> ELSE M[v][s]]]
    BY DEF Added
  <2>2. \A v \in Worker, s \in Place :
           (IF v = w /\ s = 0 THEN q \o <<i>> ELSE M[v][s]) \in Seq(J)
    BY <1>1, <1>2, <1>3
  <2> HIDE DEF N, J, q
  <2> QED BY <2>1, <2>2, PlaceFacts
<1>5. \A v \in Worker, s \in Place : \A k \in 1 .. Len(M[v][s]) : M[v][s][k] \in I
  <2> TAKE v \in Worker, s \in Place
  <2>1. M[v][s] \in Seq(I)
    BY <1>1
  <2> QED BY <2>1, ElementOfSeq, LenProperties
<1> HIDE DEF N, q
<1>6. \A v \in Worker, s \in Place : \A k \in 1 .. Len(N[v][s]) :
         \/ N[v][s][k] = M[v][s][k] /\ k \in 1 .. Len(M[v][s]) /\ N[v][s][k] \in I
         \/ N[v][s][k] = i /\ v = w /\ s = 0 /\ k = Len(q) + 1
  <2> TAKE v \in Worker, s \in Place
  <2> TAKE k \in 1 .. Len(N[v][s])
  <2>1. CASE v # w \/ s # 0
    BY <2>1, <1>4, <1>5
  <2>2. CASE v = w /\ s = 0
    <3>1. k \in 1 .. Len(q) \/ k = Len(q) + 1
      BY <2>2, <1>1, <1>3, <1>4
    <3> QED BY <2>2, <3>1, <1>1, <1>3, <1>4 DEF q
  <2> QED BY <2>1, <2>2
<1>7. ASSUME NEW j \in J
      PROVE  \E v \in Worker, s \in Place : \E k \in 1 .. Len(N[v][s]) : N[v][s][k] = j
  <2>1. CASE j = i
    <3>1. Len(q) + 1 \in 1 .. Len(N[w][0]) /\ N[w][0][Len(q) + 1] = j
      BY <2>1, <1>1, <1>3, <1>4
    <3> QED BY <3>1, PlaceFacts
  <2>2. CASE j \in I
    <3>1. PICK v \in Worker, s \in Place : \E k \in 1 .. Len(M[v][s]) : M[v][s][k] = j
      BY <2>2 DEF Homed
    <3>2. PICK k \in 1 .. Len(M[v][s]) : M[v][s][k] = j
      BY <3>1
    <3>3. CASE v # w \/ s # 0
      BY <3>2, <3>3, <1>4
    <3>4. CASE v = w /\ s = 0
      <4>1. k \in 1 .. Len(q) /\ q[k] = j
        BY <3>2, <3>4 DEF q
      <4>2. k \in 1 .. Len(N[w][0]) /\ N[w][0][k] = j
        BY <4>1, <1>1, <1>3, <1>4
      <4> QED BY <4>2, PlaceFacts
    <3> QED BY <3>3, <3>4
  <2> QED BY <2>1, <2>2
<1>8. ASSUME NEW v \in Worker, NEW u \in Worker, NEW s \in Place, NEW t \in Place,
             NEW h \in 1 .. Len(N[v][s]), NEW k \in 1 .. Len(N[u][t]),
             N[v][s][h] = N[u][t][k]
      PROVE  v = u /\ s = t /\ h = k
  <2>1. CASE N[v][s][h] = i
    BY <2>1, <1>6, <1>8
  <2>2. CASE N[v][s][h] # i
    <3>1. /\ h \in 1 .. Len(M[v][s]) /\ k \in 1 .. Len(M[u][t])
          /\ M[v][s][h] = M[u][t][k]
      BY <2>2, <1>6, <1>8
    <3> QED BY <3>1 DEF Homed
  <2> QED BY <2>1, <2>2
<1> QED BY <1>4, <1>7, <1>8 DEF Homed, N

LEMMA HomedReturned ==
    ASSUME NEW I, NEW M, Homed(M, I), NEW w \in Worker, NEW t \in Slot
    PROVE  Homed(Returned(M, w, t), I)
<1> DEFINE N == Returned(M, w, t)
           p == M[w][t]
           q == M[w][0]
<1>1. /\ M \in [Worker -> [Place -> Seq(I)]] /\ t \in Place /\ t # 0
      /\ p \in Seq(I) /\ Len(p) \in Nat /\ q \in Seq(I) /\ Len(q) \in Nat
  <2>1. M \in [Worker -> [Place -> Seq(I)]]
    BY DEF Homed
  <2>2. t \in Place /\ t # 0 /\ p \in Seq(I) /\ q \in Seq(I)
    BY <2>1, PlaceFacts
  <2> QED BY <2>1, <2>2, LenProperties
<1>2. /\ p \o q \in Seq(I) /\ Len(p \o q) = Len(p) + Len(q)
      /\ \A k \in 1 .. Len(p) + Len(q) :
            (p \o q)[k] = IF k <= Len(p) THEN p[k] ELSE q[k - Len(p)]
  BY <1>1, ConcatProperties
<1>3. /\ N \in [Worker -> [Place -> Seq(I)]]
      /\ N[w][0] = p \o q
      /\ N[w][t] = <<>> /\ Len(<<>>) = 0
      /\ \A v \in Worker, s \in Place : v # w \/ s \notin {0, t} => N[v][s] = M[v][s]
  <2>1. N = [v \in Worker |-> [s \in Place |->
                IF v = w /\ s = 0 THEN p \o q ELSE IF v = w /\ s = t THEN <<>> ELSE M[v][s]]]
    BY DEF Returned
  <2>2. \A v \in Worker, s \in Place :
           (IF v = w /\ s = 0 THEN p \o q ELSE IF v = w /\ s = t THEN <<>> ELSE M[v][s])
              \in Seq(I)
    BY <1>1, <1>2, EmptySeq
  <2> HIDE DEF N, p, q
  <2> QED BY <1>1, <2>1, <2>2, PlaceFacts
<1> HIDE DEF N, p, q
<1>4. ASSUME NEW v \in Worker, NEW s \in Place, NEW k \in 1 .. Len(N[v][s])
      PROVE  \/ /\ v # w \/ s \notin {0, t}
                /\ k \in 1 .. Len(M[v][s]) /\ N[v][s][k] = M[v][s][k]
             \/ /\ v = w /\ s = 0 /\ k <= Len(p)
                /\ k \in 1 .. Len(M[w][t]) /\ N[v][s][k] = M[w][t][k]
             \/ /\ v = w /\ s = 0 /\ k > Len(p)
                /\ k - Len(p) \in 1 .. Len(M[w][0]) /\ N[v][s][k] = M[w][0][k - Len(p)]
  <2>1. CASE v # w \/ s \notin {0, t}
    BY <2>1, <1>3
  <2>2. CASE v = w /\ s = t
    BY <2>2, <1>3
  <2>3. CASE v = w /\ s = 0
    <3>1. k \in 1 .. Len(p) + Len(q)
      BY <2>3, <1>2, <1>3
    <3>2. N[v][s][k] = IF k <= Len(p) THEN p[k] ELSE q[k - Len(p)]
      BY <2>3, <3>1, <1>2, <1>3
    <3>3. CASE k <= Len(p)
      BY <2>3, <3>1, <3>2, <3>3, <1>1 DEF p
    <3>4. CASE ~(k <= Len(p))
      <4>1. k > Len(p) /\ k - Len(p) \in 1 .. Len(q) /\ N[v][s][k] = q[k - Len(p)]
        BY <3>1, <3>2, <3>4, <1>1
      <4> QED BY <2>3, <4>1 DEF q
    <3> QED BY <3>3, <3>4
  <2> QED BY <2>1, <2>2, <2>3
<1>5. ASSUME NEW j \in I
      PROVE  \E v \in Worker, s \in Place : \E k \in 1 .. Len(N[v][s]) : N[v][s][k] = j
  <2>1. PICK v \in Worker, s \in Place : \E k \in 1 .. Len(M[v][s]) : M[v][s][k] = j
    BY DEF Homed
  <2>2. PICK k \in 1 .. Len(M[v][s]) : M[v][s][k] = j
    BY <2>1
  <2>3. CASE v # w \/ s \notin {0, t}
    BY <2>2, <2>3, <1>3
  <2>4. CASE v = w /\ s = 0
    <3>1. k \in 1 .. Len(q) /\ q[k] = j
      BY <2>2, <2>4 DEF q
    <3>2. /\ Len(p) + k \in 1 .. Len(p) + Len(q) /\ ~(Len(p) + k <= Len(p))
          /\ (Len(p) + k) - Len(p) = k
      BY <3>1, <1>1
    <3>3. Len(p) + k \in 1 .. Len(N[w][0]) /\ N[w][0][Len(p) + k] = j
      BY <3>1, <3>2, <1>2, <1>3
    <3> QED BY <3>3, PlaceFacts
  <2>5. CASE v = w /\ s = t
    <3>1. k \in 1 .. Len(p) /\ p[k] = j
      BY <2>2, <2>5 DEF p
    <3>2. k \in 1 .. Len(p) + Len(q) /\ k <= Len(p)
      BY <3>1, <1>1
    <3>3. k \in 1 .. Len(N[w][0]) /\ N[w][0][k] = j
      BY <3>1, <3>2, <1>2, <1>3
    <3> QED BY <3>3, PlaceFacts
  <2> QED BY <2>3, <2>4, <2>5
<1>6. ASSUME NEW v \in Worker, NEW u \in Worker, NEW s \in Place, NEW r \in Place,
             NEW h \in 1 .. Len(N[v][s]), NEW k \in 1 .. Len(N[u][r]),
             N[v][s][h] = N[u][r][k]
      PROVE  v = u /\ s = r /\ h = k
  <2>1. \A x, y \in Worker, a, b \in Place :
           \A i \in 1 .. Len(M[x][a]), j \in 1 .. Len(M[y][b]) :
              M[x][a][i] = M[y][b][j] => x = y /\ a = b /\ i = j
    BY DEF Homed
  <2>2. \/ /\ v # w \/ s \notin {0, t}
           /\ h \in 1 .. Len(M[v][s]) /\ N[v][s][h] = M[v][s][h]
        \/ /\ v = w /\ s = 0 /\ h <= Len(p)
           /\ h \in 1 .. Len(M[w][t]) /\ N[v][s][h] = M[w][t][h]
        \/ /\ v = w /\ s = 0 /\ h > Len(p)
           /\ h - Len(p) \in 1 .. Len(M[w][0]) /\ N[v][s][h] = M[w][0][h - Len(p)]
    BY <1>4
  <2>3. \/ /\ u # w \/ r \notin {0, t}
           /\ k \in 1 .. Len(M[u][r]) /\ N[u][r][k] = M[u][r][k]
        \/ /\ u = w /\ r = 0 /\ k <= Len(p)
           /\ k \in 1 .. Len(M[w][t]) /\ N[u][r][k] = M[w][t][k]
        \/ /\ u = w /\ r = 0 /\ k > Len(p)
           /\ k - Len(p) \in 1 .. Len(M[w][0]) /\ N[u][r][k] = M[w][0][k - Len(p)]
    BY <1>4
  <2>4. h \in Int /\ k \in Int /\ Len(p) \in Int /\ 0 \in Place
    BY <1>1, PlaceFacts
  <2>5. CASE v # w \/ s \notin {0, t}
    <3>1. h \in 1 .. Len(M[v][s]) /\ N[v][s][h] = M[v][s][h]
      BY <2>2, <2>5
    <3>2. CASE u # w \/ r \notin {0, t}
      <4>1. k \in 1 .. Len(M[u][r]) /\ M[u][r][k] = M[v][s][h]
        BY <2>3, <3>1, <3>2, <1>6
      <4> QED BY <2>1, <3>1, <4>1
    <3>3. CASE u = w /\ r = 0
      <4>1. \/ k \in 1 .. Len(M[w][t]) /\ M[v][s][h] = M[w][t][k]
            \/ k - Len(p) \in 1 .. Len(M[w][0]) /\ M[v][s][h] = M[w][0][k - Len(p)]
        BY <2>3, <3>1, <3>3, <1>6
      <4>2. CASE k \in 1 .. Len(M[w][t]) /\ M[v][s][h] = M[w][t][k]
        BY <2>1, <2>5, <3>1, <4>2, <1>1, SMTT(60)
      <4>3. CASE k - Len(p) \in 1 .. Len(M[w][0]) /\ M[v][s][h] = M[w][0][k - Len(p)]
        <5> DEFINE j == k - Len(p)
        <5> HIDE DEF j
        <5>1. j \in 1 .. Len(M[w][0]) /\ M[v][s][h] = M[w][0][j]
          BY <4>3 DEF j
        <5> QED BY <2>1, <2>4, <2>5, <3>1, <5>1
      <4> QED BY <4>1, <4>2, <4>3
    <3> QED BY <2>3, <3>2, <3>3
  <2>6. CASE v = w /\ s = 0 /\ h <= Len(p)
    <3>1. h \in 1 .. Len(M[w][t]) /\ N[v][s][h] = M[w][t][h]
      BY <2>2, <2>4, <2>6
    <3>2. CASE u # w \/ r \notin {0, t}
      <4>1. k \in 1 .. Len(M[u][r]) /\ M[u][r][k] = M[w][t][h]
        BY <2>3, <3>1, <3>2, <1>6
      <4> QED BY <2>1, <3>1, <3>2, <4>1, <1>1
    <3>3. CASE u = w /\ r = 0
      <4>1. \/ k \in 1 .. Len(M[w][t]) /\ M[w][t][h] = M[w][t][k]
            \/ k - Len(p) \in 1 .. Len(M[w][0]) /\ M[w][t][h] = M[w][0][k - Len(p)]
        BY <2>3, <3>1, <3>3, <1>6
      <4> QED BY <2>1, <2>4, <2>6, <3>1, <3>3, <4>1, <1>1, SMTT(60)
    <3> QED BY <2>3, <3>2, <3>3
  <2>7. CASE v = w /\ s = 0 /\ h > Len(p)
    <3>1. h - Len(p) \in 1 .. Len(M[w][0]) /\ N[v][s][h] = M[w][0][h - Len(p)]
      BY <2>2, <2>4, <2>7
    <3>2. CASE u # w \/ r \notin {0, t}
      <4>1. k \in 1 .. Len(M[u][r]) /\ M[u][r][k] = M[w][0][h - Len(p)]
        BY <2>3, <3>1, <3>2, <1>6
      <4> QED BY <2>1, <2>4, <3>1, <3>2, <4>1, SMTT(60)
    <3>3. CASE u = w /\ r = 0
      <4>1. \/ k \in 1 .. Len(M[w][t]) /\ M[w][0][h - Len(p)] = M[w][t][k]
            \/ k - Len(p) \in 1 .. Len(M[w][0]) /\ M[w][0][h - Len(p)] = M[w][0][k - Len(p)]
        BY <2>3, <3>1, <3>3, <1>6
      <4>2. CASE k \in 1 .. Len(M[w][t]) /\ M[w][0][h - Len(p)] = M[w][t][k]
        BY <2>1, <2>4, <3>1, <4>2, <1>1, SMTT(60)
      <4>3. CASE k - Len(p) \in 1 .. Len(M[w][0]) /\ M[w][0][h - Len(p)] = M[w][0][k - Len(p)]
        <5>1. h - Len(p) = k - Len(p)
          <6> DEFINE i == h - Len(p)
                     j == k - Len(p)
          <6> HIDE DEF i, j
          <6>1. /\ i \in 1 .. Len(M[w][0]) /\ j \in 1 .. Len(M[w][0])
                /\ M[w][0][i] = M[w][0][j]
            BY <3>1, <4>3 DEF i, j
          <6>2. i = j
            BY <2>1, <2>4, <6>1
          <6> QED BY <6>2 DEF i, j
        <5> QED BY <2>4, <2>7, <3>3, <5>1
      <4> QED BY <4>1, <4>2, <4>3
    <3> QED BY <2>3, <3>2, <3>3
  <2> QED BY <2>2, <2>5, <2>6, <2>7
<1> QED BY <1>3, <1>5, <1>6 DEF Homed, N

LEMMA HomedEmptied ==
    ASSUME NEW I, NEW M, Homed(M, I), NEW w \in Worker, NEW S \in SUBSET Place
    PROVE  Homed(Emptied(M, w, S), I \ Kept(M, w, S))
<1> DEFINE N == Emptied(M, w, S)
           J == I \ Kept(M, w, S)
<1>1. M \in [Worker -> [Place -> Seq(I)]]
  BY DEF Homed
<1>2. \A v \in Worker, s \in Place :
         /\ N[v][s] = IF v = w /\ s \in S THEN <<>> ELSE M[v][s]
         /\ Len(<<>>) = 0
  BY DEF Emptied
<1>3. \A x : x \in Kept(M, w, S) <=> \E s \in S : \E k \in 1 .. Len(M[w][s]) : M[w][s][k] = x
  <2>1. \A s \in S : \A x : x \in Members(M[w][s]) <=> \E k \in 1 .. Len(M[w][s]) : M[w][s][k] = x
    <3> TAKE s \in S
    <3> DEFINE q == M[w][s]
    <3>1. q \in Seq(I)
      BY <1>1
    <3> HIDE DEF q
    <3>2. \A x : x \in Members(q) <=> \E k \in 1 .. Len(q) : q[k] = x
      BY <3>1, MembersFacts
    <3> QED BY <3>2 DEF q
  <2> TAKE x
  <2>2. x \in Kept(M, w, S) <=> \E s \in S : x \in Members(M[w][s])
    BY DEF Kept
  <2> QED BY <2>1, <2>2
<1>4. \A u, v \in Worker, s, t \in Place :
         \A h \in 1 .. Len(M[v][s]), k \in 1 .. Len(M[u][t]) :
            M[v][s][h] = M[u][t][k] => v = u /\ s = t /\ h = k
  BY DEF Homed
<1>5. N \in [Worker -> [Place -> Seq(J)]]
  <2>1. ASSUME NEW v \in Worker, NEW s \in Place
        PROVE  N[v][s] \in Seq(J)
    <3>1. CASE v = w /\ s \in S
      <4>1. N[v][s] = <<>>
        BY <3>1, <1>2
      <4> QED BY <4>1, EmptySeq
    <3>2. CASE ~(v = w /\ s \in S)
      <4>1. /\ M[v][s] \in Seq(I) /\ Len(M[v][s]) \in Nat
            /\ M[v][s] \in [1 .. Len(M[v][s]) -> I]
        <5>1. M[v][s] \in Seq(I)
          BY <1>1
        <5> DEFINE q == M[v][s]
        <5> HIDE DEF q
        <5>2. q \in Seq(I)
          BY <5>1 DEF q
        <5>3. Len(q) \in Nat /\ q \in [1 .. Len(q) -> I]
          BY <5>2, LenProperties
        <5> QED BY <5>2, <5>3 DEF q
      <4>2. \A k \in 1 .. Len(M[v][s]) : M[v][s][k] \in J
        <5> TAKE k \in 1 .. Len(M[v][s])
        <5>1. M[v][s][k] \in I
          BY <4>1
        <5>2. ASSUME NEW t \in S, NEW h \in 1 .. Len(M[w][t]), M[w][t][h] = M[v][s][k]
              PROVE  FALSE
          <6>1. t \in Place
            OBVIOUS
          <6> QED BY <6>1, <5>2, <1>4, <3>2
        <5>3. M[v][s][k] \notin Kept(M, w, S)
          BY <5>2, <1>3
        <5> QED BY <5>1, <5>3
      <4>3. M[v][s] \in [1 .. Len(M[v][s]) -> J]
        BY <4>1, <4>2
      <4>4. M[v][s] \in Seq(J)
        BY <4>1, <4>3
      <4> QED BY <4>4, <3>2, <1>2
    <3> QED BY <3>1, <3>2
  <2>2. N = [v \in Worker |-> [s \in Place |-> N[v][s]]]
    BY DEF Emptied
  <2> HIDE DEF N, J
  <2>3. [v \in Worker |-> [s \in Place |-> N[v][s]]] \in [Worker -> [Place -> Seq(J)]]
    BY <2>1
  <2> QED BY <2>2, <2>3
<1> HIDE DEF N
<1>6. ASSUME NEW j \in J
      PROVE  \E v \in Worker, s \in Place : \E k \in 1 .. Len(N[v][s]) : N[v][s][k] = j
  <2>1. PICK v \in Worker, s \in Place : \E k \in 1 .. Len(M[v][s]) : M[v][s][k] = j
    BY DEF Homed
  <2>2. ~(v = w /\ s \in S)
    BY <2>1, <1>3
  <2> QED BY <2>1, <2>2, <1>2
<1>7. ASSUME NEW v \in Worker, NEW u \in Worker, NEW s \in Place, NEW t \in Place,
             NEW h \in 1 .. Len(N[v][s]), NEW k \in 1 .. Len(N[u][t]),
             N[v][s][h] = N[u][t][k]
      PROVE  v = u /\ s = t /\ h = k
  <2>1. ~(v = w /\ s \in S) /\ ~(u = w /\ t \in S)
    BY <1>2
  <2> QED BY <2>1, <1>2, <1>4, <1>7, SMTT(60)
<1> QED BY <1>5, <1>6, <1>7 DEF Homed, N

-----------------------------------------------------------------------------
(* The steps' effects on the state of the workers. *)

StateTypes ==
    /\ buffer \in [Worker -> Seq(Nat)]
    /\ flight \in [Worker -> [Slot -> Flush]]
    /\ activeFlushes \in [Worker -> Nat]

\* Worker w's buffered items are now among the items given, the other workers'
\* are what they were, and a slot of w may have got a batch of those items.
Moves(w, items) ==
    /\ \A v \in Worker : v # w => buffer'[v] = buffer[v]
    /\ Members(buffer'[w]) \subseteq Members(items)
    /\ \A v \in Worker, s \in Slot :
        \/ flight'[v][s] = flight[v][s]
        \/ /\ v = w /\ flight[v][s].stage = "idle"
           /\ flight'[v][s].stage = "upsert" /\ flight'[v][s].next = 1
           /\ flight'[v][s].batch # <<>> /\ Len(flight'[v][s].batch) <= BatchSize
           /\ Members(flight'[v][s].batch) \subseteq Members(items)

\* The memory with other items in the buffer of worker w.
WithBuffer(w, items) ==
    [v \in Worker |-> [s \in Place |->
        IF s = 0 THEN (IF v = w THEN items ELSE buffer[v]) ELSE flight[v][s].batch]]

LEMMA MemoryFacts ==
    ASSUME StateTypes
    PROVE  /\ Memory \in [Worker -> [Place -> Seq(Nat)]]
           /\ \A w \in Worker : Memory[w][0] = buffer[w]
           /\ \A w \in Worker, s \in Slot : Memory[w][s] = flight[w][s].batch
<1>1. \A w \in Worker : buffer[w] \in Seq(Nat)
  BY DEF StateTypes
<1>2. \A w \in Worker, s \in Slot : flight[w][s].batch \in Seq(Nat)
  BY DEF StateTypes, Flush
<1>3. \A w \in Worker, s \in Place : (IF s = 0 THEN buffer[w] ELSE flight[w][s].batch) \in Seq(Nat)
  BY <1>1, <1>2, PlaceFacts
<1> QED BY <1>3, PlaceFacts DEF Memory

LEMMA DrainEffect ==
    ASSUME StateTypes, FlightOK, NEW w \in Worker, NEW items \in Seq(Nat),
           DrainBuffer(w, items)
    PROVE  /\ StateTypes' /\ Moves(w, items)
           /\ ActiveOK => ActiveOK'
           /\ Memory' = Spliced(WithBuffer(w, items), w)
           /\ \A s \in IdleSlots(w) : WithBuffer(w, items)[w][s] = <<>>
<1> DEFINE M == WithBuffer(w, items)
           N == Spliced(M, w)
           st == Started(w, items)
<1>1. /\ M \in [Worker -> [Place -> Seq(Nat)]] /\ M[w][0] = items
      /\ \A v \in Worker : v # w => M[v][0] = buffer[v]
      /\ \A v \in Worker, s \in Slot : M[v][s] = flight[v][s].batch
  <2>1. \A v \in Worker : buffer[v] \in Seq(Nat)
    BY DEF StateTypes
  <2>2. \A v \in Worker, s \in Slot : flight[v][s].batch \in Seq(Nat)
    BY DEF StateTypes, Flush
  <2>3. \A v \in Worker, s \in Place :
           (IF s = 0 THEN (IF v = w THEN items ELSE buffer[v]) ELSE flight[v][s].batch)
              \in Seq(Nat)
    BY <2>1, <2>2, PlaceFacts
  <2> QED BY <2>3, PlaceFacts DEF WithBuffer
<1>2. SplicedFacts(M, N, w, Nat)
  BY <1>1, SplicedPlaces
<1>3. /\ st \in SUBSET IdleSlots(w) /\ IsFiniteSet(st) /\ st \in SUBSET Slot
      /\ \A s \in st : /\ From(w, s) \in 1 .. Len(items)
                       /\ Upto(w, items, s) \in From(w, s) .. Len(items)
                       /\ Upto(w, items, s) < From(w, s) + BatchSize
  <2>1. Len(items) \in Nat
    BY LenProperties
  <2>2. IdleSlots(w) \in SUBSET Slot
    BY DEF IdleSlots
  <2> QED BY <2>1, <2>2, DrainParts
<1>4. /\ flight' = [flight EXCEPT ![w] = [s \in Slot |->
                      IF s \in st
                      THEN [stage |-> "upsert", next |-> 1, runs |-> {},
                            batch |-> SubSeq(items, From(w, s), Upto(w, items, s))]
                      ELSE flight[w][s]]]
      /\ activeFlushes' = [activeFlushes EXCEPT ![w] = @ + Cardinality(st)]
      /\ buffer' = [buffer EXCEPT ![w] = SubSeq(items, Taken(w, items) + 1, Len(items))]
  BY DEF DrainBuffer, Started, From, Upto, Before, Taken
<1> HIDE DEF M, st
<1>5. N = [v \in Worker |-> [s \in Place |->
            IF v # w THEN M[v][s]
            ELSE IF s = 0 THEN SubSeq(items, Taken(w, items) + 1, Len(items))
            ELSE IF s \in st THEN SubSeq(items, From(w, s), Upto(w, items, s))
            ELSE M[v][s]]]
  BY <1>1 DEF Spliced, st
<1> HIDE DEF N
<1>6. /\ \A v \in Worker : buffer'[v] = IF v = w THEN SubSeq(items, Taken(w, items) + 1, Len(items))
                                        ELSE buffer[v]
      /\ \A v \in Worker, s \in Slot :
            flight'[v][s] = IF v = w /\ s \in st
                            THEN [stage |-> "upsert", next |-> 1, runs |-> {},
                                  batch |-> SubSeq(items, From(w, s), Upto(w, items, s))]
                            ELSE flight[v][s]
  BY <1>4 DEF StateTypes
<1>0. \A s \in st : /\ flight'[w][s].stage = "upsert" /\ flight'[w][s].next = 1
                    /\ flight'[w][s].runs = {}
                    /\ flight'[w][s].batch = SubSeq(items, From(w, s), Upto(w, items, s))
  <2> TAKE s \in st
  <2> DEFINE b == SubSeq(items, From(w, s), Upto(w, items, s))
  <2>1. flight'[w][s] = [stage |-> "upsert", next |-> 1, runs |-> {}, batch |-> b]
    BY <1>3, <1>6
  <2> HIDE DEF b
  <2>2. /\ flight'[w][s].stage = "upsert" /\ flight'[w][s].next = 1
        /\ flight'[w][s].runs = {} /\ flight'[w][s].batch = b
    BY <2>1
  <2> QED BY <2>2 DEF b
<1>7. /\ \A v \in Worker : buffer'[v] = N[v][0]
      /\ \A v \in Worker, s \in Slot : flight'[v][s].batch = N[v][s]
  <2>1. ASSUME NEW v \in Worker, NEW s \in Slot
        PROVE  flight'[v][s].batch = N[v][s]
    <3>1. s \in Place /\ s # 0
      BY PlaceFacts
    <3>2. CASE v = w /\ s \in st
      <4>1. N[w][s] = SubSeq(items, From(w, s), Upto(w, items, s))
        BY <3>1, <3>2, <1>5
      <4> QED BY <3>2, <4>1, <1>0
    <3>3. CASE ~(v = w /\ s \in st)
      <4>1. flight'[v][s] = flight[v][s]
        BY <3>3, <1>6
      <4>2. N[v][s] = M[v][s]
        BY <3>1, <3>3, <1>5
      <4>3. M[v][s] = flight[v][s].batch
        BY <1>1
      <4> QED BY <4>1, <4>2, <4>3
    <3> QED BY <3>2, <3>3
  <2> QED BY <2>1, <1>1, <1>5, <1>6, PlaceFacts
<1>8. /\ N \in [Worker -> [Place -> Seq(Nat)]]
      /\ \A s \in st : /\ Len(N[w][s]) = Upto(w, items, s) - From(w, s) + 1
                       /\ \A k \in 1 .. Len(N[w][s]) : N[w][s][k] = items[From(w, s) + k - 1]
      /\ \A k \in 1 .. Len(N[w][0]) : N[w][0][k] = items[Taken(w, items) + k]
      /\ Len(N[w][0]) = IF Taken(w, items) <= Len(items) THEN Len(items) - Taken(w, items) ELSE 0
      /\ Taken(w, items) \in Nat
  BY <1>1, <1>2 DEF SplicedFacts, st
<1>9. /\ Members(N[w][0]) \subseteq Members(items)
      /\ \A s \in st : /\ Members(N[w][s]) \subseteq Members(items)
                       /\ N[w][s] # <<>> /\ Len(N[w][s]) <= BatchSize
  <2>1. /\ Len(items) \in Nat
        /\ \A x : x \in Members(items) <=> \E k \in 1 .. Len(items) : items[k] = x
    BY MembersFacts
  <2>2. \A s \in Place : \A x \in Members(N[w][s]) : \E k \in 1 .. Len(N[w][s]) : N[w][s][k] = x
    <3> TAKE s \in Place
    <3>1. N[w][s] \in Seq(Nat)
      BY <1>8
    <3> QED BY <3>1, MembersFacts
  <2>3. ASSUME NEW x \in Members(N[w][0])
        PROVE  x \in Members(items)
    <3>1. PICK k \in 1 .. Len(N[w][0]) : N[w][0][k] = x
      BY <2>2, PlaceFacts
    <3>2. Taken(w, items) + k \in 1 .. Len(items)
      <4> DEFINE m == Taken(w, items)
                 n == Len(items)
                 j == Len(N[w][0])
      <4> HIDE DEF m, n, j
      <4>1. m \in Nat /\ n \in Nat /\ j = (IF m <= n THEN n - m ELSE 0) /\ k \in 1 .. j
        BY <1>8, <2>1 DEF m, n, j
      <4>2. m + k \in 1 .. n
        BY <4>1
      <4> QED BY <4>2 DEF m, n
    <3>3. items[Taken(w, items) + k] = x
      BY <3>1, <1>8
    <3> QED BY <3>2, <3>3, <2>1
  <2>4. ASSUME NEW s \in st
        PROVE  /\ N[w][s] # <<>> /\ Len(N[w][s]) <= BatchSize
               /\ \A x \in Members(N[w][s]) : x \in Members(items)
    <3> DEFINE f == From(w, s)
               u == Upto(w, items, s)
    <3>1. /\ f \in 1 .. Len(items) /\ u \in f .. Len(items) /\ u < f + BatchSize
          /\ Len(N[w][s]) = u - f + 1
          /\ \A k \in 1 .. Len(N[w][s]) : N[w][s][k] = items[f + k - 1]
      BY <1>3, <1>8
    <3> HIDE DEF f, u
    <3>2. Len(N[w][s]) >= 1 /\ Len(N[w][s]) <= BatchSize
      BY <3>1, <2>1, SizeAssumption
    <3>3. N[w][s] # <<>>
      BY <3>2, EmptySeq
    <3>4. ASSUME NEW x \in Members(N[w][s])
          PROVE  x \in Members(items)
      <4>1. s \in Place
        BY <1>3, PlaceFacts
      <4>2. PICK k \in 1 .. Len(N[w][s]) : N[w][s][k] = x
        BY <2>2, <4>1
      <4>3. f + k - 1 \in 1 .. Len(items) /\ items[f + k - 1] = x
        BY <4>2, <3>1, <2>1, SMTT(60)
      <4> QED BY <4>3, <2>1
    <3> QED BY <3>2, <3>3, <3>4
  <2> QED BY <2>3, <2>4
<1>10. Moves(w, items)
  <2>1. \A v \in Worker : v # w => buffer'[v] = buffer[v]
    BY <1>6
  <2>2. Members(buffer'[w]) \subseteq Members(items)
    BY <1>7, <1>9
  <2>3. ASSUME NEW v \in Worker, NEW s \in Slot, flight'[v][s] # flight[v][s]
        PROVE  /\ v = w /\ flight[v][s].stage = "idle"
               /\ flight'[v][s].stage = "upsert" /\ flight'[v][s].next = 1
               /\ flight'[v][s].batch # <<>> /\ Len(flight'[v][s].batch) <= BatchSize
               /\ Members(flight'[v][s].batch) \subseteq Members(items)
    <3>1. v = w /\ s \in st
      BY <2>3, <1>6
    <3>2. flight'[v][s].stage = "upsert" /\ flight'[v][s].next = 1
      BY <3>1, <1>0
    <3>3. flight[v][s].stage = "idle"
      BY <3>1, <1>3 DEF IdleSlots
    <3>4. flight'[v][s].batch = N[w][s]
      BY <3>1, <1>7
    <3> QED BY <3>1, <3>2, <3>3, <3>4, <1>9
  <2> QED BY <2>1, <2>2, <2>3 DEF Moves
<1>11. StateTypes'
  <2>1. \A v \in Worker : buffer'[v] \in Seq(Nat)
    BY <1>7, <1>8, PlaceFacts
  <2>2. ASSUME NEW v \in Worker, NEW s \in Slot
        PROVE  flight'[v][s] \in Flush
    <3>1. CASE v = w /\ s \in st
      <4>1. N[w][s] \in Seq(Nat)
        BY <1>8, PlaceFacts
      <4> DEFINE b == SubSeq(items, From(w, s), Upto(w, items, s))
      <4>2. b \in Seq(Nat)
        BY <3>1, <4>1, <1>0, <1>7
      <4>3. flight'[v][s] = [stage |-> "upsert", next |-> 1, runs |-> {}, batch |-> b]
        BY <3>1, <1>6
      <4> HIDE DEF b
      <4> QED BY <4>2, <4>3 DEF Flush, Stages
    <3>2. CASE ~(v = w /\ s \in st)
      BY <3>2, <1>6 DEF StateTypes
    <3> QED BY <3>1, <3>2
  <2>3. buffer' = [v \in Worker |-> buffer'[v]]
    BY <1>4 DEF StateTypes
  <2>4. flight' = [v \in Worker |-> [s \in Slot |-> flight'[v][s]]]
    BY <1>4 DEF StateTypes
  <2>5. activeFlushes' \in [Worker -> Nat]
    <3>1. Cardinality(st) \in Nat
      BY <1>3, FS_CardinalityType
    <3> QED BY <3>1, <1>4 DEF StateTypes
  <2>6. buffer' \in [Worker -> Seq(Nat)]
    BY <2>1, <2>3
  <2>7. flight' \in [Worker -> [Slot -> Flush]]
    BY <2>2, <2>4
  <2> QED BY <2>5, <2>6, <2>7 DEF StateTypes
<1>12. ASSUME ActiveOK
       PROVE  ActiveOK'
  <2>1. ASSUME NEW v \in Worker, v # w
        PROVE  activeFlushes'[v] = Cardinality(Slot \ IdleSlots(v)')
    <3>1. IdleSlots(v)' = IdleSlots(v)
      BY <1>6, <2>1 DEF IdleSlots
    <3> QED BY <3>1, <2>1, <1>4, <1>12 DEF ActiveOK, StateTypes
  <2>2. activeFlushes'[w] = Cardinality(Slot \ IdleSlots(w)')
    <3>1. Slot \ IdleSlots(w)' = (Slot \ IdleSlots(w)) \cup st
      <4>1. \A s \in Slot : flight'[w][s].stage = "idle" <=>
                               flight[w][s].stage = "idle" /\ s \notin st
        BY <1>0, <1>6
      <4> QED BY <4>1, <1>3 DEF IdleSlots
    <3>2. (Slot \ IdleSlots(w)) \cap st = {}
      BY <1>3
    <3>3. IsFiniteSet(Slot \ IdleSlots(w))
      BY SlotFinite, FS_Subset
    <3>4. Cardinality((Slot \ IdleSlots(w)) \cup st)
             = Cardinality(Slot \ IdleSlots(w)) + Cardinality(st) - Cardinality({})
      BY <3>2, <3>3, <1>3, FS_Union
    <3>5. /\ Cardinality({}) = 0 /\ Cardinality(Slot \ IdleSlots(w)) \in Nat
          /\ Cardinality(st) \in Nat
      BY <3>3, <1>3, FS_EmptySet, FS_CardinalityType
    <3>6. activeFlushes'[w] = activeFlushes[w] + Cardinality(st)
      BY <1>4 DEF StateTypes
    <3>7. activeFlushes[w] = Cardinality(Slot \ IdleSlots(w))
      BY <1>12 DEF ActiveOK
    <3>8. Cardinality(Slot \ IdleSlots(w)')
             = Cardinality(Slot \ IdleSlots(w)) + Cardinality(st)
      <4> DEFINE A == Slot \ IdleSlots(w)
                 B == Slot \ IdleSlots(w)'
      <4> HIDE DEF A, B
      <4>1. /\ B = A \cup st /\ Cardinality(A) \in Nat /\ Cardinality(st) \in Nat
            /\ Cardinality(A \cup st) = Cardinality(A) + Cardinality(st) - Cardinality({})
            /\ Cardinality({}) = 0
        BY <3>1, <3>4, <3>5 DEF A, B
      <4>2. Cardinality(B) = Cardinality(A) + Cardinality(st)
        BY <4>1
      <4> QED BY <4>2 DEF A, B
    <3> QED BY <3>6, <3>7, <3>8
  <2> QED BY <2>1, <2>2 DEF ActiveOK
<1>13. Memory' = N
  <2>1. \A v \in Worker, s \in Place :
           (IF s = 0 THEN buffer'[v] ELSE flight'[v][s].batch) = N[v][s]
    BY <1>7, PlaceFacts
  <2>2. N = [v \in Worker |-> [s \in Place |-> N[v][s]]]
    BY <1>8
  <2> QED BY <2>1, <2>2 DEF Memory
<1>14. \A s \in IdleSlots(w) : M[w][s] = <<>>
  BY <1>1 DEF IdleSlots, FlightOK
<1> QED BY <1>10, <1>11, <1>12, <1>13, <1>14 DEF N, M

LEMMA WithBufferSame ==
    ASSUME StateTypes, NEW w \in Worker
    PROVE  WithBuffer(w, buffer[w]) = Memory
<1>1. \A v \in Worker, s \in Place :
         (IF s = 0 THEN (IF v = w THEN buffer[w] ELSE buffer[v]) ELSE flight[v][s].batch)
            = (IF s = 0 THEN buffer[v] ELSE flight[v][s].batch)
  OBVIOUS
<1> QED BY <1>1 DEF WithBuffer, Memory

LEMMA WithBufferAdded ==
    ASSUME StateTypes, NEW w \in Worker, NEW i
    PROVE  WithBuffer(w, buffer[w] \o <<i>>) = Added(Memory, w, i)
<1> DEFINE q == buffer[w] \o <<i>>
<1>1. Added(Memory, w, i) = [v \in Worker |-> [s \in Place |->
                                IF v = w /\ s = 0 THEN q ELSE Memory[v][s]]]
  BY MemoryFacts DEF Added
<1> HIDE DEF q
<1>2. \A v \in Worker, s \in Place :
         (IF s = 0 THEN (IF v = w THEN q ELSE buffer[v]) ELSE flight[v][s].batch)
            = (IF v = w /\ s = 0 THEN q ELSE Memory[v][s])
  BY MemoryFacts, PlaceFacts
<1> QED BY <1>1, <1>2 DEF WithBuffer, q

\* An item is buffered, and a drain follows if the buffer is full.
LEMMA AddManyEffect ==
    ASSUME StateTypes, FlightOK, NEW w \in Worker, NEW i \in Nat, AddMany(w, <<i>>)
    PROVE  /\ StateTypes' /\ Moves(w, buffer[w] \o <<i>>)
           /\ ActiveOK => ActiveOK'
           /\ \A I : Homed(Memory, I) /\ i \notin I => Homed(Memory', I \cup {i})
<1> DEFINE items == buffer[w] \o <<i>>
<1>1. items \in Seq(Nat)
  <2>1. buffer[w] \in Seq(Nat) /\ <<i>> \in Seq(Nat)
    BY DEF StateTypes
  <2> QED BY <2>1, ConcatProperties
<1>2. CASE DrainBuffer(w, items)
  <2>1. /\ StateTypes' /\ Moves(w, items) /\ (ActiveOK => ActiveOK')
        /\ Memory' = Spliced(WithBuffer(w, items), w)
        /\ \A s \in IdleSlots(w) : WithBuffer(w, items)[w][s] = <<>>
    BY <1>1, <1>2, DrainEffect
  <2>2. ASSUME NEW I, Homed(Memory, I), i \notin I
        PROVE  Homed(Memory', I \cup {i})
    <3>1. Homed(WithBuffer(w, items), I \cup {i})
      BY <2>2, HomedAdded, WithBufferAdded
    <3> QED BY <2>1, <3>1, HomedSpliced
  <2> QED BY <2>1, <2>2
<1>3. CASE buffer' = [buffer EXCEPT ![w] = @ \o <<i>>] /\ UNCHANGED <<flight, activeFlushes>>
  <2> HIDE DEF items
  <2>1. \A v \in Worker : buffer'[v] = IF v = w THEN items ELSE buffer[v]
    BY <1>3 DEF StateTypes, items
  <2>2. StateTypes'
    <3>1. buffer' = [buffer EXCEPT ![w] = items]
      BY <1>3 DEF items
    <3> QED BY <3>1, <1>1, <1>3 DEF StateTypes
  <2>3. Moves(w, items)
    BY <2>1, <1>3 DEF Moves
  <2>4. ActiveOK => ActiveOK'
    BY <1>3 DEF ActiveOK, IdleSlots
  <2>5. Memory' = WithBuffer(w, items)
    <3>1. \A v \in Worker, s \in Place :
             (IF s = 0 THEN buffer'[v] ELSE flight'[v][s].batch)
                = (IF s = 0 THEN (IF v = w THEN items ELSE buffer[v]) ELSE flight[v][s].batch)
      BY <2>1, <1>3
    <3> QED BY <3>1 DEF Memory, WithBuffer
  <2>6. ASSUME NEW I, Homed(Memory, I), i \notin I
        PROVE  Homed(Memory', I \cup {i})
    BY <2>5, <2>6, HomedAdded, WithBufferAdded DEF items
  <2> QED BY <2>2, <2>3, <2>4, <2>6 DEF items
<1> QED BY <1>2, <1>3 DEF AddMany

LEMMA MovesFlight ==
    ASSUME FlightOK, NEW w \in Worker, NEW items, Moves(w, items)
    PROVE  FlightOK'
<1> SUFFICES ASSUME NEW v \in Worker, NEW s \in Slot
             PROVE  /\ flight'[v][s].stage = "idle" <=> flight'[v][s].batch = <<>>
                    /\ flight'[v][s].stage = "upsert" => flight'[v][s].next = 1
                    /\ Len(flight'[v][s].batch) <= BatchSize
                    /\ flight'[v][s].stage = "cleanup" =>
                          flight'[v][s].next \in 1 .. Len(flight'[v][s].batch)
  BY DEF FlightOK
<1>1. CASE flight'[v][s] = flight[v][s]
  BY <1>1 DEF FlightOK
<1>2. CASE flight'[v][s] # flight[v][s]
  BY <1>2 DEF Moves
<1> QED BY <1>1, <1>2

-----------------------------------------------------------------------------
(* A step that writes one batch changes one slot. *)

OnlySlot(w, s) == \A v \in Worker, t \in Slot : v # w \/ t # s => flight'[v][t] = flight[v][t]

LEMMA SlotUpdate ==
    ASSUME StateTypes, NEW w \in Worker, NEW s \in Slot, NEW g \in Flush,
           flight' = [flight EXCEPT ![w][s] = g]
    PROVE  /\ flight' \in [Worker -> [Slot -> Flush]]
           /\ flight'[w][s] = g /\ OnlySlot(w, s)
<1>1. flight \in [Worker -> [Slot -> Flush]]
  BY DEF StateTypes
<1> HIDE DEF Flush
<1>2. flight' = [flight EXCEPT ![w] = [flight[w] EXCEPT ![s] = g]]
  OBVIOUS
<1>3. flight[w] \in [Slot -> Flush]
  BY <1>1
<1>4. [flight[w] EXCEPT ![s] = g] \in [Slot -> Flush]
  BY <1>3
<1>5. flight' \in [Worker -> [Slot -> Flush]]
  BY <1>1, <1>2, <1>4
<1>6. flight'[w] = [flight[w] EXCEPT ![s] = g]
  BY <1>1, <1>2
<1>7. \A v \in Worker : v # w => flight'[v] = flight[v]
  BY <1>1, <1>2
<1>8. flight'[w][s] = g /\ \A t \in Slot : t # s => flight'[w][t] = flight[w][t]
  BY <1>3, <1>6
<1> QED BY <1>5, <1>7, <1>8 DEF OnlySlot

\* Its counters follow: a slot that stays in use, and a slot that is freed.
LEMMA SlotStays ==
    ASSUME ActiveOK, NEW w \in Worker, NEW s \in Slot, OnlySlot(w, s),
           flight[w][s].stage # "idle", flight'[w][s].stage # "idle",
           UNCHANGED activeFlushes
    PROVE  ActiveOK'
<1>1. \A v \in Worker : IdleSlots(v)' = IdleSlots(v)
  BY DEF OnlySlot, IdleSlots
<1> QED BY <1>1 DEF ActiveOK

LEMMA SlotFreed ==
    ASSUME StateTypes, ActiveOK, NEW w \in Worker, NEW s \in Slot, OnlySlot(w, s),
           flight[w][s].stage # "idle", flight'[w][s].stage = "idle",
           activeFlushes' = [activeFlushes EXCEPT ![w] = @ - 1]
    PROVE  ActiveOK' /\ activeFlushes' \in [Worker -> Nat]
<1> DEFINE A == Slot \ IdleSlots(w)
           B == Slot \ IdleSlots(w)'
<1>1. \A v \in Worker : v # w => IdleSlots(v)' = IdleSlots(v)
  BY DEF OnlySlot, IdleSlots
<1>2. s \in A /\ B = A \ {s}
  BY DEF OnlySlot, IdleSlots
<1>3. IsFiniteSet(A)
  BY SlotFinite, FS_Subset
<1>4. activeFlushes[w] = Cardinality(A)
  BY DEF ActiveOK
<1> HIDE DEF A, B
<1>5. /\ Cardinality(A \ {s}) = Cardinality(A) - 1 /\ Cardinality(A) \in Nat
      /\ Cardinality(A \ {s}) \in Nat
  BY <1>2, <1>3, FS_RemoveElement, FS_CardinalityType
<1>6. Cardinality(B) = activeFlushes[w] - 1 /\ activeFlushes[w] - 1 \in Nat
  BY <1>2, <1>4, <1>5
<1>7. /\ \A v \in Worker : activeFlushes'[v] = IF v = w THEN activeFlushes[w] - 1
                                               ELSE activeFlushes[v]
      /\ activeFlushes' \in [Worker -> Nat]
  BY <1>6 DEF StateTypes
<1>8. ASSUME NEW v \in Worker
      PROVE  activeFlushes'[v] = Cardinality(Slot \ IdleSlots(v)')
  <2>1. CASE v = w
    BY <2>1, <1>6, <1>7 DEF B
  <2>2. CASE v # w
    BY <2>2, <1>1, <1>7 DEF ActiveOK
  <2> QED BY <2>1, <2>2
<1> QED BY <1>7, <1>8 DEF ActiveOK

-----------------------------------------------------------------------------
(* Where an item is, and what the tables hold. *)

LEMMA ItemFacts ==
    ASSUME Types
    PROVE  /\ StateTypes /\ Item \in SUBSET Nat /\ IsFiniteSet(Item) /\ Len(log) \in Nat
           /\ \A i \in Item : /\ log[i] \in Extraction /\ log[i].product \in Product
                              /\ log[i].offered \in SUBSET Variant
                              /\ log[i].stock \in SUBSET Variant /\ log[i].run \in Run
                              /\ log[i].stock \subseteq log[i].offered
<1>1. Len(log) \in Nat /\ \A i \in Item : log[i] \in Extraction
  BY LenProperties, ElementOfSeq DEF Types, Item
<1>2. Item \in SUBSET Nat /\ IsFiniteSet(Item)
  BY <1>1, FS_Interval DEF Item
<1>3. StateTypes /\ \A i \in Item : log[i].stock \subseteq log[i].offered
  BY DEF Types, StateTypes
<1>4. \A i \in Item : /\ log[i].product \in Product /\ log[i].run \in Run
                      /\ log[i].offered \in SUBSET Variant /\ log[i].stock \in SUBSET Variant
  BY <1>1 DEF Extraction
<1> QED BY <1>1, <1>2, <1>3, <1>4

LEMMA WhereItemsAre ==
    ASSUME Types, HomeOK
    PROVE  /\ \A w \in Worker : /\ buffer[w] \in Seq(Remaining)
                                /\ Members(buffer[w]) \subseteq Remaining
           /\ \A w \in Worker, s \in Slot :
                /\ flight[w][s].batch \in Seq(Remaining) /\ Len(flight[w][s].batch) \in Nat
                /\ DOMAIN flight[w][s].batch = 1 .. Len(flight[w][s].batch)
                /\ Members(flight[w][s].batch) \subseteq Remaining
           /\ \A v, w \in Worker, s, t \in Slot :
                \A h \in 1 .. Len(flight[v][s].batch), k \in 1 .. Len(flight[w][t].batch) :
                   flight[v][s].batch[h] = flight[w][t].batch[k] => v = w /\ s = t /\ h = k
           /\ \A v, w \in Worker, t \in Slot :
                Members(buffer[v]) \cap Members(flight[w][t].batch) = {}
<1>1. /\ \A w \in Worker : Memory[w][0] = buffer[w]
      /\ \A w \in Worker, s \in Slot : Memory[w][s] = flight[w][s].batch
  BY ItemFacts, MemoryFacts
<1>2. Memory \in [Worker -> [Place -> Seq(Remaining)]]
  BY DEF HomeOK, Homed
<1>3. \A v, w \in Worker, s, t \in Place :
         \A h \in 1 .. Len(Memory[v][s]), k \in 1 .. Len(Memory[w][t]) :
            Memory[v][s][h] = Memory[w][t][k] => v = w /\ s = t /\ h = k
  BY DEF HomeOK, Homed
<1>4. \A w \in Worker : buffer[w] \in Seq(Remaining)
  BY <1>1, <1>2, PlaceFacts
<1>5. \A w \in Worker, s \in Slot : flight[w][s].batch \in Seq(Remaining)
  BY <1>1, <1>2, PlaceFacts
<1>6. \A w \in Worker :
         /\ Members(buffer[w]) \subseteq Remaining
         /\ \A x \in Members(buffer[w]) : \E k \in 1 .. Len(buffer[w]) : buffer[w][k] = x
  <2> TAKE w \in Worker
  <2> DEFINE q == buffer[w]
  <2>1. q \in Seq(Remaining)
    BY <1>4
  <2> HIDE DEF q
  <2>2. Members(q) \subseteq Remaining /\ \A x \in Members(q) : \E k \in 1 .. Len(q) : q[k] = x
    BY <2>1, MembersFacts
  <2> QED BY <2>2 DEF q
<1>7. \A w \in Worker, s \in Slot :
         /\ Len(flight[w][s].batch) \in Nat
         /\ DOMAIN flight[w][s].batch = 1 .. Len(flight[w][s].batch)
         /\ Members(flight[w][s].batch) \subseteq Remaining
         /\ \A x \in Members(flight[w][s].batch) :
              \E k \in 1 .. Len(flight[w][s].batch) : flight[w][s].batch[k] = x
  <2> TAKE w \in Worker, s \in Slot
  <2> DEFINE q == flight[w][s].batch
  <2>1. q \in Seq(Remaining)
    BY <1>5
  <2> HIDE DEF q
  <2>2. /\ Len(q) \in Nat /\ DOMAIN q = 1 .. Len(q)
        /\ Members(q) \subseteq Remaining
        /\ \A x \in Members(q) : \E k \in 1 .. Len(q) : q[k] = x
    BY <2>1, MembersFacts
  <2> QED BY <2>2 DEF q
<1>8. \A v, w \in Worker, s, t \in Slot :
         \A h \in 1 .. Len(flight[v][s].batch), k \in 1 .. Len(flight[w][t].batch) :
            flight[v][s].batch[h] = flight[w][t].batch[k] => v = w /\ s = t /\ h = k
  <2> TAKE v, w \in Worker, s, t \in Slot
  <2>0. s \in Place /\ t \in Place
    BY PlaceFacts
  <2>1. Memory[v][s] = flight[v][s].batch /\ Memory[w][t] = flight[w][t].batch
    BY <1>1
  <2> SUFFICES ASSUME NEW h \in 1 .. Len(flight[v][s].batch),
                      NEW k \in 1 .. Len(flight[w][t].batch),
                      flight[v][s].batch[h] = flight[w][t].batch[k]
               PROVE  v = w /\ s = t /\ h = k
    OBVIOUS
  <2>2. /\ h \in 1 .. Len(Memory[v][s]) /\ k \in 1 .. Len(Memory[w][t])
        /\ Memory[v][s][h] = Memory[w][t][k]
    BY <2>1
  <2>3. \A a \in 1 .. Len(Memory[v][s]), b \in 1 .. Len(Memory[w][t]) :
           Memory[v][s][a] = Memory[w][t][b] => v = w /\ s = t /\ a = b
    BY <1>3, <2>0
  <2> QED BY <2>2, <2>3
<1>9. ASSUME NEW v \in Worker, NEW w \in Worker, NEW t \in Slot,
             NEW x \in Members(buffer[v]) \cap Members(flight[w][t].batch)
      PROVE  FALSE
  <2>1. PICK h \in 1 .. Len(buffer[v]) : buffer[v][h] = x
    BY <1>6
  <2>2. PICK k \in 1 .. Len(flight[w][t].batch) : flight[w][t].batch[k] = x
    BY <1>7
  <2>3. /\ h \in 1 .. Len(Memory[v][0]) /\ k \in 1 .. Len(Memory[w][t])
        /\ Memory[v][0][h] = Memory[w][t][k]
    BY <2>1, <2>2, <1>1
  <2>4. 0 \in Place /\ t \in Place /\ 0 # t
    BY PlaceFacts
  <2> QED BY <2>3, <2>4, <1>3
<1> QED BY <1>4, <1>5, <1>6, <1>7, <1>8, <1>9, ZenonT(60)

LEMMA CleanedFacts ==
    ASSUME Types, NEW i \in Item
    PROVE  /\ Cleaned(i) \in [Product -> SUBSET Variant]
           /\ Cleaned(i)[log[i].product] = stock[log[i].product] \cap log[i].stock
           /\ \A p \in Product : p # log[i].product => Cleaned(i)[p] = stock[p]
<1>1. stock \in [Product -> SUBSET Variant]
  BY DEF Types
<1>2. log[i].product \in Product
  BY ItemFacts
<1>3. stock[log[i].product] \cap log[i].stock \in SUBSET Variant
  BY <1>1, <1>2
<1> QED BY <1>1, <1>2, <1>3 DEF Cleaned

LEMMA UpsertedFacts ==
    ASSUME Types, NEW batch \in Seq(Item)
    PROVE  /\ Upserted(batch) \in [Product -> SUBSET Variant]
           /\ \A p \in Product :
                (\A k \in 1 .. Len(batch) : log[batch[k]].product # p) =>
                    Upserted(batch)[p] = stock[p]
           /\ \A k \in 1 .. Len(batch) :
                (\A h \in 1 .. Len(batch) :
                    log[batch[h]].product = log[batch[k]].product => h = k) =>
                        log[batch[k]].stock \subseteq Upserted(batch)[log[batch[k]].product]
<1>1. stock \in [Product -> SUBSET Variant]
  BY DEF Types
<1>2. /\ DOMAIN batch = 1 .. Len(batch) /\ Len(batch) \in Nat
      /\ \A k \in 1 .. Len(batch) : batch[k] \in Item
  BY LenProperties, ElementOfSeq
<1> DEFINE having(p, v) == {k \in DOMAIN batch :
                              log[batch[k]].product = p /\ v \in RowsOf(batch[k])}
           last(p, v) == CHOOSE k \in having(p, v) : \A h \in having(p, v) : h <= k
           offers(p, v) == IF having(p, v) = {} THEN v \in stock[p]
                           ELSE v \in log[batch[last(p, v)]].stock
<1>3. \A p \in Product : Upserted(batch)[p] = {v \in Variant : offers(p, v)}
  BY DEF Upserted
<1>4. Upserted(batch) \in [Product -> SUBSET Variant]
  BY DEF Upserted
<1>5. ASSUME NEW p \in Product, \A k \in 1 .. Len(batch) : log[batch[k]].product # p
      PROVE  Upserted(batch)[p] = stock[p]
  <2>1. \A v : having(p, v) = {}
    BY <1>2, <1>5
  <2>2. \A v \in Variant : offers(p, v) <=> v \in stock[p]
    BY <2>1
  <2> HIDE DEF offers
  <2>3. {v \in Variant : offers(p, v)} = stock[p]
    BY <2>2, <1>1
  <2> QED BY <2>3, <1>3
<1>6. ASSUME NEW k \in 1 .. Len(batch),
             \A h \in 1 .. Len(batch) : log[batch[h]].product = log[batch[k]].product => h = k
      PROVE  log[batch[k]].stock \subseteq Upserted(batch)[log[batch[k]].product]
  <2> DEFINE p == log[batch[k]].product
  <2>1. /\ p \in Product /\ batch[k] \in Item
        /\ log[batch[k]].stock \subseteq Variant
        /\ log[batch[k]].stock \subseteq RowsOf(batch[k])
    <3>1. batch[k] \in Item
      BY <1>2
    <3> QED BY <3>1, ItemFacts DEF RowsOf
  <2>2. ASSUME NEW v \in log[batch[k]].stock
        PROVE  offers(p, v)
    <3>1. having(p, v) = {k}
      BY <1>2, <1>6, <2>1
    <3>2. last(p, v) = k
      <4> HIDE DEF having
      <4>1. \E x \in having(p, v) : \A h \in having(p, v) : h <= x
        BY <3>1
      <4>2. last(p, v) \in having(p, v)
        BY <4>1
      <4> QED BY <4>2, <3>1
    <3> HIDE DEF last, having
    <3> QED BY <3>1, <3>2
  <2> HIDE DEF offers
  <2> QED BY <2>1, <2>2, <1>3
<1> QED BY <1>4, <1>5, <1>6

\* Of the items of its product, only the last, alone one can be in a batch.
LEMMA OnlyOfProduct ==
    ASSUME Types, HomeOK, LastOK, NEW j \in alone, IsLast(j),
           NEW w \in Worker, NEW s \in Slot, NEW k \in 1 .. Len(flight[w][s].batch),
           log[flight[w][s].batch[k]].product = log[j].product
    PROVE  flight[w][s].batch[k] = j
<1> DEFINE q == flight[w][s].batch
<1>1. q \in Seq(Remaining) /\ DOMAIN q = 1 .. Len(q) /\ Members(q) \subseteq Remaining
  BY WhereItemsAre
<1>2. q[k] \in Members(q)
  <2> HIDE DEF q
  <2> QED BY <1>1 DEF Members, q
<1>3. q[k] \in Pending(w)
  BY <1>2 DEF Pending
<1>4. q[k] \in ItemsOf(log[j].product)
  BY <1>1, <1>2 DEF ItemsOf, Remaining
<1>5. Pending(w) \cap ItemsOf(log[j].product) \subseteq {j}
  BY DEF LastOK, Following
<1> QED BY <1>3, <1>4, <1>5

\* A batch without it does not change what the tables hold of its product.
LEMMA StockElsewhere ==
    ASSUME Types, HomeOK, LastOK, NEW j \in alone, IsLast(j),
           NEW w \in Worker, NEW s \in Slot, j \notin Members(flight[w][s].batch)
    PROVE  LET p == log[j].product
               batch == flight[w][s].batch
           IN /\ Upserted(batch)[p] = stock[p]
              /\ \A k \in 1 .. Len(batch) : Cleaned(batch[k])[p] = stock[p]
<1> DEFINE q == flight[w][s].batch
           p == log[j].product
<1>1. /\ q \in Seq(Remaining) /\ DOMAIN q = 1 .. Len(q)
  BY WhereItemsAre
<1>2. p \in Product
  BY ItemFacts DEF Types
<1>3. \A k \in 1 .. Len(q) : log[q[k]].product # p
  <2> SUFFICES ASSUME NEW k \in 1 .. Len(q), log[q[k]].product = p
               PROVE  FALSE
    OBVIOUS
  <2>1. q[k] = j
    BY OnlyOfProduct
  <2>2. q[k] \in Members(q)
    <3> HIDE DEF q
    <3> QED BY <1>1 DEF Members, q
  <2> QED BY <2>1, <2>2
<1>4. \A k \in 1 .. Len(q) : q[k] \in Item
  <2> HIDE DEF q
  <2> QED BY <1>1, ElementOfSeq DEF Remaining
<1>5. q \in Seq(Item)
  <2> HIDE DEF q
  <2>1. q \in [1 .. Len(q) -> Remaining] /\ Len(q) \in Nat
    BY <1>1, LenProperties
  <2>2. q \in [1 .. Len(q) -> Item]
    BY <2>1, <1>4
  <2> QED BY <2>1, <2>2
<1>6. Upserted(q)[p] = stock[p]
  BY <1>2, <1>3, <1>5, UpsertedFacts
<1>7. \A k \in 1 .. Len(q) : Cleaned(q[k])[p] = stock[p]
  BY <1>2, <1>3, <1>4, CleanedFacts
<1> QED BY <1>6, <1>7

LEMMA CreditGrows ==
    ASSUME Types, CreditOK, UNCHANGED counted, Item \subseteq Item', IsFiniteSet(Item'),
           \A i \in Item :
              /\ log'[i].run = log[i].run
              /\ Unwritten(i)' \/ AwaitsCount(i)' => Unwritten(i) \/ AwaitsCount(i)
    PROVE  CreditOK'
<1> SUFFICES ASSUME NEW r \in Run
             PROVE  counted'[r] <= Cardinality(Credited(r)')
  BY DEF CreditOK
<1> DEFINE A == Credited(r)
           B == Credited(r)'
<1>1. A \in SUBSET B
  BY DEF Credited
<1>2. B \in SUBSET Item' /\ A \in SUBSET Item
  BY DEF Credited
<1>3. counted[r] <= Cardinality(A) /\ counted[r] \in Nat /\ counted'[r] = counted[r]
  BY DEF CreditOK, Types
<1> HIDE DEF A, B
<1>4. IsFiniteSet(B)
  BY <1>2, FS_Subset
<1>5. Cardinality(A) <= Cardinality(B) /\ IsFiniteSet(A)
  BY <1>1, <1>4, FS_Subset
<1>6. Cardinality(A) \in Nat /\ Cardinality(B) \in Nat
  BY <1>4, <1>5, FS_CardinalityType
<1>7. counted'[r] <= Cardinality(B)
  BY <1>3, <1>5, <1>6
<1> QED BY <1>7 DEF B

-----------------------------------------------------------------------------
(* What the steps have in common. *)

LEMMA FlushStage ==
    ASSUME NEW f \in Flush, NEW x \in Stages
    PROVE  LET g == [f EXCEPT !.stage = x]
           IN /\ g \in Flush /\ g.stage = x
              /\ g.batch = f.batch /\ g.next = f.next /\ g.runs = f.runs
<1>1. [f EXCEPT !.stage = x] \in Flush
  BY ZenonT(60) DEF Flush
<1> QED BY <1>1 DEF Flush

LEMMA FlushNext ==
    ASSUME NEW f \in Flush, NEW n \in Nat
    PROVE  LET g == [f EXCEPT !.next = n]
           IN /\ g \in Flush /\ g.next = n
              /\ g.stage = f.stage /\ g.batch = f.batch /\ g.runs = f.runs
<1>1. [f EXCEPT !.next = n] \in Flush
  BY ZenonT(60) DEF Flush
<1> QED BY <1>1 DEF Flush

LEMMA FlushRuns ==
    ASSUME NEW f \in Flush, NEW R \in SUBSET Run
    PROVE  LET g == [f EXCEPT !.runs = R]
           IN /\ g \in Flush /\ g.runs = R
              /\ g.stage = f.stage /\ g.batch = f.batch /\ g.next = f.next
<1>1. [f EXCEPT !.runs = R] \in Flush
  BY ZenonT(60) DEF Flush
<1> QED BY <1>1 DEF Flush

LEMMA IdleFacts ==
    Idle \in Flush /\ Idle.stage = "idle" /\ Idle.batch = <<>> /\ Len(Idle.batch) = 0
BY EmptySeq DEF Idle, Flush, Stages

\* A step that changes neither a buffer nor a batch.
LEMMA SameBatches ==
    ASSUME UNCHANGED buffer,
           \A w \in Worker, s \in Slot : flight'[w][s].batch = flight[w][s].batch
    PROVE  Memory' = Memory /\ \A w \in Worker : Pending(w)' = Pending(w)
<1>1. \A w \in Worker, s \in Place :
         (IF s = 0 THEN buffer'[w] ELSE flight'[w][s].batch)
            = (IF s = 0 THEN buffer[w] ELSE flight[w][s].batch)
  BY PlaceFacts
<1>2. ASSUME NEW w \in Worker
      PROVE  Pending(w)' = Pending(w)
  <2>1. {Members(flight'[w][s].batch) : s \in Slot} = {Members(flight[w][s].batch) : s \in Slot}
    OBVIOUS
  <2> QED BY <2>1 DEF Pending
<1> QED BY <1>1, <1>2 DEF Memory

\* A step that leaves alone what item j's product shows.
LEMMA FollowingKept ==
    ASSUME NEW j \in Item, Following(j), log'[j] = log[j],
           stock'[log[j].product] = stock[log[j].product],
           \A v \in Worker : Pending(v)' \cap ItemsOf(log[j].product)'
                                \subseteq (Pending(v) \cap ItemsOf(log[j].product)) \cup {j},
           \A v \in Worker, t \in Slot :
              \/ j \notin Members(flight'[v][t].batch)
              \/ flight'[v][t].stage = "upsert"
              \/ /\ flight'[v][t].stage = flight[v][t].stage
                 /\ flight'[v][t].next = flight[v][t].next
                 /\ flight'[v][t].batch = flight[v][t].batch,
           j \in flushed' => j \in flushed
    PROVE  Following(j)'
<1>1. Shows(j)' = Shows(j)
  BY DEF Shows
<1>2. \A v \in Worker : Pending(v)' \cap ItemsOf(log[j].product)' \subseteq {j}
  BY DEF Following
<1>3. ASSUME NEW v \in Worker, NEW t \in Slot, NEW k \in DOMAIN flight'[v][t].batch,
             flight'[v][t].batch[k] = j
      PROVE  /\ flight'[v][t].stage = "cleanup" =>
                  /\ log'[j].stock \subseteq stock'[log'[j].product]
                  /\ k < flight'[v][t].next => Shows(j)'
             /\ flight'[v][t].stage = "count" => Shows(j)'
  <2>1. j \in Members(flight'[v][t].batch)
    BY <1>3 DEF Members
  <2>2. CASE flight'[v][t].stage = "upsert"
    BY <2>2
  <2>3. CASE /\ flight'[v][t].stage = flight[v][t].stage
             /\ flight'[v][t].next = flight[v][t].next
             /\ flight'[v][t].batch = flight[v][t].batch
    <3>1. k \in DOMAIN flight[v][t].batch /\ flight[v][t].batch[k] = j
      BY <2>3, <1>3
    <3>2. /\ flight[v][t].stage = "cleanup" =>
               /\ log[j].stock \subseteq stock[log[j].product]
               /\ k < flight[v][t].next => Shows(j)
          /\ flight[v][t].stage = "count" => Shows(j)
      BY <3>1 DEF Following
    <3> QED BY <3>2, <2>3, <1>1
  <2> QED BY <2>1, <2>2, <2>3
<1>4. j \in flushed' => Shows(j)'
  BY <1>1 DEF Following
<1> QED BY <1>1, <1>2, <1>3, <1>4 DEF Following

\* Item j is in no batch, and not flushed.
LEMMA FollowingAway ==
    ASSUME NEW j, log'[j] = log[j], j \notin flushed',
           \A v \in Worker : Pending(v)' \cap ItemsOf(log[j].product)' \subseteq {j},
           \A v \in Worker, t \in Slot :
              j \notin Members(flight'[v][t].batch) \/ flight'[v][t].stage = "upsert"
    PROVE  Following(j)'
<1>1. ASSUME NEW v \in Worker, NEW t \in Slot, NEW k \in DOMAIN flight'[v][t].batch,
             flight'[v][t].batch[k] = j
      PROVE  flight'[v][t].stage = "upsert"
  BY <1>1 DEF Members
<1> QED BY <1>1 DEF Following

\* An item of a batch is nowhere else, and there once.
LEMMA OnlyThere ==
    ASSUME Types, HomeOK, NEW w \in Worker, NEW s \in Slot
    PROVE  /\ \A h, k \in 1 .. Len(flight[w][s].batch) :
                flight[w][s].batch[h] = flight[w][s].batch[k] => h = k
           /\ \A x \in Members(flight[w][s].batch) :
                /\ \A v \in Worker : x \notin Members(buffer[v])
                /\ \A v \in Worker, t \in Slot :
                      x \in Members(flight[v][t].batch) => v = w /\ t = s
<1>1. \A h, k \in 1 .. Len(flight[w][s].batch) :
         flight[w][s].batch[h] = flight[w][s].batch[k] => h = k
  BY WhereItemsAre
<1>2. ASSUME NEW x \in Members(flight[w][s].batch), NEW v \in Worker
      PROVE  x \notin Members(buffer[v])
  BY WhereItemsAre
<1>3. ASSUME NEW x \in Members(flight[w][s].batch), NEW v \in Worker, NEW t \in Slot,
             x \in Members(flight[v][t].batch)
      PROVE  v = w /\ t = s
  <2>1. /\ DOMAIN flight[w][s].batch = 1 .. Len(flight[w][s].batch)
        /\ DOMAIN flight[v][t].batch = 1 .. Len(flight[v][t].batch)
    BY WhereItemsAre
  <2>2. PICK k \in 1 .. Len(flight[w][s].batch) : flight[w][s].batch[k] = x
    BY <2>1 DEF Members
  <2>3. PICK h \in 1 .. Len(flight[v][t].batch) : flight[v][t].batch[h] = x
    BY <2>1, <1>3 DEF Members
  <2> QED BY <2>2, <2>3, WhereItemsAre, SMTT(60)
<1> QED BY <1>1, <1>2, <1>3

\* The others are still where they were when a step changes one slot.
LEMMA OthersInFlight ==
    ASSUME Types, HomeOK, NEW w \in Worker, NEW s \in Slot, OnlySlot(w, s),
           NEW j \in Members(flight[w][s].batch)
    PROVE  \A v \in Worker, t \in Slot : v # w \/ t # s => j \notin Members(flight'[v][t].batch)
<1> SUFFICES ASSUME NEW v \in Worker, NEW t \in Slot, v # w \/ t # s,
                    j \in Members(flight[v][t].batch)
             PROVE  FALSE
  BY DEF OnlySlot
<1> QED BY OnlyThere

-----------------------------------------------------------------------------
(* Writing a batch. *)

\* A stage of a flush: batches stay where they are, and slot s of w alone changes.
Stage(w, s) ==
    /\ flight[w][s].stage # "idle" /\ flight'[w][s].stage # "idle"
    /\ flight'[w][s].batch = flight[w][s].batch
    /\ OnlySlot(w, s)
    /\ flight' \in [Worker -> [Slot -> Flush]]
    /\ UNCHANGED <<log, buffer, activeFlushes, phase, flushed, lost, alone, stops>>

LEMMA StageKeeps ==
    ASSUME IInv, NEW w \in Worker, NEW s \in Slot, Stage(w, s),
           stock' \in [Product -> SUBSET Variant], counted' \in [Run -> Nat],
           faults' \in 0 .. MaxFaults,
           flight'[w][s].stage = "upsert" => flight'[w][s].next = 1,
           flight'[w][s].stage = "cleanup" =>
              flight'[w][s].next \in 1 .. Len(flight[w][s].batch)
    PROVE  /\ Types' /\ FlightOK' /\ ActiveOK' /\ HomeOK'
           /\ \A v \in Worker : Pending(v)' = Pending(v)
<1>1. Types'
  BY DEF IInv, Types, Stage, Item
<1>2. FlightOK'
  <2> SUFFICES ASSUME NEW v \in Worker, NEW t \in Slot
               PROVE  /\ flight'[v][t].stage = "idle" <=> flight'[v][t].batch = <<>>
                      /\ flight'[v][t].stage = "upsert" => flight'[v][t].next = 1
                      /\ Len(flight'[v][t].batch) <= BatchSize
                      /\ flight'[v][t].stage = "cleanup" =>
                            flight'[v][t].next \in 1 .. Len(flight'[v][t].batch)
    BY DEF FlightOK
  <2>1. CASE v = w /\ t = s
    BY <2>1 DEF IInv, FlightOK, Stage
  <2>2. CASE v # w \/ t # s
    BY <2>2 DEF IInv, FlightOK, Stage, OnlySlot
  <2> QED BY <2>1, <2>2
<1>3. ActiveOK'
  BY SlotStays DEF IInv, Stage
<1>4. \A v \in Worker, t \in Slot : flight'[v][t].batch = flight[v][t].batch
  BY DEF Stage, OnlySlot
<1>5. Memory' = Memory /\ \A v \in Worker : Pending(v)' = Pending(v)
  BY <1>4, SameBatches DEF Stage
<1>6. HomeOK'
  BY <1>5 DEF IInv, HomeOK, Remaining, Item, Stage
<1> QED BY <1>1, <1>2, <1>3, <1>5, <1>6

LEMMA UpsertStep ==
    ASSUME IInv, NEW w \in Worker, NEW s \in Slot, Upsert(w, s)
    PROVE  IInv'
<1> DEFINE f == flight[w][s]
           g == [f EXCEPT !.stage = "cleanup"]
<1>1. /\ Types /\ StateTypes /\ HomeOK /\ LastOK /\ FlightOK
      /\ f \in Flush /\ f.stage = "upsert" /\ f.next = 1
  BY ItemFacts DEF IInv, StateTypes, Upsert, FlightOK
<1>2. g \in Flush /\ g.stage = "cleanup" /\ g.batch = f.batch /\ g.next = f.next
  BY <1>1, FlushStage DEF Stages
<1>3. flight' = [flight EXCEPT ![w][s] = g]
  BY DEF Upsert
<1> HIDE DEF g
<1>4. Stage(w, s) /\ flight'[w][s] = g
  <2>1. /\ flight' \in [Worker -> [Slot -> Flush]]
        /\ flight'[w][s] = g /\ OnlySlot(w, s)
    BY <1>1, <1>2, <1>3, SlotUpdate
  <2> QED BY <1>1, <1>2, <2>1 DEF Stage, Upsert
<1>5. /\ f.batch \in Seq(Item) /\ f.batch # <<>> /\ Len(f.batch) \in Nat \ {0}
      /\ DOMAIN f.batch = 1 .. Len(f.batch)
  <2>1. f.batch \in Seq(Remaining) /\ f.batch # <<>>
    BY <1>1, WhereItemsAre DEF FlightOK
  <2> DEFINE q == f.batch
  <2> HIDE DEF q
  <2>2. q \in [1 .. Len(q) -> Remaining] /\ Len(q) \in Nat
    BY <2>1, LenProperties DEF q
  <2>3. q \in [1 .. Len(q) -> Item]
    BY <2>2 DEF Remaining
  <2>4. q \in Seq(Item)
    BY <2>2, <2>3
  <2> QED BY <2>1, <2>4, EmptySeq, LenProperties DEF q
<1>6. stock' = Upserted(f.batch) /\ stock' \in [Product -> SUBSET Variant]
  BY <1>1, <1>5, UpsertedFacts DEF Upsert
<1>7. /\ Types' /\ FlightOK' /\ ActiveOK' /\ HomeOK'
      /\ \A v \in Worker : Pending(v)' = Pending(v)
  <2>1. counted' \in [Run -> Nat] /\ faults' \in 0 .. MaxFaults
    BY <1>1 DEF Types, Upsert
  <2>2. 1 \in 1 .. Len(f.batch)
    BY <1>5
  <2> QED BY <1>1, <1>2, <1>4, <1>6, <2>1, <2>2, StageKeeps
<1>8. CreditOK'
  <2>1. ASSUME NEW i \in Item
        PROVE  Unwritten(i)' \/ AwaitsCount(i)' => Unwritten(i) \/ AwaitsCount(i)
    <3>1. Unwritten(i)' => Unwritten(i)
      BY <1>1, <1>2, <1>4 DEF Unwritten, Stage, OnlySlot
    <3>2. AwaitsCount(i)' => AwaitsCount(i)
      BY <1>1, <1>2, <1>4 DEF AwaitsCount, Stage, OnlySlot
    <3> QED BY <3>1, <3>2
  <2>2. log' = log /\ counted' = counted /\ Item' = Item /\ IsFiniteSet(Item)
    BY <1>1, ItemFacts DEF Upsert, Item
  <2> QED BY <1>1, <2>1, <2>2, CreditGrows DEF IInv
<1>9. LastOK'
  <2> SUFFICES ASSUME NEW j \in alone', IsLast(j)'
               PROVE  Following(j)'
    BY DEF LastOK
  <2>1. /\ j \in alone /\ IsLast(j) /\ j \in Item /\ log'[j] = log[j] /\ flushed' = flushed
        /\ ItemsOf(log[j].product)' = ItemsOf(log[j].product) /\ Following(j)
    BY <1>1 DEF Upsert, IsLast, ItemsOf, Item, LastOK, Types
  <2>2. CASE j \notin Members(f.batch)
    <3>1. stock'[log[j].product] = stock[log[j].product]
      BY <1>1, <1>6, <2>1, <2>2, StockElsewhere
    <3>2. \A v \in Worker, t \in Slot :
             \/ j \notin Members(flight'[v][t].batch)
             \/ /\ flight'[v][t].stage = flight[v][t].stage
                /\ flight'[v][t].next = flight[v][t].next
                /\ flight'[v][t].batch = flight[v][t].batch
      BY <1>4, <2>2 DEF Stage, OnlySlot
    <3> QED BY <1>7, <2>1, <3>1, <3>2, FollowingKept
  <2>3. CASE j \in Members(f.batch)
    <3>1. PICK k \in 1 .. Len(f.batch) : f.batch[k] = j
      BY <1>5, <2>3 DEF Members
    <3>2. \A h \in 1 .. Len(f.batch) : log[f.batch[h]].product = log[j].product => h = k
      <4> TAKE h \in 1 .. Len(f.batch)
      <4> HAVE log[f.batch[h]].product = log[j].product
      <4>1. f.batch[h] = j
        BY <1>1, <2>1, OnlyOfProduct
      <4> QED BY <1>1, <3>1, <4>1, WhereItemsAre
    <3>3. log[j].stock \subseteq stock'[log[j].product]
      BY <1>1, <1>5, <1>6, <3>1, <3>2, UpsertedFacts
    <3>4. j \notin flushed'
      BY <1>1, <2>1, <2>3, WhereItemsAre DEF Remaining
    <3>5. \A v \in Worker, t \in Slot : v # w \/ t # s => j \notin Members(flight'[v][t].batch)
      BY <1>1, <1>4, <2>3, OthersInFlight DEF Stage
    <3>6. \A v \in Worker : Pending(v)' \cap ItemsOf(log[j].product)' \subseteq {j}
      BY <1>7, <2>1 DEF Following
    <3>7. ASSUME NEW v \in Worker, NEW t \in Slot, NEW h \in DOMAIN flight'[v][t].batch,
                 flight'[v][t].batch[h] = j
          PROVE  /\ flight'[v][t].stage = "cleanup" =>
                      /\ log'[j].stock \subseteq stock'[log'[j].product]
                      /\ h < flight'[v][t].next => Shows(j)'
                 /\ flight'[v][t].stage = "count" => Shows(j)'
      <4>1. v = w /\ t = s
        BY <3>5, <3>7 DEF Members
      <4>2. flight'[v][t] = g /\ h \in 1 .. Len(f.batch)
        BY <4>1, <1>2, <1>4, <1>5, <3>7
      <4>3. ~(h < 1)
        BY <4>2, <1>5
      <4> QED BY <4>2, <4>3, <1>1, <1>2, <2>1, <3>3
    <3> QED BY <2>1, <3>4, <3>6, <3>7 DEF Following
  <2> QED BY <2>2, <2>3
<1> QED BY <1>7, <1>8, <1>9 DEF IInv

LEMMA CleanupStep ==
    ASSUME IInv, NEW w \in Worker, NEW s \in Slot, Cleanup(w, s)
    PROVE  IInv'
<1> DEFINE f == flight[w][s]
           i == f.batch[f.next]
           R == {log[x].run : x \in Members(f.batch)}
           g == IF f.next < Len(f.batch) THEN [f EXCEPT !.next = @ + 1]
                ELSE [f EXCEPT !.stage = "count", !.runs = R]
<1>1. /\ Types /\ StateTypes /\ HomeOK /\ LastOK /\ FlightOK
      /\ f \in Flush /\ f.stage = "cleanup" /\ f.next \in 1 .. Len(f.batch)
  BY ItemFacts DEF IInv, StateTypes, Cleanup, FlightOK
<1>2. /\ f.batch \in Seq(Remaining) /\ Len(f.batch) \in Nat
      /\ DOMAIN f.batch = 1 .. Len(f.batch) /\ Members(f.batch) \subseteq Item
      /\ i \in Members(f.batch) /\ i \in Item /\ f.next \in Nat
  <2>1. /\ f.batch \in Seq(Remaining) /\ Len(f.batch) \in Nat
        /\ DOMAIN f.batch = 1 .. Len(f.batch) /\ Members(f.batch) \subseteq Remaining
    BY <1>1, WhereItemsAre
  <2>2. i \in Members(f.batch)
    BY <1>1, <2>1 DEF Members
  <2> QED BY <1>1, <2>1, <2>2 DEF Remaining
<1>3. R \in SUBSET Run
  BY <1>1, <1>2, ItemFacts
<1>4. /\ f.next < Len(f.batch) =>
            /\ g \in Flush /\ g.stage = "cleanup" /\ g.batch = f.batch
            /\ g.next = f.next + 1 /\ g.next \in 1 .. Len(f.batch)
      /\ ~(f.next < Len(f.batch)) =>
            g \in Flush /\ g.stage = "count" /\ g.batch = f.batch /\ g.next = f.next /\ g.runs = R
  <2> HIDE DEF R
  <2>1. CASE f.next < Len(f.batch)
    <3> DEFINE n == f.next + 1
    <3>1. g = [f EXCEPT !.next = n] /\ n \in Nat /\ n \in 1 .. Len(f.batch)
      BY <1>1, <1>2, <2>1
    <3> HIDE DEF g, n
    <3>2. g \in Flush /\ g.stage = f.stage /\ g.batch = f.batch /\ g.next = n
      <4>1. f \in Flush
        BY <1>1
      <4> HIDE DEF f
      <4> QED BY <3>1, <4>1, FlushNext
    <3> QED BY <1>1, <2>1, <3>1, <3>2 DEF n
  <2>2. CASE ~(f.next < Len(f.batch))
    <3> DEFINE e == [f EXCEPT !.stage = "count"]
    <3>1. /\ e \in Flush /\ e.stage = "count" /\ e.batch = f.batch /\ e.next = f.next
      BY <1>1, FlushStage DEF Stages
    <3>2. g = [e EXCEPT !.runs = R]
      BY <2>2
    <3> HIDE DEF e, g, f
    <3>3. /\ g \in Flush /\ g.stage = e.stage /\ g.batch = e.batch /\ g.next = e.next /\ g.runs = R
      BY <1>3, <3>1, <3>2, FlushRuns
    <3> QED BY <2>2, <3>1, <3>3
  <2> QED BY <2>1, <2>2
<1>5. flight' = [flight EXCEPT ![w][s] = g]
  BY DEF Cleanup
<1> HIDE DEF g, R
<1>6. Stage(w, s) /\ flight'[w][s] = g /\ g.batch = f.batch
  <2>1. g \in Flush /\ g.stage \in {"cleanup", "count"} /\ g.batch = f.batch
    BY <1>4
  <2>2. /\ flight' \in [Worker -> [Slot -> Flush]]
        /\ flight'[w][s] = g /\ OnlySlot(w, s)
    BY <1>1, <1>5, <2>1, SlotUpdate
  <2> QED BY <1>1, <2>1, <2>2 DEF Stage, Cleanup
<1>7. /\ stock' = Cleaned(i) /\ stock' \in [Product -> SUBSET Variant]
      /\ stock'[log[i].product] = stock[log[i].product] \cap log[i].stock
  BY <1>1, <1>2, CleanedFacts DEF Cleanup
<1>8. /\ Types' /\ FlightOK' /\ ActiveOK' /\ HomeOK'
      /\ \A v \in Worker : Pending(v)' = Pending(v)
  <2>1. counted' \in [Run -> Nat] /\ faults' \in 0 .. MaxFaults
    BY <1>1 DEF Types, Cleanup
  <2>2. /\ flight'[w][s].stage # "upsert"
        /\ flight'[w][s].stage = "cleanup" => flight'[w][s].next \in 1 .. Len(flight[w][s].batch)
    BY <1>4, <1>6
  <2> QED BY <1>6, <1>7, <2>1, <2>2, StageKeeps
<1>9. CreditOK'
  <2>1. ASSUME NEW x \in Item
        PROVE  Unwritten(x)' \/ AwaitsCount(x)' => Unwritten(x) \/ AwaitsCount(x)
    <3>1. Unwritten(x)' => Unwritten(x)
      BY <1>1, <1>4, <1>6 DEF Unwritten, Stage, OnlySlot
    <3>2. ASSUME NEW v \in Worker, NEW t \in Slot,
                 flight'[v][t].stage = "count", log'[x].run \in flight'[v][t].runs,
                 x \in Members(flight'[v][t].batch)
          PROVE  Unwritten(x) \/ AwaitsCount(x)
      <4>1. CASE v = w /\ t = s
        BY <1>1, <1>6, <3>2, <4>1 DEF Unwritten
      <4>2. CASE v # w \/ t # s
        <5>1. flight'[v][t] = flight[v][t] /\ log' = log
          BY <1>6, <4>2 DEF Stage, OnlySlot
        <5> QED BY <3>2, <5>1 DEF AwaitsCount
      <4> QED BY <4>1, <4>2
    <3> QED BY <3>1, <3>2 DEF AwaitsCount
  <2>2. log' = log /\ counted' = counted /\ Item' = Item /\ IsFiniteSet(Item)
    BY <1>1, ItemFacts DEF Cleanup, Item
  <2> QED BY <1>1, <2>1, <2>2, CreditGrows DEF IInv
<1>10. LastOK'
  <2> SUFFICES ASSUME NEW j \in alone', IsLast(j)'
               PROVE  Following(j)'
    BY DEF LastOK
  <2>1. /\ j \in alone /\ IsLast(j) /\ j \in Item /\ log'[j] = log[j] /\ flushed' = flushed
        /\ ItemsOf(log[j].product)' = ItemsOf(log[j].product) /\ Following(j)
        /\ log[j].product \in Product
    BY <1>1, ItemFacts DEF Cleanup, IsLast, ItemsOf, Item, LastOK, Types
  <2>2. CASE j \notin Members(f.batch)
    <3>1. stock'[log[j].product] = stock[log[j].product]
      BY <1>1, <1>7, <2>1, <2>2, StockElsewhere
    <3>2. \A v \in Worker, t \in Slot :
             \/ j \notin Members(flight'[v][t].batch)
             \/ /\ flight'[v][t].stage = flight[v][t].stage
                /\ flight'[v][t].next = flight[v][t].next
                /\ flight'[v][t].batch = flight[v][t].batch
      BY <1>6, <2>2 DEF Stage, OnlySlot
    <3> QED BY <1>8, <2>1, <3>1, <3>2, FollowingKept
  <2>3. CASE j \in Members(f.batch)
    <3>1. PICK k \in 1 .. Len(f.batch) : f.batch[k] = j
      BY <1>2, <2>3 DEF Members
    <3>2. /\ log[j].stock \subseteq stock[log[j].product]
          /\ k < f.next => Shows(j)
      BY <1>1, <1>2, <2>1, <3>1 DEF Following
    <3>3. CASE k = f.next
      <4>1. stock'[log[j].product] = log[j].stock
        BY <1>7, <3>1, <3>2, <3>3
      <4> QED
        <5>1. Shows(j)'
          BY <2>1, <4>1 DEF Shows
        <5>2. j \notin flushed'
          BY <1>1, <2>1, <2>3, WhereItemsAre DEF Remaining
        <5>3. \A v \in Worker : Pending(v)' \cap ItemsOf(log[j].product)' \subseteq {j}
          BY <1>8, <2>1 DEF Following
        <5>4. log'[j].stock \subseteq stock'[log'[j].product]
          BY <2>1, <4>1
        <5> QED BY <2>1, <5>1, <5>2, <5>3, <5>4 DEF Following
    <3>4. CASE k # f.next
      <4>1. log[i].product # log[j].product
        <5> SUFFICES ASSUME log[i].product = log[j].product
                     PROVE  FALSE
          OBVIOUS
        <5>1. i = j
          <6> PICK n \in 1 .. Len(flight[w][s].batch) : n = f.next
            BY <1>1
          <6>1. flight[w][s].batch[n] = i /\ log[flight[w][s].batch[n]].product = log[j].product
            BY <1>1
          <6>2. j \in alone /\ IsLast(j) /\ Types /\ HomeOK /\ LastOK
            BY <1>1, <2>1
          <6>3. flight[w][s].batch[n] = j
            <7> HIDE DEF f, i, g, R
            <7> QED BY <6>1, <6>2, OnlyOfProduct
          <6> QED BY <6>1, <6>3
        <5>2. f.batch[f.next] = f.batch[k]
          BY <3>1, <5>1
        <5> QED BY <1>1, <3>4, <5>2, WhereItemsAre
      <4>2. stock'[log[j].product] = stock[log[j].product]
        BY <1>1, <1>2, <1>7, <2>1, <4>1, CleanedFacts
      <4>3. j \notin flushed'
        BY <1>1, <2>1, <2>3, WhereItemsAre DEF Remaining
      <4>4. \A v \in Worker, t \in Slot : v # w \/ t # s => j \notin Members(flight'[v][t].batch)
        BY <1>1, <1>6, <2>3, OthersInFlight DEF Stage
      <4>5. \A v \in Worker : Pending(v)' \cap ItemsOf(log[j].product)' \subseteq {j}
        BY <1>8, <2>1 DEF Following
      <4>6. ASSUME NEW v \in Worker, NEW t \in Slot, NEW h \in DOMAIN flight'[v][t].batch,
                   flight'[v][t].batch[h] = j
            PROVE  /\ flight'[v][t].stage = "cleanup" =>
                        /\ log'[j].stock \subseteq stock'[log'[j].product]
                        /\ h < flight'[v][t].next => Shows(j)'
                   /\ flight'[v][t].stage = "count" => Shows(j)'
        <5>1. v = w /\ t = s
          BY <4>4, <4>6 DEF Members
        <5>2. flight'[v][t] = g /\ h \in 1 .. Len(f.batch) /\ f.batch[h] = j
          BY <5>1, <1>2, <1>6, <4>6
        <5>3. h = k
          BY <1>1, <3>1, <5>2, WhereItemsAre
        <5>4. log'[j].stock \subseteq stock'[log'[j].product]
          BY <2>1, <3>2, <4>2
        <5>5. Shows(j)' <=> Shows(j)
          BY <2>1, <4>2 DEF Shows
        <5>6. CASE f.next < Len(f.batch)
          <6>1. g.stage = "cleanup" /\ g.next = f.next + 1
            BY <1>4, <5>6
          <6>2. k < f.next + 1 => k < f.next
            BY <1>2, <3>1, <3>4
          <6> QED BY <3>2, <5>2, <5>3, <5>4, <5>5, <6>1, <6>2
        <5>7. CASE ~(f.next < Len(f.batch))
          <6>1. g.stage = "count"
            BY <1>4, <5>7
          <6>2. k < f.next
            BY <1>1, <1>2, <3>1, <3>4, <5>7
          <6> QED BY <3>2, <5>2, <5>5, <6>1, <6>2
        <5> QED BY <5>6, <5>7
      <4> QED BY <2>1, <4>3, <4>5, <4>6 DEF Following
    <3> QED BY <3>3, <3>4
  <2> QED BY <2>2, <2>3
<1> QED BY <1>8, <1>9, <1>10 DEF IInv

LEMMA CountStep ==
    ASSUME IInv, NEW w \in Worker, NEW s \in Slot, Count(w, s)
    PROVE  IInv'
<1> DEFINE f == flight[w][s]
<1>1. /\ Types /\ StateTypes /\ HomeOK /\ LastOK /\ FlightOK /\ CreditOK
      /\ f \in Flush /\ f.stage = "count" /\ f.next \in Nat /\ f.runs \in SUBSET Run
  BY ItemFacts DEF IInv, StateTypes, Count, FlightOK, Flush
<1>2. PICK r \in f.runs :
        /\ flight' = [flight EXCEPT ![w][s].runs = @ \ {r}]
        /\ \/ /\ counted' = [counted EXCEPT ![r] = @ +
                    Cardinality({k \in DOMAIN f.batch : log[f.batch[k]].run = r})]
              /\ UNCHANGED faults
           \/ /\ faults < MaxFaults
              /\ faults' = faults + 1
              /\ UNCHANGED counted
  BY DEF Count
<1> DEFINE g == [f EXCEPT !.runs = @ \ {r}]
           got == {k \in DOMAIN f.batch : log[f.batch[k]].run = r}
<1>3. /\ g \in Flush /\ g.stage = "count" /\ g.batch = f.batch /\ g.next = f.next
      /\ g.runs = f.runs \ {r}
  <2> DEFINE R == f.runs \ {r}
  <2>1. R \in SUBSET Run /\ g = [f EXCEPT !.runs = R]
    BY <1>1
  <2> HIDE DEF R, g
  <2>3. g \in Flush /\ g.stage = f.stage /\ g.batch = f.batch /\ g.next = f.next /\ g.runs = R
    <3>1. f \in Flush
      BY <1>1
    <3> HIDE DEF f
    <3> QED BY <2>1, <3>1, FlushRuns
  <2> QED BY <1>1, <2>3 DEF R
<1>4. flight' = [flight EXCEPT ![w][s] = g]
  BY <1>2
<1> HIDE DEF g
<1>5. Stage(w, s) /\ flight'[w][s] = g /\ stock' = stock
  <2>1. /\ flight' \in [Worker -> [Slot -> Flush]]
        /\ flight'[w][s] = g /\ OnlySlot(w, s)
    BY <1>1, <1>3, <1>4, SlotUpdate
  <2> QED BY <1>1, <1>3, <2>1 DEF Stage, Count
<1>6. /\ DOMAIN f.batch = 1 .. Len(f.batch) /\ Len(f.batch) \in Nat
      /\ Members(f.batch) \subseteq Item
  BY <1>1, WhereItemsAre DEF Remaining
<1>7. IsFiniteSet(got) /\ Cardinality(got) \in Nat
  <2>1. IsFiniteSet(1 .. Len(f.batch)) /\ got \in SUBSET (1 .. Len(f.batch))
    BY <1>6, FS_Interval
  <2>2. IsFiniteSet(got)
    BY <2>1, FS_Subset
  <2> QED BY <2>2, FS_CardinalityType
<1>8. /\ Types' /\ FlightOK' /\ ActiveOK' /\ HomeOK'
      /\ \A v \in Worker : Pending(v)' = Pending(v)
  <2>1. faults' \in 0 .. MaxFaults /\ stock' \in [Product -> SUBSET Variant]
    <3>1. faults \in 0 .. MaxFaults /\ stock \in [Product -> SUBSET Variant]
      BY <1>1 DEF Types
    <3> QED BY <3>1, <1>2, <1>5, SizeAssumption
  <2>2. counted' \in [Run -> Nat]
    <3> HIDE DEF got
    <3>1. CASE counted' = [counted EXCEPT ![r] = @ + Cardinality(got)]
      BY <1>1, <1>7, <3>1 DEF Types
    <3>2. CASE counted' = counted
      BY <1>1, <3>2 DEF Types
    <3> QED BY <1>2, <3>1, <3>2 DEF got
  <2>3. flight'[w][s].stage = "count"
    BY <1>3, <1>5
  <2> QED BY <1>5, <2>1, <2>2, <2>3, StageKeeps
<1>9. log' = log /\ Item' = Item /\ IsFiniteSet(Item) /\ r \in Run
  BY <1>1, <1>2, ItemFacts DEF Count, Item
<1>10. \A x \in Item : /\ Unwritten(x)' <=> Unwritten(x)
                       /\ AwaitsCount(x)' => AwaitsCount(x)
  <2> TAKE x \in Item
  <2>1. \A v \in Worker, t \in Slot :
           /\ flight'[v][t].stage = flight[v][t].stage
           /\ flight'[v][t].batch = flight[v][t].batch
           /\ flight'[v][t].runs \subseteq flight[v][t].runs
    BY <1>1, <1>3, <1>5 DEF OnlySlot, Stage
  <2>2. Unwritten(x)' <=> Unwritten(x)
    BY <2>1, <1>5 DEF Unwritten, Stage
  <2>3. AwaitsCount(x)' => AwaitsCount(x)
    BY <2>1, <1>9 DEF AwaitsCount
  <2> QED BY <2>2, <2>3
<1>11. CreditOK'
  <2>1. CASE UNCHANGED counted
    BY <1>1, <1>9, <1>10, <2>1, CreditGrows
  <2>2. CASE counted' = [counted EXCEPT ![r] = @ + Cardinality(got)]
    <3>1. ASSUME NEW q \in Run
          PROVE  counted'[q] <= Cardinality(Credited(q)')
      <4> DEFINE A == Credited(q)
                 B == Credited(q)'
      <4>1. A \in SUBSET B /\ B \in SUBSET Item
        BY <1>9, <1>10 DEF Credited
      <4>2. /\ counted[q] <= Cardinality(A) /\ counted[q] \in Nat
            /\ IsFiniteSet(A) /\ IsFiniteSet(B) /\ Cardinality(A) <= Cardinality(B)
            /\ Cardinality(A) \in Nat /\ Cardinality(B) \in Nat
        <5>1. counted[q] <= Cardinality(A) /\ counted[q] \in Nat
          BY <1>1 DEF CreditOK, Types
        <5> HIDE DEF A, B
        <5>2. IsFiniteSet(B) /\ IsFiniteSet(A) /\ Cardinality(A) <= Cardinality(B)
          <6>1. IsFiniteSet(B)
            BY <4>1, <1>9, FS_Subset
          <6> QED BY <4>1, <6>1, FS_Subset
        <5> QED BY <5>1, <5>2, FS_CardinalityType
      <4>3. CASE q # r
        <5>1. counted'[q] = counted[q]
          BY <1>1, <1>9, <2>2, <4>3 DEF Types
        <5> HIDE DEF A, B
        <5>2. counted'[q] <= Cardinality(B)
          BY <4>2, <5>1
        <5> QED BY <5>2 DEF B
      <4>4. CASE q = r
        <5> DEFINE C == {f.batch[k] : k \in got}
        <5>1. IsFiniteSet(C) /\ Cardinality(C) = Cardinality(got)
          <6> DEFINE h == [k \in got |-> f.batch[k]]
          <6>1. h \in Bijection(got, C)
            <7>1. h \in Surjection(got, C)
              BY DEF Surjection
            <7>2. \A k \in got, l \in got : h[k] = h[l] => k = l
              <8> TAKE k \in got, l \in got
              <8> HAVE h[k] = h[l]
              <8>1. k \in 1 .. Len(f.batch) /\ l \in 1 .. Len(f.batch) /\ f.batch[k] = f.batch[l]
                BY <1>6
              <8>2. \A a, b \in 1 .. Len(f.batch) : f.batch[a] = f.batch[b] => a = b
                BY <1>1, OnlyThere
              <8> HIDE DEF f
              <8> QED BY <8>1, <8>2
            <7> QED BY <7>1, <7>2 DEF Bijection, Injection, IsInjective, Surjection
          <6> HIDE DEF h, C, got
          <6> QED BY <6>1, <1>7, FS_Bijection DEF ExistsBijection
        <5>2. C \in SUBSET B
          <6> SUFFICES ASSUME NEW x \in C
                       PROVE  x \in B
            OBVIOUS
          <6>1. x \in Item /\ x \in Members(f.batch) /\ log[x].run = r
            BY <1>6 DEF Members
          <6>2. /\ \A v \in Worker : x \notin Members(buffer[v])
                /\ \A v \in Worker, t \in Slot :
                      x \in Members(flight[v][t].batch) => v = w /\ t = s
            BY <1>1, <6>1, OnlyThere
          <6>3. ~Unwritten(x)
            BY <1>1, <6>2 DEF Unwritten
          <6>4. ~AwaitsCount(x)'
            <7>1. \A v \in Worker, t \in Slot :
                     x \in Members(flight'[v][t].batch) => v = w /\ t = s
              BY <1>3, <1>5, <6>2 DEF Stage, OnlySlot
            <7>2. log'[x].run \notin flight'[w][s].runs
              BY <1>3, <1>5, <1>9, <6>1
            <7> QED BY <7>1, <7>2 DEF AwaitsCount
          <6> QED BY <1>9, <1>10, <4>4, <6>1, <6>3, <6>4 DEF Credited
        <5>3. A \cap C = {}
          <6> SUFFICES ASSUME NEW k \in got
                       PROVE  f.batch[k] \notin A
            OBVIOUS
          <6>1. f.batch[k] \in Members(f.batch) /\ log[f.batch[k]].run = r
            BY DEF Members
          <6>2. AwaitsCount(f.batch[k])
            BY <1>1, <1>2, <6>1 DEF AwaitsCount
          <6> QED BY <6>2 DEF Credited
        <5> HIDE DEF A, B, C, got
        <5>4. IsFiniteSet(A \cup C) /\ Cardinality(A \cup C) = Cardinality(A) + Cardinality(C)
          <6>1. /\ IsFiniteSet(A \cup C)
                /\ Cardinality(A \cup C)
                     = Cardinality(A) + Cardinality(C) - Cardinality(A \cap C)
            BY <4>2, <5>1, FS_Union
          <6>2. Cardinality(A \cap C) = 0
            BY <5>3, FS_EmptySet
          <6>3. Cardinality(C) \in Nat
            BY <5>1, FS_CardinalityType
          <6> QED BY <4>2, <6>1, <6>2, <6>3
        <5>5. Cardinality(A \cup C) <= Cardinality(B)
          <6>1. A \cup C \in SUBSET B
            BY <4>1, <5>2
          <6> QED BY <4>2, <6>1, FS_Subset
        <5>6. counted'[q] = counted[q] + Cardinality(got)
          BY <1>1, <1>9, <2>2, <4>4 DEF Types
        <5>7. counted'[q] <= Cardinality(B)
          BY <4>2, <5>1, <5>4, <5>5, <5>6, <1>7
        <5> QED BY <5>7 DEF B
      <4> QED BY <4>3, <4>4
    <3> QED BY <3>1 DEF CreditOK
  <2> QED BY <1>2, <2>1, <2>2
<1>12. LastOK'
  <2> SUFFICES ASSUME NEW j \in alone', IsLast(j)'
               PROVE  Following(j)'
    BY DEF LastOK
  <2>1. /\ j \in alone /\ IsLast(j) /\ j \in Item /\ log'[j] = log[j] /\ flushed' = flushed
        /\ ItemsOf(log[j].product)' = ItemsOf(log[j].product) /\ Following(j)
    BY <1>1 DEF Count, IsLast, ItemsOf, Item, LastOK, Types
  <2>2. \A v \in Worker, t \in Slot :
           /\ flight'[v][t].stage = flight[v][t].stage
           /\ flight'[v][t].next = flight[v][t].next
           /\ flight'[v][t].batch = flight[v][t].batch
    BY <1>1, <1>3, <1>5 DEF Stage, OnlySlot
  <2>3. \A v \in Worker : Pending(v)' \cap ItemsOf(log[j].product)'
                             \subseteq (Pending(v) \cap ItemsOf(log[j].product)) \cup {j}
    BY <1>8, <2>1
  <2> QED BY <1>5, <2>1, <2>2, <2>3, FollowingKept
<1> QED BY <1>8, <1>11, <1>12 DEF IInv

LEMMA FreedFlight ==
    ASSUME FlightOK, NEW w \in Worker, NEW s \in Slot, OnlySlot(w, s), flight'[w][s] = Idle
    PROVE  FlightOK'
<1> SUFFICES ASSUME NEW v \in Worker, NEW t \in Slot
             PROVE  /\ flight'[v][t].stage = "idle" <=> flight'[v][t].batch = <<>>
                    /\ flight'[v][t].stage = "upsert" => flight'[v][t].next = 1
                    /\ Len(flight'[v][t].batch) <= BatchSize
                    /\ flight'[v][t].stage = "cleanup" =>
                          flight'[v][t].next \in 1 .. Len(flight'[v][t].batch)
  BY DEF FlightOK
<1>1. CASE v = w /\ t = s
  BY <1>1, IdleFacts, SizeAssumption
<1>2. CASE v # w \/ t # s
  BY <1>2 DEF FlightOK, OnlySlot
<1> QED BY <1>1, <1>2

LEMMA FinishStep ==
    ASSUME IInv, NEW w \in Worker, NEW s \in Slot, Finish(w, s)
    PROVE  IInv'
<1> DEFINE f == flight[w][s]
<1>1. /\ Types /\ StateTypes /\ HomeOK /\ LastOK /\ FlightOK /\ ActiveOK /\ CreditOK
      /\ f.stage = "count" /\ f.runs = {}
  BY ItemFacts DEF IInv, Finish
<1>2. /\ flight' \in [Worker -> [Slot -> Flush]]
      /\ flight'[w][s] = Idle /\ OnlySlot(w, s)
  BY <1>1, IdleFacts, SlotUpdate DEF Finish
<1>3. /\ log' = log /\ Item' = Item /\ buffer' = buffer /\ lost' = lost /\ stock' = stock
      /\ alone' = alone /\ counted' = counted /\ flushed' = flushed \cup Members(f.batch)
      /\ activeFlushes' = [activeFlushes EXCEPT ![w] = @ - 1]
  BY DEF Finish, Item
<1>4. ActiveOK' /\ activeFlushes' \in [Worker -> Nat]
  BY <1>1, <1>2, <1>3, IdleFacts, SlotFreed
<1>5. /\ Members(f.batch) \subseteq Remaining /\ Members(f.batch) \subseteq Item
      /\ Members(f.batch) \cap flushed = {} /\ Members(f.batch) \cap lost = {}
  BY <1>1, WhereItemsAre DEF Remaining
<1>6. Types'
  BY <1>1, <1>2, <1>3, <1>4, <1>5 DEF Types, Finish
<1>7. FlightOK'
  BY <1>1, <1>2, FreedFlight
<1>8. HomeOK'
  <2>1. Memory' = Emptied(Memory, w, {s})
    <3>1. \A v \in Worker, t \in Place :
             (IF t = 0 THEN buffer'[v] ELSE flight'[v][t].batch)
                = (IF v = w /\ t \in {s} THEN <<>> ELSE Memory[v][t])
      <4> TAKE v \in Worker, t \in Place
      <4>1. CASE t = 0
        <5>1. t # s
          BY <4>1, PlaceFacts
        <5> QED BY <4>1, <5>1, <1>1, <1>3, MemoryFacts
      <4>2. CASE t # 0
        <5>1. t \in Slot
          BY <4>2, PlaceFacts
        <5>2. Memory[v][t] = flight[v][t].batch
          BY <5>1, <1>1, MemoryFacts
        <5> QED BY <4>2, <5>1, <5>2, <1>2, IdleFacts DEF OnlySlot
      <4> QED BY <4>1, <4>2
    <3> QED BY <3>1 DEF Memory, Emptied
  <2>2. Kept(Memory, w, {s}) = Members(f.batch)
    <3>1. Memory[w][s] = f.batch
      BY <1>1, MemoryFacts
    <3> QED BY <3>1 DEF Kept
  <2>3. Remaining' = Remaining \ Kept(Memory, w, {s})
    BY <2>2, <1>3 DEF Remaining
  <2>4. {s} \in SUBSET Place
    BY PlaceFacts
  <2>5. Homed(Memory', Remaining')
    BY <2>1, <2>3, <2>4, <1>1, HomedEmptied DEF HomeOK
  <2> QED BY <2>5, <1>1, <1>3, <1>5 DEF HomeOK
<1>9. CreditOK'
  <2>1. ASSUME NEW x \in Item
        PROVE  Unwritten(x)' \/ AwaitsCount(x)' => Unwritten(x) \/ AwaitsCount(x)
    <3>1. Unwritten(x)' => Unwritten(x)
      BY <1>2, <1>3, IdleFacts DEF Unwritten, OnlySlot
    <3>2. AwaitsCount(x)' => AwaitsCount(x)
      BY <1>2, <1>3, IdleFacts DEF AwaitsCount, OnlySlot
    <3> QED BY <3>1, <3>2
  <2> QED BY <1>1, <1>3, <2>1, ItemFacts, CreditGrows
<1>10. LastOK'
  <2> SUFFICES ASSUME NEW j \in alone', IsLast(j)'
               PROVE  Following(j)'
    BY DEF LastOK
  <2>1. /\ j \in alone /\ IsLast(j) /\ j \in Item /\ log'[j] = log[j]
        /\ ItemsOf(log[j].product)' = ItemsOf(log[j].product) /\ Following(j)
        /\ Shows(j)' = Shows(j)
    BY <1>1, <1>3 DEF IsLast, ItemsOf, Item, LastOK, Types, Shows
  <2>2. \A v \in Worker : Pending(v)' \subseteq Pending(v)
    <3> TAKE v \in Worker
    <3>1. \A t \in Slot : Members(flight'[v][t].batch) \subseteq Members(flight[v][t].batch)
      <4> TAKE t \in Slot
      <4>1. Members(Idle.batch) = {}
        BY IdleFacts, EmptySeq DEF Members
      <4> QED BY <4>1, <1>2 DEF OnlySlot
    <3> QED BY <3>1, <1>3 DEF Pending
  <2>3. \A v \in Worker, t \in Slot :
           \/ flight'[v][t].batch = <<>> /\ j \notin Members(flight'[v][t].batch)
           \/ flight'[v][t] = flight[v][t]
    <3>1. Members(<<>>) = {}
      BY DEF Members
    <3> QED BY <3>1, <1>2, IdleFacts DEF OnlySlot
  <2>4. CASE j \notin Members(f.batch)
    <3>1. j \in flushed' => j \in flushed
      BY <2>4, <1>3
    <3> QED BY <2>1, <2>2, <2>3, <3>1, <1>3, FollowingKept
  <2>5. CASE j \in Members(f.batch)
    <3>1. Shows(j)
      <4>1. DOMAIN f.batch = 1 .. Len(f.batch)
        BY <1>1, WhereItemsAre
      <4>2. PICK k \in DOMAIN f.batch : f.batch[k] = j
        BY <2>5 DEF Members
      <4> QED BY <4>2, <1>1, <2>1 DEF Following
    <3>2. \A v \in Worker : Pending(v)' \cap ItemsOf(log[j].product)' \subseteq {j}
      BY <2>1, <2>2 DEF Following
    <3>3. \A v \in Worker, t \in Slot : j \notin Members(flight'[v][t].batch)
      <4>1. \A v \in Worker, t \in Slot : v # w \/ t # s => j \notin Members(flight'[v][t].batch)
        BY <1>1, <1>2, <2>5, OthersInFlight
      <4>2. j \notin Members(flight'[w][s].batch)
        BY <1>2, IdleFacts DEF Members
      <4> QED BY <4>1, <4>2
    <3>4. \A v \in Worker, t \in Slot : \A k \in DOMAIN flight'[v][t].batch :
             flight'[v][t].batch[k] # j
      BY <3>3 DEF Members
    <3> QED BY <2>1, <3>1, <3>2, <3>4 DEF Following
  <2> QED BY <2>4, <2>5
<1> QED BY <1>4, <1>6, <1>7, <1>8, <1>9, <1>10 DEF IInv

LEMMA FailStep ==
    ASSUME IInv, NEW w \in Worker, NEW s \in Slot, Fail(w, s)
    PROVE  IInv'
<1> DEFINE f == flight[w][s]
<1>1. /\ Types /\ StateTypes /\ HomeOK /\ LastOK /\ FlightOK /\ ActiveOK /\ CreditOK
      /\ f.stage \in {"upsert", "cleanup"}
  BY ItemFacts DEF IInv, Fail
<1>2. /\ flight' \in [Worker -> [Slot -> Flush]]
      /\ flight'[w][s] = Idle /\ OnlySlot(w, s)
  BY <1>1, IdleFacts, SlotUpdate DEF Fail
<1>3. /\ log' = log /\ Item' = Item /\ lost' = lost /\ flushed' = flushed /\ alone' = alone
      /\ counted' = counted /\ phase' = phase /\ stops' = stops
      /\ activeFlushes' = [activeFlushes EXCEPT ![w] = @ - 1]
      /\ buffer' = [buffer EXCEPT ![w] = f.batch \o @]
  BY DEF Fail, Item
<1>4. ActiveOK' /\ activeFlushes' \in [Worker -> Nat]
  BY <1>1, <1>2, <1>3, IdleFacts, SlotFreed
<1>5. /\ f.batch \in Seq(Remaining) /\ f.batch \in Seq(Item) /\ Len(f.batch) \in Nat
      /\ DOMAIN f.batch = 1 .. Len(f.batch) /\ Members(f.batch) \subseteq Remaining
      /\ \A k \in 1 .. Len(f.batch) : f.batch[k] \in Item
  <2>1. f.batch \in Seq(Remaining) /\ Members(f.batch) \subseteq Remaining
    BY <1>1, WhereItemsAre
  <2> DEFINE q == f.batch
  <2> HIDE DEF q
  <2>2. /\ q \in [1 .. Len(q) -> Remaining] /\ Len(q) \in Nat
        /\ DOMAIN q = 1 .. Len(q) /\ \A k \in 1 .. Len(q) : q[k] \in Remaining
    BY <2>1, LenProperties, ElementOfSeq DEF q
  <2>3. q \in [1 .. Len(q) -> Item] /\ \A k \in 1 .. Len(q) : q[k] \in Item
    BY <2>2 DEF Remaining
  <2>4. q \in Seq(Item)
    BY <2>2, <2>3
  <2> QED BY <2>1, <2>2, <2>3, <2>4 DEF q
<1>6. /\ \/ stock' = stock
         \/ stock' = Upserted(f.batch)
         \/ f.next \in 1 .. Len(f.batch) /\ stock' = Cleaned(f.batch[f.next])
      /\ stock' \in [Product -> SUBSET Variant]
  <2>1. \/ stock' = stock
        \/ stock' = Upserted(f.batch)
        \/ f.next \in 1 .. Len(f.batch) /\ stock' = Cleaned(f.batch[f.next])
    BY <1>1 DEF Fail, FlightOK
  <2>2. stock \in [Product -> SUBSET Variant]
    BY <1>1 DEF Types
  <2>3. Upserted(f.batch) \in [Product -> SUBSET Variant]
    BY <1>1, <1>5, UpsertedFacts
  <2>4. f.next \in 1 .. Len(f.batch) => Cleaned(f.batch[f.next]) \in [Product -> SUBSET Variant]
    BY <1>1, <1>5, CleanedFacts
  <2> QED BY <2>1, <2>2, <2>3, <2>4
<1>7. /\ buffer[w] \in Seq(Remaining) /\ f.batch \o buffer[w] \in Seq(Remaining)
      /\ Members(f.batch \o buffer[w]) = Members(f.batch) \cup Members(buffer[w])
  <2>1. buffer[w] \in Seq(Remaining)
    BY <1>1, WhereItemsAre
  <2> DEFINE p == f.batch
             q == buffer[w]
  <2> HIDE DEF p, q
  <2>2. p \in Seq(Remaining) /\ q \in Seq(Remaining)
    BY <1>5, <2>1 DEF p, q
  <2>3. p \o q \in Seq(Remaining) /\ Members(p \o q) = Members(p) \cup Members(q)
    BY <2>2, MembersConcat
  <2> QED BY <2>1, <2>3 DEF p, q
<1>8. \A v \in Worker : buffer'[v] = IF v = w THEN f.batch \o buffer[w] ELSE buffer[v]
  BY <1>1, <1>3 DEF StateTypes
<1>9. Types'
  <2>1. buffer' \in [Worker -> Seq(Nat)]
    <3>1. f.batch \o buffer[w] \in Seq(Nat)
      <4>1. f.batch \in Seq(Nat) /\ buffer[w] \in Seq(Nat)
        BY <1>1 DEF StateTypes, Flush
      <4> HIDE DEF f
      <4> QED BY <4>1, ConcatProperties
    <3> HIDE DEF f
    <3> QED BY <1>1, <1>3, <3>1 DEF StateTypes
  <2>2. faults' \in 0 .. MaxFaults
    BY <1>1, SizeAssumption DEF Fail, Types
  <2> QED BY <1>1, <1>2, <1>3, <1>4, <1>6, <2>1, <2>2 DEF Types
<1>10. FlightOK'
  BY <1>1, <1>2, FreedFlight
<1>11. HomeOK'
  <2>1. Memory' = Returned(Memory, w, s)
    <3>1. \A v \in Worker, t \in Place :
             (IF t = 0 THEN buffer'[v] ELSE flight'[v][t].batch)
                = (IF v = w /\ t = 0 THEN Memory[w][s] \o Memory[w][0]
                   ELSE IF v = w /\ t = s THEN <<>> ELSE Memory[v][t])
      <4> TAKE v \in Worker, t \in Place
      <4>1. Memory[w][s] = f.batch /\ Memory[w][0] = buffer[w] /\ Memory[v][0] = buffer[v]
        BY <1>1, MemoryFacts
      <4>2. CASE t = 0
        BY <4>1, <4>2, <1>8
      <4>3. CASE t # 0
        <5>1. t \in Slot /\ Memory[v][t] = flight[v][t].batch
          BY <4>3, <1>1, MemoryFacts, PlaceFacts
        <5>2. CASE v = w /\ t = s
          BY <4>3, <5>2, <1>2, IdleFacts
        <5>3. CASE v # w \/ t # s
          BY <4>3, <5>1, <5>3, <1>2 DEF OnlySlot
        <5> QED BY <5>2, <5>3
      <4> QED BY <4>2, <4>3
    <3> QED BY <3>1 DEF Memory, Returned
  <2>2. Homed(Memory', Remaining)
    BY <2>1, <1>1, HomedReturned DEF HomeOK
  <2> QED BY <2>2, <1>1, <1>3 DEF HomeOK, Remaining
<1>12. /\ \A v \in Worker : Pending(v)' \subseteq Pending(v)
       /\ \A x \in Item : /\ Unwritten(x)' => Unwritten(x)
                          /\ AwaitsCount(x)' => AwaitsCount(x)
  <2>1. Members(flight'[w][s].batch) = {}
    BY <1>2, IdleFacts DEF Members
  <2>2. \A v \in Worker, t \in Slot :
           Members(flight'[v][t].batch) \subseteq Members(flight[v][t].batch)
    BY <1>2, <2>1 DEF OnlySlot
  <2>3. \A v \in Worker : Members(buffer'[v])
                             = IF v = w THEN Members(f.batch) \cup Members(buffer[w])
                               ELSE Members(buffer[v])
    BY <1>7, <1>8
  <2>4. ASSUME NEW v \in Worker
        PROVE  Pending(v)' \subseteq Pending(v)
    <3>1. CASE v = w
      BY <2>2, <2>3, <3>1 DEF Pending
    <3>2. CASE v # w
      BY <2>2, <2>3, <3>2 DEF Pending
    <3> QED BY <3>1, <3>2
  <2>5. ASSUME NEW x \in Item, Unwritten(x)'
        PROVE  Unwritten(x)
    <3>1. CASE \E v \in Worker : x \in Members(buffer'[v])
      <4>1. PICK v \in Worker : x \in Members(buffer'[v])
        BY <3>1
      <4>2. x \in Members(buffer[v]) \/ x \in Members(f.batch)
        BY <2>3, <4>1
      <4> QED BY <4>2, <1>1 DEF Unwritten
    <3>2. CASE \E v \in Worker : \E t \in Slot : /\ flight'[v][t].stage \in {"upsert", "cleanup"}
                                                 /\ x \in Members(flight'[v][t].batch)
      BY <1>2, <2>1, <3>2 DEF Unwritten, OnlySlot
    <3> QED BY <2>5, <3>1, <3>2 DEF Unwritten
  <2>6. ASSUME NEW x \in Item, AwaitsCount(x)'
        PROVE  AwaitsCount(x)
    BY <1>2, <1>3, <2>1, <2>6 DEF AwaitsCount, OnlySlot
  <2> QED BY <2>4, <2>5, <2>6
<1>13. CreditOK'
  BY <1>1, <1>3, <1>12, ItemFacts, CreditGrows
<1>14. LastOK'
  <2> SUFFICES ASSUME NEW j \in alone', IsLast(j)'
               PROVE  Following(j)'
    BY DEF LastOK
  <2>1. /\ j \in alone /\ IsLast(j) /\ j \in Item /\ log'[j] = log[j]
        /\ ItemsOf(log[j].product)' = ItemsOf(log[j].product) /\ Following(j)
    BY <1>1, <1>3 DEF IsLast, ItemsOf, Item, LastOK, Types
  <2>2. \A v \in Worker : Pending(v)' \cap ItemsOf(log[j].product)' \subseteq {j}
    BY <1>12, <2>1 DEF Following
  <2>3. j \notin Members(flight'[w][s].batch)
    BY <1>2, IdleFacts DEF Members
  <2>4. CASE j \notin Members(f.batch)
    <3>1. stock'[log[j].product] = stock[log[j].product]
      BY <1>1, <1>6, <2>1, <2>4, StockElsewhere
    <3>2. \A v \in Worker, t \in Slot :
             j \notin Members(flight'[v][t].batch) \/ flight'[v][t] = flight[v][t]
      BY <1>2, <2>3 DEF OnlySlot
    <3>3. \A v \in Worker : Pending(v)' \cap ItemsOf(log[j].product)'
                               \subseteq (Pending(v) \cap ItemsOf(log[j].product)) \cup {j}
      BY <2>2
    <3> QED BY <1>3, <2>1, <3>1, <3>2, <3>3, FollowingKept
  <2>5. CASE j \in Members(f.batch)
    <3>1. \A v \in Worker, t \in Slot : j \notin Members(flight'[v][t].batch)
      <4>1. \A v \in Worker, t \in Slot : v # w \/ t # s => j \notin Members(flight'[v][t].batch)
        BY <1>1, <1>2, <2>5, OthersInFlight
      <4> QED BY <2>3, <4>1
    <3>2. j \notin flushed'
      BY <1>3, <1>5, <2>5 DEF Remaining
    <3> QED BY <2>1, <2>2, <3>1, <3>2, FollowingAway
  <2> QED BY <2>4, <2>5
<1> QED BY <1>4, <1>9, <1>10, <1>11, <1>13, <1>14 DEF IInv

-----------------------------------------------------------------------------
(* The end of a process. *)

LEMMA RestartStep ==
    ASSUME IInv, NEW w \in Worker, Restart(w),
           faults' \in 0 .. MaxFaults, stops' \in 0 .. MaxStops
    PROVE  IInv'
<1>1. /\ Types /\ StateTypes /\ HomeOK /\ LastOK /\ FlightOK /\ ActiveOK /\ CreditOK
  BY ItemFacts DEF IInv
<1>2. /\ log' = log /\ Item' = Item /\ flushed' = flushed /\ alone' = alone
      /\ counted' = counted /\ stock' = stock
      /\ lost' = lost \cup Pending(w)
      /\ \A v \in Worker : buffer'[v] = IF v = w THEN <<>> ELSE buffer[v]
      /\ \A v \in Worker, t \in Slot : flight'[v][t] = IF v = w THEN Idle ELSE flight[v][t]
      /\ \A v \in Worker : activeFlushes'[v] = IF v = w THEN 0 ELSE activeFlushes[v]
  BY <1>1 DEF Restart, StateTypes, Item
<1>3. Pending(w) \subseteq Remaining
  <2>1. Members(buffer[w]) \subseteq Remaining
    BY <1>1, WhereItemsAre
  <2>2. \A t \in Slot : Members(flight[w][t].batch) \subseteq Remaining
    BY <1>1, WhereItemsAre
  <2> QED BY <2>1, <2>2 DEF Pending
<1>4. Types'
  <2>1. buffer' \in [Worker -> Seq(Nat)] /\ activeFlushes' \in [Worker -> Nat]
    BY <1>1, EmptySeq DEF Restart, StateTypes
  <2>2. flight' \in [Worker -> [Slot -> Flush]]
    <3>1. [s \in Slot |-> Idle] \in [Slot -> Flush]
      BY IdleFacts
    <3> HIDE DEF Flush
    <3> QED BY <1>1, <3>1 DEF Restart, StateTypes
  <2>3. phase' \in [Worker -> {"up", "draining", "drained"}]
    BY <1>1 DEF Types, Restart
  <2>4. flushed' \cup lost' \cup alone' \subseteq Item'
    BY <1>1, <1>2, <1>3 DEF Types, Remaining
  <2> QED BY <1>1, <1>2, <2>1, <2>2, <2>3, <2>4 DEF Types
<1>5. FlightOK'
  <2> SUFFICES ASSUME NEW v \in Worker, NEW t \in Slot
               PROVE  /\ flight'[v][t].stage = "idle" <=> flight'[v][t].batch = <<>>
                      /\ flight'[v][t].stage = "upsert" => flight'[v][t].next = 1
                      /\ Len(flight'[v][t].batch) <= BatchSize
                      /\ flight'[v][t].stage = "cleanup" =>
                            flight'[v][t].next \in 1 .. Len(flight'[v][t].batch)
    BY DEF FlightOK
  <2>1. CASE v = w
    BY <2>1, <1>2, IdleFacts, SizeAssumption
  <2>2. CASE v # w
    BY <2>2, <1>1, <1>2, SMTT(60) DEF FlightOK
  <2> QED BY <2>1, <2>2
<1>6. ActiveOK'
  <2> SUFFICES ASSUME NEW v \in Worker
               PROVE  activeFlushes'[v] = Cardinality(Slot \ IdleSlots(v)')
    BY DEF ActiveOK
  <2>1. CASE v = w
    <3>1. Slot \ IdleSlots(w)' = {}
      BY <1>2, IdleFacts DEF IdleSlots
    <3> QED BY <2>1, <3>1, <1>2, FS_EmptySet
  <2>2. CASE v # w
    <3>1. IdleSlots(v)' = IdleSlots(v)
      BY <2>2, <1>2 DEF IdleSlots
    <3> QED BY <2>2, <3>1, <1>1, <1>2 DEF ActiveOK
  <2> QED BY <2>1, <2>2
<1>7. HomeOK'
  <2>1. Memory' = Emptied(Memory, w, Place)
    <3>1. \A v \in Worker, t \in Place :
             (IF t = 0 THEN buffer'[v] ELSE flight'[v][t].batch)
                = (IF v = w /\ t \in Place THEN <<>> ELSE Memory[v][t])
      <4> TAKE v \in Worker, t \in Place
      <4>1. CASE t = 0
        BY <4>1, <1>1, <1>2, MemoryFacts
      <4>2. CASE t # 0
        <5>1. t \in Slot
          BY <4>2, PlaceFacts
        <5>2. Memory[v][t] = flight[v][t].batch
          BY <5>1, <1>1, MemoryFacts
        <5> QED BY <4>2, <5>1, <5>2, <1>2, IdleFacts
      <4> QED BY <4>1, <4>2
    <3> QED BY <3>1 DEF Memory, Emptied
  <2>2. Kept(Memory, w, Place) = Pending(w)
    <3>1. /\ Members(Memory[w][0]) = Members(buffer[w])
          /\ \A t \in Slot : Members(Memory[w][t]) = Members(flight[w][t].batch)
      BY <1>1, MemoryFacts
    <3>2. \A x : x \in Kept(Memory, w, Place) <=> x \in Pending(w)
      <4> TAKE x
      <4>1. x \in Kept(Memory, w, Place) <=> \E t \in Place : x \in Members(Memory[w][t])
        BY DEF Kept
      <4>2. x \in Pending(w) <=>
               x \in Members(buffer[w]) \/ \E t \in Slot : x \in Members(flight[w][t].batch)
        BY DEF Pending
      <4> QED BY <3>1, <4>1, <4>2, PlaceFacts
    <3> QED BY <3>2
  <2>3. Remaining' = Remaining \ Kept(Memory, w, Place)
    BY <2>2, <1>2 DEF Remaining
  <2>4. Homed(Memory', Remaining')
    BY <2>1, <2>3, <1>1, HomedEmptied DEF HomeOK
  <2> QED BY <2>4, <1>1, <1>2, <1>3 DEF HomeOK, Remaining
<1>8. /\ \A v \in Worker : Members(buffer'[v]) \subseteq Members(buffer[v])
      /\ \A v \in Worker, t \in Slot :
            \/ flight'[v][t].batch = <<>> /\ Members(flight'[v][t].batch) = {}
            \/ flight'[v][t] = flight[v][t]
  <2>1. Members(<<>>) = {}
    BY DEF Members
  <2> QED BY <2>1, <1>2, IdleFacts
<1>9. CreditOK'
  <2>1. ASSUME NEW x \in Item, Unwritten(x)'
        PROVE  Unwritten(x)
    <3>1. CASE \E v \in Worker : x \in Members(buffer'[v])
      BY <3>1, <1>8 DEF Unwritten
    <3>2. CASE \E v \in Worker : \E t \in Slot : /\ flight'[v][t].stage \in {"upsert", "cleanup"}
                                                 /\ x \in Members(flight'[v][t].batch)
      <4>1. PICK v \in Worker, t \in Slot : /\ flight'[v][t].stage \in {"upsert", "cleanup"}
                                            /\ x \in Members(flight'[v][t].batch)
        BY <3>2
      <4>2. flight'[v][t] = flight[v][t]
        BY <4>1, <1>8
      <4> QED BY <4>1, <4>2 DEF Unwritten
    <3> QED BY <2>1, <3>1, <3>2 DEF Unwritten
  <2>2. ASSUME NEW x \in Item, AwaitsCount(x)'
        PROVE  AwaitsCount(x)
    <3>1. PICK v \in Worker, t \in Slot : /\ flight'[v][t].stage = "count"
                                          /\ log'[x].run \in flight'[v][t].runs
                                          /\ x \in Members(flight'[v][t].batch)
      BY <2>2 DEF AwaitsCount
    <3>2. flight'[v][t] = flight[v][t]
      BY <3>1, <1>8
    <3> QED BY <1>2, <3>1, <3>2 DEF AwaitsCount
  <2>3. \A x \in Item : Unwritten(x)' \/ AwaitsCount(x)' => Unwritten(x) \/ AwaitsCount(x)
    BY <2>1, <2>2
  <2> QED BY <1>1, <1>2, <2>3, ItemFacts, CreditGrows
<1>10. LastOK'
  <2> SUFFICES ASSUME NEW j \in alone', IsLast(j)'
               PROVE  Following(j)'
    BY DEF LastOK
  <2>1. /\ j \in alone /\ IsLast(j) /\ j \in Item /\ log'[j] = log[j]
        /\ ItemsOf(log[j].product)' = ItemsOf(log[j].product) /\ Following(j)
    BY <1>1, <1>2 DEF IsLast, ItemsOf, Item, LastOK, Types
  <2>2. \A v \in Worker : Pending(v)' \subseteq Pending(v)
    <3> TAKE v \in Worker
    <3>1. \A t \in Slot : Members(flight'[v][t].batch) \subseteq Members(flight[v][t].batch)
      BY <1>8
    <3> QED BY <3>1, <1>8 DEF Pending
  <2>3. \A v \in Worker, t \in Slot :
           \/ j \notin Members(flight'[v][t].batch)
           \/ flight'[v][t] = flight[v][t]
    BY <1>8
  <2> QED BY <2>1, <2>2, <2>3, <1>2, FollowingKept
<1> QED BY <1>4, <1>5, <1>6, <1>7, <1>9, <1>10 DEF IInv

\* A step that changes no more than a phase, and counts a stop.
LEMMA PhaseStep ==
    ASSUME IInv, UNCHANGED <<log, buffer, flight, activeFlushes, stock, counted, flushed,
                             lost, alone, faults>>,
           phase' \in [Worker -> {"up", "draining", "drained"}], stops' \in 0 .. MaxStops
    PROVE  IInv'
<1>1. Types' /\ FlightOK' /\ ActiveOK'
  BY DEF IInv, Types, Item, FlightOK, ActiveOK, IdleSlots
<1>2. HomeOK'
  BY DEF IInv, HomeOK, Memory, Remaining, Item
<1>3. CreditOK'
  <2>1. \A i : Unwritten(i)' = Unwritten(i) /\ AwaitsCount(i)' = AwaitsCount(i)
    BY DEF Unwritten, AwaitsCount
  <2>2. \A r \in Run : Credited(r)' = Credited(r)
    BY <2>1 DEF Credited, Item
  <2> QED BY <2>2 DEF IInv, CreditOK
<1>4. LastOK'
  <2>1. \A i : IsLast(i)' = IsLast(i) /\ Following(i)' = Following(i)
    BY DEF IsLast, Following, Pending, ItemsOf, Item, Shows
  <2> QED BY <2>1 DEF IInv, LastOK
<1> QED BY <1>1, <1>2, <1>3, <1>4 DEF IInv

LEMMA EndStep ==
    ASSUME IInv, NEW w \in Worker, Crash(w) \/ Stop(w) \/ Drained(w) \/ Exit(w)
    PROVE  IInv'
<1>1. /\ faults \in 0 .. MaxFaults /\ stops \in 0 .. MaxStops
      /\ phase \in [Worker -> {"up", "draining", "drained"}]
  BY DEF IInv, Types
<1>2. CASE Crash(w)
  <2>1. Restart(w) /\ faults' \in 0 .. MaxFaults /\ stops' \in 0 .. MaxStops
    BY <1>1, <1>2, SizeAssumption DEF Crash
  <2> QED BY <2>1, RestartStep
<1>3. CASE Stop(w)
  <2>1. stops' \in 0 .. MaxStops /\ faults' \in 0 .. MaxFaults
    BY <1>1, <1>3, SizeAssumption DEF Stop
  <2>2. CASE ShutdownHooks
    <3>1. phase' \in [Worker -> {"up", "draining", "drained"}]
      BY <1>1, <1>3, <2>2 DEF Stop
    <3> QED BY <1>3, <2>1, <2>2, <3>1, PhaseStep DEF Stop
  <2>3. CASE ~ShutdownHooks
    BY <1>3, <2>1, <2>3, RestartStep DEF Stop
  <2> QED BY <2>2, <2>3
<1>4. CASE Drained(w)
  <2>1. phase' \in [Worker -> {"up", "draining", "drained"}] /\ stops' \in 0 .. MaxStops
    BY <1>1, <1>4 DEF Drained
  <2> QED BY <1>4, <2>1, PhaseStep DEF Drained
<1>5. CASE Exit(w)
  BY <1>1, <1>5, RestartStep DEF Exit
<1> QED BY <1>2, <1>3, <1>4, <1>5

-----------------------------------------------------------------------------
(* Buffering. *)

\* What a step that moves items does to what is pending and unwritten: nothing
\* but the items given is new.
LEMMA MovesPending ==
    ASSUME NEW w \in Worker, NEW items, Moves(w, items),
           \A i \in Item : log'[i] = log[i]
    PROVE  /\ \A v \in Worker : Pending(v)' \subseteq
                    Pending(v) \cup (IF v = w THEN Members(items) ELSE {})
           /\ \A i \in Item : /\ AwaitsCount(i)' => AwaitsCount(i)
                              /\ Unwritten(i)' => Unwritten(i) \/ i \in Members(items)
<1>1. /\ \A v \in Worker : Members(buffer'[v]) \subseteq
                 Members(buffer[v]) \cup (IF v = w THEN Members(items) ELSE {})
      /\ \A v \in Worker, s \in Slot :
            \/ flight'[v][s] = flight[v][s]
            \/ /\ v = w /\ flight'[v][s].stage = "upsert"
               /\ Members(flight'[v][s].batch) \subseteq Members(items)
  BY DEF Moves
<1>2. ASSUME NEW v \in Worker
      PROVE  Pending(v)' \subseteq Pending(v) \cup (IF v = w THEN Members(items) ELSE {})
  <2>1. \A s \in Slot : Members(flight'[v][s].batch) \subseteq
             Members(flight[v][s].batch) \cup (IF v = w THEN Members(items) ELSE {})
    BY <1>1
  <2> QED BY <2>1, <1>1 DEF Pending
<1>3. ASSUME NEW i \in Item, AwaitsCount(i)'
      PROVE  AwaitsCount(i)
  <2>1. PICK v \in Worker, s \in Slot : /\ flight'[v][s].stage = "count"
                                        /\ log'[i].run \in flight'[v][s].runs
                                        /\ i \in Members(flight'[v][s].batch)
    BY <1>3 DEF AwaitsCount
  <2>2. flight'[v][s] = flight[v][s] /\ log'[i] = log[i]
    BY <2>1, <1>1
  <2> QED BY <2>1, <2>2 DEF AwaitsCount
<1>4. ASSUME NEW i \in Item, Unwritten(i)', i \notin Members(items)
      PROVE  Unwritten(i)
  <2>1. CASE \E v \in Worker : i \in Members(buffer'[v])
    BY <2>1, <1>1, <1>4 DEF Unwritten
  <2>2. CASE \E v \in Worker : \E s \in Slot : /\ flight'[v][s].stage \in {"upsert", "cleanup"}
                                               /\ i \in Members(flight'[v][s].batch)
    <3>1. PICK v \in Worker, s \in Slot : /\ flight'[v][s].stage \in {"upsert", "cleanup"}
                                          /\ i \in Members(flight'[v][s].batch)
      BY <2>2
    <3>2. flight'[v][s] = flight[v][s]
      BY <3>1, <1>1, <1>4
    <3> QED BY <3>1, <3>2 DEF Unwritten
  <2> QED BY <1>4, <2>1, <2>2 DEF Unwritten
<1> QED BY <1>2, <1>3, <1>4

LEMMA TickStep ==
    ASSUME IInv, NEW w \in Worker, Tick(w)
    PROVE  IInv'
<1> DEFINE items == buffer[w]
<1>1. /\ Types /\ StateTypes /\ HomeOK /\ LastOK /\ FlightOK /\ ActiveOK /\ CreditOK
      /\ items \in Seq(Nat)
  BY ItemFacts DEF IInv, StateTypes
<1>2. UNCHANGED <<log, phase, stock, counted, flushed, lost, alone, faults, stops>>
      /\ Item' = Item /\ DrainBuffer(w, items)
  BY DEF Tick, Item
<1>3. /\ StateTypes' /\ Moves(w, items) /\ ActiveOK'
      /\ Memory' = Spliced(Memory, w)
      /\ \A s \in IdleSlots(w) : Memory[w][s] = <<>>
  BY <1>1, <1>2, DrainEffect, WithBufferSame
<1>4. Types'
  BY <1>1, <1>2, <1>3 DEF Types, StateTypes
<1>5. FlightOK'
  BY <1>1, <1>3, MovesFlight
<1>6. HomeOK'
  <2>1. Homed(Memory', Remaining)
    BY <1>1, <1>3, HomedSpliced DEF HomeOK
  <2> QED BY <2>1, <1>1, <1>2 DEF HomeOK, Remaining
<1>7. /\ \A v \in Worker : Pending(v)' \subseteq Pending(v)
      /\ \A i \in Item : Unwritten(i)' \/ AwaitsCount(i)' => Unwritten(i) \/ AwaitsCount(i)
  <2>1. Members(items) \subseteq Item /\ Members(items) \subseteq Pending(w)
    BY <1>1, WhereItemsAre DEF Remaining, Pending
  <2>2. \A i \in Members(items) : Unwritten(i)
    BY DEF Unwritten
  <2>3. /\ \A v \in Worker : Pending(v)' \subseteq
                 Pending(v) \cup (IF v = w THEN Members(items) ELSE {})
        /\ \A i \in Item : /\ AwaitsCount(i)' => AwaitsCount(i)
                           /\ Unwritten(i)' => Unwritten(i) \/ i \in Members(items)
    BY <1>2, <1>3, <2>1, MovesPending
  <2> QED BY <2>1, <2>2, <2>3
<1>8. CreditOK'
  BY <1>1, <1>2, <1>7, ItemFacts, CreditGrows
<1>9. LastOK'
  <2> SUFFICES ASSUME NEW j \in alone', IsLast(j)'
               PROVE  Following(j)'
    BY DEF LastOK
  <2>1. /\ j \in alone /\ IsLast(j) /\ j \in Item /\ log'[j] = log[j]
        /\ ItemsOf(log[j].product)' = ItemsOf(log[j].product) /\ Following(j)
    BY <1>1, <1>2 DEF IsLast, ItemsOf, Item, LastOK, Types
  <2>2. \A v \in Worker, t \in Slot :
           flight'[v][t].stage = "upsert" \/ flight'[v][t] = flight[v][t]
    BY <1>3 DEF Moves
  <2> QED BY <2>1, <2>2, <1>2, <1>7, FollowingKept
<1> QED BY <1>3, <1>4, <1>5, <1>6, <1>8, <1>9 DEF IInv

\* The item a new extraction is.
LEMMA NewItem ==
    ASSUME Types, HomeOK, NEW p \in Product, NEW a \in Answer, NEW r \in Run,
           log' = Append(log, [product |-> p, offered |-> a.offered, stock |-> a.stock,
                               run |-> r])
    PROVE  LET i == Len(log) + 1 IN
           /\ i \in Nat /\ i \notin Item /\ Item' = Item \cup {i}
           /\ log'[i].product = p /\ log'[i].stock = a.stock /\ log'[i].run = r
           /\ \A j \in Item : log'[j] = log[j] /\ j < i
           /\ log' \in Seq(Extraction)
           /\ \A j \in Item' : log'[j].stock \subseteq log'[j].offered
           /\ ItemsOf(p)' = ItemsOf(p) \cup {i}
           /\ \A q : q # p => ItemsOf(q)' = ItemsOf(q)
           /\ IsFiniteSet(Item')
           /\ i \notin Remaining /\ i \notin lost \cup flushed \cup alone
           /\ \A v \in Worker, t \in Slot : i \notin Members(flight[v][t].batch)
<1> DEFINE i == Len(log) + 1
           x == [product |-> p, offered |-> a.offered, stock |-> a.stock, run |-> r]
<1>1. x \in Extraction /\ a.stock \subseteq a.offered
  BY AnswerAssumption DEF Extraction
<1>2. /\ x.product = p /\ x.stock = a.stock /\ x.run = r /\ x.offered = a.offered
      /\ log' = Append(log, x)
  OBVIOUS
<1>3. log \in Seq(Extraction) /\ Len(log) \in Nat /\ Item \in SUBSET Nat
  BY ItemFacts DEF Types
<1> HIDE DEF x
<1>4. /\ log' \in Seq(Extraction) /\ Len(log') = i /\ log'[i] = x
      /\ \A j \in 1 .. Len(log) : log'[j] = log[j]
  BY <1>1, <1>2, <1>3, AppendProperties
<1>5. /\ i \in Nat /\ i \notin Item /\ Item' = Item \cup {i}
      /\ \A j \in Item : log'[j] = log[j] /\ j < i
  BY <1>3, <1>4 DEF Item
<1>6. \A j \in Item' : log'[j].stock \subseteq log'[j].offered
  BY <1>1, <1>2, <1>4, <1>5 DEF Types
<1>7. ItemsOf(p)' = ItemsOf(p) \cup {i} /\ \A q : q # p => ItemsOf(q)' = ItemsOf(q)
  BY <1>2, <1>4, <1>5 DEF ItemsOf
<1>8. IsFiniteSet(Item')
  BY <1>4, <1>5, FS_Interval DEF Item
<1>9. /\ i \notin Remaining /\ i \notin lost \cup flushed \cup alone
      /\ \A v \in Worker, t \in Slot : i \notin Members(flight[v][t].batch)
  BY <1>5, WhereItemsAre DEF Remaining, Types
<1> QED BY <1>2, <1>4, <1>5, <1>6, <1>7, <1>8, <1>9

LEMMA ExtractStep ==
    ASSUME IInv, NEW w \in Worker, NEW p \in Product, NEW a \in Answer, NEW r \in Run,
           Extract(w, p, a, r)
    PROVE  IInv'
<1> PICK i : i = Len(log) + 1
  OBVIOUS
<1> DEFINE items == buffer[w] \o <<i>>
<1>1. /\ Types /\ StateTypes /\ HomeOK /\ LastOK /\ FlightOK /\ ActiveOK /\ CreditOK
      /\ stock \in [Product -> SUBSET Variant]
  BY ItemFacts DEF IInv, Types
<1>2. /\ i \in Nat /\ i \notin Item /\ Item' = Item \cup {i}
      /\ log'[i].product = p /\ log'[i].stock = a.stock
      /\ \A j \in Item : log'[j] = log[j] /\ j < i
      /\ log' \in Seq(Extraction)
      /\ \A j \in Item' : log'[j].stock \subseteq log'[j].offered
      /\ ItemsOf(p)' = ItemsOf(p) \cup {i} /\ \A q : q # p => ItemsOf(q)' = ItemsOf(q)
      /\ IsFiniteSet(Item')
      /\ i \notin Remaining /\ i \notin lost \cup flushed \cup alone
      /\ \A v \in Worker, t \in Slot : i \notin Members(flight[v][t].batch)
  BY <1>1, NewItem DEF Extract
<1>3. /\ UNCHANGED <<phase, counted, lost, faults, stops>>
      /\ alone' = IF \A v \in Worker : Pending(v) \cap ItemsOf(p) = {}
                  THEN alone \cup {i} ELSE alone
      /\ \/ /\ a.stock = {} /\ stock' = [stock EXCEPT ![p] = {}]
            /\ flushed' = flushed \cup {i} /\ UNCHANGED <<buffer, flight, activeFlushes>>
         \/ AddMany(w, <<i>>) /\ UNCHANGED <<stock, flushed>>
  BY DEF Extract
<1>4. /\ StateTypes' /\ FlightOK' /\ ActiveOK'
      /\ \A v \in Worker, s \in Slot :
            flight'[v][s] = flight[v][s] \/ flight'[v][s].stage = "upsert"
      /\ \A v \in Worker : Pending(v)' \subseteq Pending(v) \cup {i}
      /\ \A j \in Item : Unwritten(j)' \/ AwaitsCount(j)' => Unwritten(j) \/ AwaitsCount(j)
  <2>1. CASE UNCHANGED <<buffer, flight, activeFlushes>>
    <3>1. StateTypes' /\ FlightOK' /\ ActiveOK'
      BY <1>1, <2>1 DEF StateTypes, FlightOK, ActiveOK, IdleSlots
    <3>2. \A v \in Worker : Pending(v)' = Pending(v)
      BY <2>1 DEF Pending
    <3>3. \A j \in Item : Unwritten(j)' = Unwritten(j) /\ AwaitsCount(j)' = AwaitsCount(j)
      BY <2>1, <1>2 DEF Unwritten, AwaitsCount
    <3> QED BY <2>1, <3>1, <3>2, <3>3
  <2>2. CASE AddMany(w, <<i>>)
    <3>1. /\ StateTypes' /\ ActiveOK' /\ Moves(w, items)
      BY <1>1, <1>2, <2>2, AddManyEffect
    <3>2. FlightOK'
      BY <1>1, <3>1, MovesFlight
    <3>3. Members(items) = Members(buffer[w]) \cup {i}
      <4> DEFINE q == <<i>>
      <4>1. buffer[w] \in Seq(Nat) /\ q \in Seq(Nat) /\ Len(q) = 1 /\ q[1] = i
        BY <1>1, <1>2 DEF StateTypes
      <4> HIDE DEF q
      <4>2. Members(q) = {i}
        <5>1. \A x : x \in Members(q) <=> \E k \in 1 .. 1 : q[k] = x
          BY <4>1, MembersFacts
        <5>2. 1 .. 1 = {1}
          OBVIOUS
        <5> QED BY <4>1, <5>1, <5>2
      <4>3. Members(buffer[w] \o q) = Members(buffer[w]) \cup Members(q)
        BY <4>1, MembersConcat
      <4> QED BY <4>2, <4>3 DEF q
    <3> HIDE DEF items
    <3>4. /\ \A v \in Worker : Pending(v)' \subseteq
                   Pending(v) \cup (IF v = w THEN Members(items) ELSE {})
          /\ \A j \in Item : /\ AwaitsCount(j)' => AwaitsCount(j)
                             /\ Unwritten(j)' => Unwritten(j) \/ j \in Members(items)
      BY <1>2, <3>1, MovesPending
    <3>5. Members(buffer[w]) \subseteq Pending(w) /\ \A j \in Members(buffer[w]) : Unwritten(j)
      BY DEF Pending, Unwritten
    <3>6. \A v \in Worker : Pending(v)' \subseteq Pending(v) \cup {i}
      BY <3>3, <3>4, <3>5
    <3>7. \A j \in Item : Unwritten(j)' \/ AwaitsCount(j)' => Unwritten(j) \/ AwaitsCount(j)
      BY <3>3, <3>4, <3>5, <1>2
    <3>8. \A v \in Worker, s \in Slot :
             flight'[v][s] = flight[v][s] \/ flight'[v][s].stage = "upsert"
      BY <3>1 DEF Moves
    <3> QED BY <3>1, <3>2, <3>6, <3>7, <3>8
  <2> QED BY <1>3, <2>1, <2>2
<1>5. /\ stock' \in [Product -> SUBSET Variant]
      /\ \A q \in Product : q # p => stock'[q] = stock[q]
  BY <1>1, <1>3
<1>6. Types'
  <2>1. flushed' \cup lost' \cup alone' \subseteq Item'
    BY <1>1, <1>2, <1>3 DEF Types
  <2> QED BY <1>1, <1>2, <1>3, <1>4, <1>5, <2>1 DEF Types, StateTypes
<1>7. HomeOK'
  <2>1. CASE UNCHANGED <<buffer, flight, activeFlushes>> /\ flushed' = flushed \cup {i}
    <3>1. Memory' = Memory
      BY <2>1 DEF Memory
    <3>2. Remaining' = Remaining
      BY <1>2, <1>3, <2>1 DEF Remaining
    <3> QED BY <1>1, <1>2, <1>3, <2>1, <3>1, <3>2 DEF HomeOK
  <2>2. CASE AddMany(w, <<i>>) /\ UNCHANGED <<stock, flushed>>
    <3>1. Remaining' = Remaining \cup {i}
      BY <1>2, <1>3, <2>2 DEF Remaining
    <3>2. Homed(Memory', Remaining \cup {i})
      BY <1>1, <1>2, <2>2, AddManyEffect DEF HomeOK
    <3> QED BY <1>1, <1>3, <2>2, <3>1, <3>2 DEF HomeOK
  <2> QED BY <1>3, <2>1, <2>2
<1>8. CreditOK'
  <2>1. \A j \in Item : /\ log'[j].run = log[j].run
                        /\ Unwritten(j)' \/ AwaitsCount(j)' => Unwritten(j) \/ AwaitsCount(j)
    BY <1>2, <1>4
  <2> QED BY <1>1, <1>2, <1>3, <2>1, CreditGrows
<1>9. LastOK'
  <2> SUFFICES ASSUME NEW j \in alone', IsLast(j)'
               PROVE  Following(j)'
    BY DEF LastOK
  <2>1. CASE j # i
    <3>1. j \in alone /\ j \in Item /\ log'[j] = log[j] /\ j < i
      BY <1>1, <1>2, <1>3, <2>1 DEF Types
    <3>2. log[j].product # p
      <4> SUFFICES ASSUME log[j].product = p
                   PROVE  FALSE
        OBVIOUS
      <4>1. i \in Item' /\ log'[i].product = log'[j].product
        BY <1>2, <3>1
      <4>2. i <= j
        BY <4>1 DEF IsLast, ItemsOf
      <4>3. i \in Int /\ j \in Int
        BY <1>1, <1>2, <3>1, ItemFacts
      <4> QED BY <3>1, <4>2, <4>3
    <3>3. /\ log[j].product \in Product
          /\ ItemsOf(log[j].product)' = ItemsOf(log[j].product)
          /\ i \notin ItemsOf(log[j].product)
      BY <1>1, <1>2, <3>1, <3>2, ItemFacts DEF ItemsOf
    <3>4. Following(j)
      BY <3>1, <3>3, <1>1 DEF LastOK, IsLast
    <3>5. j \in flushed' => j \in flushed
      BY <1>3, <2>1
    <3>6. \A v \in Worker : Pending(v)' \cap ItemsOf(log[j].product)'
                               \subseteq (Pending(v) \cap ItemsOf(log[j].product)) \cup {j}
      BY <1>4, <3>3
    <3> QED BY <1>4, <1>5, <3>1, <3>2, <3>3, <3>4, <3>5, <3>6, FollowingKept
  <2>2. CASE j = i
    <3>1. \A v \in Worker : Pending(v) \cap ItemsOf(p) = {}
      BY <1>2, <1>3, <2>2
    <3>3. \A v \in Worker : Pending(v)' \cap ItemsOf(p)' \subseteq {i}
      <4>1. \A v \in Worker : Pending(v) \cap {i} \subseteq {i}
        OBVIOUS
      <4> QED BY <1>2, <1>4, <3>1, <4>1
    <3>4. \A v \in Worker, t \in Slot :
             i \notin Members(flight'[v][t].batch) \/ flight'[v][t].stage = "upsert"
      BY <1>2, <1>4
    <3>5. i \in flushed' => Shows(i)'
      <4>1. CASE i \in flushed'
        <5>1. a.stock = {} /\ stock' = [stock EXCEPT ![p] = {}]
          BY <1>2, <1>3, <4>1
        <5>2. stock'[p] = {}
          BY <1>1, <5>1
        <5> QED BY <1>2, <5>1, <5>2 DEF Shows
      <4> QED BY <4>1
    <3>6. ASSUME NEW v \in Worker, NEW t \in Slot, NEW k \in DOMAIN flight'[v][t].batch,
                 flight'[v][t].batch[k] = i
          PROVE  flight'[v][t].stage = "upsert"
      BY <3>4, <3>6 DEF Members
    <3>7. \A v \in Worker : Pending(v)' \cap ItemsOf(log[i].product)' \subseteq {i}
      BY <1>2, <3>3 DEF ItemsOf
    <3> QED BY <2>2, <3>5, <3>6, <3>7 DEF Following
  <2> QED BY <2>1, <2>2
<1> QED BY <1>4, <1>6, <1>7, <1>8, <1>9 DEF IInv

-----------------------------------------------------------------------------
(* Invariance. *)

LEMMA InitIInv == Init => IInv
<1> SUFFICES ASSUME Init
             PROVE  IInv
  OBVIOUS
<1>1. Item = {} /\ Len(log) = 0 /\ log \in Seq(Extraction)
  BY EmptySeq DEF Init, Item
<1>2. StateTypes /\ \A w \in Worker, s \in Slot : flight[w][s] = Idle
  <2>1. [s \in Slot |-> Idle] \in [Slot -> Flush]
    BY IdleFacts
  <2>2. <<>> \in Seq(Nat)
    BY EmptySeq
  <2> HIDE DEF Flush
  <2> QED BY <2>1, <2>2 DEF Init, StateTypes
<1>3. Types
  BY <1>1, <1>2, SizeAssumption DEF Init, Types, StateTypes
<1>4. FlightOK
  BY <1>2, IdleFacts, SizeAssumption DEF FlightOK
<1>5. ActiveOK
  <2>1. \A w \in Worker : Slot \ IdleSlots(w) = {}
    BY <1>2, IdleFacts DEF IdleSlots
  <2> QED BY <2>1, FS_EmptySet DEF ActiveOK, Init
<1>6. HomeOK
  <2>1. \A w \in Worker, s \in Place : Memory[w][s] = <<>>
    BY <1>2, IdleFacts, PlaceFacts DEF Memory, Init
  <2>2. Remaining = {} /\ flushed \cap lost = {}
    BY <1>1 DEF Remaining, Init
  <2>3. <<>> \in Seq(Remaining) /\ Len(<<>>) = 0
    BY EmptySeq
  <2>4. Memory \in [Worker -> [Place -> Seq(Remaining)]]
    <3>1. Memory = [w \in Worker |-> [s \in Place |-> Memory[w][s]]]
      BY DEF Memory
    <3> HIDE DEF Memory
    <3>2. [w \in Worker |-> [s \in Place |-> Memory[w][s]]]
             \in [Worker -> [Place -> Seq(Remaining)]]
      BY <2>1, <2>3
    <3> QED BY <3>1, <3>2
  <2> QED BY <2>1, <2>2, <2>3, <2>4 DEF HomeOK, Homed
<1>7. CreditOK
  <2>1. \A r \in Run : Credited(r) = {}
    BY <1>1 DEF Credited
  <2>2. \A r \in Run : counted[r] = 0
    BY DEF Init
  <2> QED BY <2>1, <2>2, FS_EmptySet DEF CreditOK
<1>8. LastOK
  BY DEF Init, LastOK
<1> QED BY <1>3, <1>4, <1>5, <1>6, <1>7, <1>8 DEF IInv

LEMMA NextIInv == IInv /\ [Next]_vars => IInv'
<1> SUFFICES ASSUME IInv, [Next]_vars
             PROVE  IInv'
  OBVIOUS
<1>1. CASE Next
  <2>1. PICK w \in Worker :
           \/ \E p \in Product, a \in Answer, r \in Run : Extract(w, p, a, r)
           \/ Tick(w) \/ Write(w)
           \/ \E s \in Slot : Fail(w, s)
           \/ Crash(w) \/ Stop(w) \/ Drained(w) \/ Exit(w)
    BY <1>1 DEF Next
  <2>2. CASE \E p \in Product, a \in Answer, r \in Run : Extract(w, p, a, r)
    BY <2>2, ExtractStep
  <2>3. CASE Tick(w)
    BY <2>3, TickStep
  <2>4. CASE Write(w)
    <3>1. PICK s \in Slot : Upsert(w, s) \/ Cleanup(w, s) \/ Count(w, s) \/ Finish(w, s)
      BY <2>4 DEF Write
    <3> QED BY <3>1, UpsertStep, CleanupStep, CountStep, FinishStep
  <2>5. CASE \E s \in Slot : Fail(w, s)
    BY <2>5, FailStep
  <2>6. CASE Crash(w) \/ Stop(w) \/ Drained(w) \/ Exit(w)
    BY <2>6, EndStep
  <2> QED BY <2>1, <2>2, <2>3, <2>4, <2>5, <2>6
<1>2. CASE UNCHANGED vars
  <2>1. /\ phase' \in [Worker -> {"up", "draining", "drained"}] /\ stops' \in 0 .. MaxStops
        /\ UNCHANGED <<log, buffer, flight, activeFlushes, stock, counted, flushed, lost,
                       alone, faults>>
    BY <1>2 DEF IInv, Types, vars
  <2> QED BY <2>1, PhaseStep
<1> QED BY <1>1, <1>2

LEMMA Invariance == Spec => []IInv
BY InitIInv, NextIInv, PTL DEF Spec

-----------------------------------------------------------------------------
(* The properties. *)

\* Whatever is extracted, flushed, retried or lost, every extraction, buffer,
\* batch, table and counter keeps its form, no batch is longer than BATCH_SIZE,
\* and no worker writes more than MAX_CONCURRENT_FLUSHES batches at once.
THEOREM TypesHold == Spec => []TypeOK
<1>1. ASSUME IInv
      PROVE  TypeOK
  <2>1. Types /\ FlightOK /\ ActiveOK /\ HomeOK
    BY <1>1 DEF IInv
  <2>2. \A i \in Item : log[i] \in [product : Product, offered : SUBSET Variant,
                                    stock : SUBSET Variant, run : Run]
    BY <2>1, ItemFacts DEF Extraction
  <2>3. ASSUME NEW w \in Worker
        PROVE  activeFlushes[w] \in 0 .. MaxConcurrentFlushes
    <3>1. IsFiniteSet(Slot) /\ Cardinality(Slot) = MaxConcurrentFlushes
      BY FS_Interval, SizeAssumption DEF Slot
    <3>2. Slot \ IdleSlots(w) \in SUBSET Slot
      OBVIOUS
    <3>3. /\ Cardinality(Slot \ IdleSlots(w)) <= Cardinality(Slot)
          /\ IsFiniteSet(Slot \ IdleSlots(w))
      BY <3>1, <3>2, FS_Subset
    <3>4. activeFlushes[w] = Cardinality(Slot \ IdleSlots(w)) /\ activeFlushes[w] \in Nat
      BY <2>1 DEF ActiveOK, Types
    <3> QED BY <3>1, <3>3, <3>4, SizeAssumption
  <2>4. ASSUME NEW w \in Worker
        PROVE  /\ Members(buffer[w]) \subseteq Item
               /\ \A s \in Slot : Members(flight[w][s].batch) \subseteq Item
    BY <2>1, WhereItemsAre DEF Remaining
  <2>5. ASSUME NEW w \in Worker
        PROVE  /\ phase[w] \in {"up", "draining", "drained"}
               /\ \A s \in Slot : /\ flight[w][s].stage \in Stages
                                  /\ flight[w][s].runs \subseteq Run
                                  /\ Len(flight[w][s].batch) <= BatchSize
    BY <2>1 DEF Types, Flush, FlightOK
  <2> QED BY <2>1, <2>2, <2>3, <2>4, <2>5 DEF TypeOK, Types
<1> QED BY <1>1, Invariance, PTL

\* Splicing batches off the buffer, several at a time, putting the failed ones
\* back at its front and losing those of a process that ends neither drops nor
\* doubles an extraction.
THEOREM NothingDroppedOrDoubled == Spec => []OneHome
<1>1. ASSUME IInv
      PROVE  OneHome
  <2>1. Types /\ StateTypes /\ HomeOK /\ Homed(Memory, Remaining)
    BY <1>1, ItemFacts DEF IInv, HomeOK
  <2>2. \A v \in Worker, s \in Place : /\ DOMAIN Memory[v][s] = 1 .. Len(Memory[v][s])
                                       /\ Memory[v][s] \in Seq(Remaining)
    <3> TAKE v \in Worker, s \in Place
    <3> DEFINE q == Memory[v][s]
    <3>1. q \in Seq(Remaining)
      BY <2>1 DEF Homed
    <3> HIDE DEF q
    <3>2. DOMAIN q = 1 .. Len(q)
      BY <3>1, LenProperties
    <3> QED BY <3>1, <3>2 DEF q
  <2>3. \A i, x : x \in Places(i) <=> \E v \in Worker, s \in Place :
                     \E k \in 1 .. Len(Memory[v][s]) : Memory[v][s][k] = i /\ x = <<v, s, k>>
    <3> TAKE i, x
    <3>1. x \in Places(i) <=> \E v \in Worker :
             \/ \E k \in DOMAIN buffer[v] : buffer[v][k] = i /\ x = <<v, 0, k>>
             \/ \E s \in Slot : \E k \in DOMAIN flight[v][s].batch :
                                  flight[v][s].batch[k] = i /\ x = <<v, s, k>>
      <4> DEFINE inBuffer(v) == {<<v, 0, k>> : k \in {k \in DOMAIN buffer[v] : buffer[v][k] = i}}
                 inSlot(v, s) == {<<v, s, k>> : k \in {k \in DOMAIN flight[v][s].batch :
                                                        flight[v][s].batch[k] = i}}
      <4>1. Places(i) = UNION {inBuffer(v) \cup UNION {inSlot(v, s) : s \in Slot} : v \in Worker}
        BY DEF Places
      <4>2. \A v : x \in inBuffer(v) <=> \E k \in DOMAIN buffer[v] :
                                           buffer[v][k] = i /\ x = <<v, 0, k>>
        OBVIOUS
      <4>3. \A v, s : x \in inSlot(v, s) <=> \E k \in DOMAIN flight[v][s].batch :
                                           flight[v][s].batch[k] = i /\ x = <<v, s, k>>
        OBVIOUS
      <4> HIDE DEF inBuffer, inSlot
      <4>4. x \in Places(i) <=> \E v \in Worker : x \in inBuffer(v) \/
                                                   \E s \in Slot : x \in inSlot(v, s)
        BY <4>1
      <4> QED BY <4>2, <4>3, <4>4
    <3>2. /\ \A v \in Worker : Memory[v][0] = buffer[v]
          /\ \A v \in Worker, s \in Slot : Memory[v][s] = flight[v][s].batch
      BY <2>1, MemoryFacts
    <3>3. x \in Places(i) <=> \E v \in Worker : \E s \in Place :
             \E k \in DOMAIN Memory[v][s] : Memory[v][s][k] = i /\ x = <<v, s, k>>
      BY <3>1, <3>2, PlaceFacts
    <3> QED BY <2>2, <3>3
  <2>4. ASSUME NEW i \in Item, i \in flushed \cup lost
        PROVE  Cardinality(Places(i)) = 0
    <3>1. \A v \in Worker, s \in Place : \A k \in 1 .. Len(Memory[v][s]) : Memory[v][s][k] # i
      BY <2>2, <2>4, ElementOfSeq DEF Remaining
    <3>2. Places(i) = {}
      BY <2>3, <3>1
    <3> QED BY <3>2, FS_EmptySet
  <2>5. ASSUME NEW i \in Remaining
        PROVE  Cardinality(Places(i)) = 1
    <3>1. PICK v \in Worker, s \in Place : \E k \in 1 .. Len(Memory[v][s]) : Memory[v][s][k] = i
      BY <2>1 DEF Homed
    <3>2. PICK k \in 1 .. Len(Memory[v][s]) : Memory[v][s][k] = i
      BY <3>1
    <3>3. \A u \in Worker, t \in Place : \A h \in 1 .. Len(Memory[u][t]) :
             Memory[u][t][h] = i => u = v /\ t = s /\ h = k
      <4> TAKE u \in Worker, t \in Place
      <4> TAKE h \in 1 .. Len(Memory[u][t])
      <4> HAVE Memory[u][t][h] = i
      <4>1. Memory[u][t][h] = Memory[v][s][k]
        BY <3>2
      <4>2. \A x, y \in Worker, a, b \in Place :
               \A c \in 1 .. Len(Memory[x][a]), d \in 1 .. Len(Memory[y][b]) :
                   Memory[x][a][c] = Memory[y][b][d] => x = y /\ a = b /\ c = d
        BY <2>1 DEF Homed
      <4> QED BY <4>1, <4>2
    <3>4. \A x : x \in Places(i) <=> x = <<v, s, k>>
      BY <2>3, <3>2, <3>3
    <3>5. Places(i) = {<<v, s, k>>}
      BY <3>4
    <3> QED BY <3>5, FS_Singleton
  <2> QED BY <2>1, <2>4, <2>5 DEF OneHome, HomeOK, Remaining
<1> QED BY <1>1, Invariance, PTL

\* Retries and crashes never credit a run twice with an extraction, nor with one
\* that is yet to be written.
THEOREM NoCreditTwice == Spec => []CountedOnce
<1>1. ASSUME IInv
      PROVE  CountedOnce
  <2> SUFFICES ASSUME NEW r \in Run
               PROVE  counted[r] <= Cardinality({i \in Item : log[i].run = r /\ ~Unwritten(i)})
    BY DEF CountedOnce
  <2> DEFINE A == Credited(r)
             B == {i \in Item : log[i].run = r /\ ~Unwritten(i)}
  <2>1. Types /\ CreditOK /\ IsFiniteSet(Item)
    BY <1>1, ItemFacts DEF IInv
  <2>2. A \in SUBSET B /\ B \in SUBSET Item
    BY DEF Credited
  <2>3. counted[r] <= Cardinality(A) /\ counted[r] \in Nat
    BY <2>1 DEF CreditOK, Types
  <2> HIDE DEF A, B
  <2>4. IsFiniteSet(B)
    BY <2>1, <2>2, FS_Subset
  <2>5. Cardinality(A) <= Cardinality(B) /\ IsFiniteSet(A)
    BY <2>2, <2>4, FS_Subset
  <2>6. Cardinality(A) \in Nat /\ Cardinality(B) \in Nat
    BY <2>4, <2>5, FS_CardinalityType
  <2>7. counted[r] <= Cardinality(B)
    BY <2>3, <2>5, <2>6
  <2> QED BY <2>7 DEF B
<1> QED BY <1>1, Invariance, PTL

LEMMA LastOf ==
    ASSUME NEW S \in SUBSET Nat, IsFiniteSet(S), S # {}
    PROVE  LET i == CHOOSE i \in S : \A j \in S : j <= i
           IN  i \in S /\ \A j \in S : j <= i
<1>1. Cardinality(S) \in Nat /\ Cardinality(S) # 0
  BY FS_EmptySet, FS_CardinalityType
<1>2. PICK s \in S : Before(S, s) = Cardinality(S) - 1
  <2>1. Cardinality(S) - 1 \in Nat /\ Cardinality(S) - 1 < Cardinality(S)
    BY <1>1
  <2> QED BY <2>1, BeforeOnto
<1>3. ASSUME NEW t \in S, s < t
      PROVE  FALSE
  <2>1. Before(S, s) + 1 <= Before(S, t)
    BY <1>3, BeforeGrows
  <2>2. Before(S, t) \in Nat /\ Before(S, t) < Cardinality(S)
    <3>1. S \in SUBSET Int
      OBVIOUS
    <3>2. Before(S, t) \in Nat
      BY <3>1, BeforeType
    <3>3. t \in S => Before(S, t) < Cardinality(S)
      BY <3>1, BeforeType
    <3> QED BY <3>2, <3>3
  <2> QED BY <1>1, <1>2, <2>1, <2>2
<1>4. \A t \in S : t <= s
  BY <1>3
<1> QED BY <1>4

\* If the last extraction of a product overlapped with no other one of it, then
\* once it is flushed the tables offer just what the shop had in stock, whatever
\* overlapped, failed, was retried or went down before.
THEOREM TablesRepaired == Spec => []LastAnswerShown
<1>1. ASSUME IInv
      PROVE  LastAnswerShown
  <2>1. Types /\ LastOK /\ Item \in SUBSET Nat /\ IsFiniteSet(Item)
    BY <1>1, ItemFacts DEF IInv
  <2> SUFFICES ASSUME NEW p \in Product, ItemsOf(p) # {},
                      NEW i, i = CHOOSE k \in ItemsOf(p) : \A j \in ItemsOf(p) : j <= k,
                      i \in alone \cap flushed
               PROVE  stock[p] = log[i].stock
    BY DEF LastAnswerShown
  <2>2. ItemsOf(p) \in SUBSET Item
    BY DEF ItemsOf
  <2>3. ItemsOf(p) \in SUBSET Nat /\ IsFiniteSet(ItemsOf(p))
    BY <2>1, <2>2, FS_Subset
  <2>4. i \in ItemsOf(p) /\ \A j \in ItemsOf(p) : j <= i
    BY <2>3, LastOf
  <2>5. log[i].product = p
    BY <2>4 DEF ItemsOf
  <2> QED BY <2>1, <2>4, <2>5 DEF LastOK, IsLast, Following, Shows
<1> QED BY <1>1, Invariance, PTL
=============================================================================
